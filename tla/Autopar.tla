------------------------------ MODULE Autopar ------------------------------
(***************************************************************************)
(* Autopar (par.cc, par.h): the par files that match are put aside, and    *)
(* only as many of them are downloaded as are needed to repair what is     *)
(* missing or damaged in the download directory.                           *)
(*                                                                         *)
(* There is one parity set, of par (ver = 1) or par2 files.  It has         *)
(* index files ("par") and volumes ("vol"); a volume has recovery packets, *)
(* a par volume exactly one.  What the par files say, and par2/, which      *)
(* counts the blocks that are missing, are operators on the directory here. *)
(* This module has no actions of its own: Retrieve calls it.               *)
(***************************************************************************)
EXTENDS Knapsack

CONSTANTS
  MaxPost    \* bound on the number of posts

Date == 1 .. MaxPost
Name == {"data1", "data2", "par", "vol1", "vol2", "vol3"}

\* A post of the header cache; its date names it.
Post ==
  [date : Date, name : Name, role : {"data", "par", "vol"},
   req : 1 .. 2,                             \* the parts of the subject
   parts : (SUBSET (1 .. 2)) \ {{}},         \* those there are; the cache has no file without
   sound : BOOLEAN,                          \* the articles have what the poster posted
   shows : BOOLEAN,                          \* when damaged: the decoder notices
   packets : SUBSET (1 .. 6),                \* the recovery packets in it, or the par volume's number
   good : 0 .. 3]                            \* when damaged or incomplete: the good blocks in it

VARIABLES
  job,    \* what the user asks for, the posts and the servers
  disk,   \* the files in the download directory
  set     \* the ParInfo of that directory

\* A file has the name of the post or a name made by make_dupe_name; its
\* content is Good or the date of the damaged or incomplete post it is from.
Good == 0
File == [name : Name, dupe : BOOLEAN, content : {Good} \cup Date]

PostOf(date) == CHOOSE p \in job.posts : p.date = date
Complete(p) == p.parts = 1 .. p.req

\* server_file_key: the more complete first, then the older.
Before(p, q) ==
  LET a == Cardinality(p.parts) * q.req
      b == Cardinality(q.parts) * p.req
  IN a > b \/ (a = b /\ p.date < q.date)

\* How many of S come before p.
Rank(S, p) == Cardinality({q \in S : Before(q, p)})

InOrder(S) == [i \in 1 .. Cardinality(S) |-> CHOOSE p \in S : Rank(S, p) = i - 1]

NoSet == [known |-> FALSE, pars |-> {}, loose |-> {}, vols |-> {}, extra |-> {}, finished |-> "no"]

ParInfos ==
  [known : BOOLEAN,              \* the directory has a file of the set (subjmatches)
   pars : SUBSET job.posts,      \* serverpars
   loose : SUBSET job.posts,     \* volumes that match no file in the directory (ParSetInfo)
   vols : SUBSET job.posts,      \* serverpxxs
   extra : SUBSET job.posts,     \* serverextradata
   finished : {"no", "ok", "failed"}]

-----------------------------------------------------------------------------
(* The directory. *)

RoleOf(name) == (CHOOSE p \in job.posts : p.name = name).role
ParFiles == {f \in disk : f.name \notin job.data /\ RoleOf(f.name) # "data"}

\* A damaged par file in which the hash of the set is found all the same.
Readable(f) == f.content = Good \/ PostOf(f.content).good > 0

\* addfrompath_par1, addfrompath_par2.
Known == \E f \in ParFiles : Readable(f)
BadNames == \E f \in ParFiles : ~Readable(f)

GoodPars == {f \in ParFiles : f.content = Good}
GoodPackets == UNION {p.packets : p \in {q \in job.posts : \E f \in GoodPars : f.name = q.name}}

\* The blocks of a file that no copy has, whatever the copy's name is.
Missing(name) ==
  LET copies == {f.content : f \in {f \in disk : f.name = name}}
  IN IF Good \in copies THEN 0
     ELSE job.blocks - IF job.ver = 2 THEN Max({0} \cup {PostOf(d).good : d \in copies}) ELSE 0

MissingBlocks == SumFunctionOnSet([n \in job.data |-> Missing(n)], job.data)

\* The packets or volumes still needed; one when there is no good par to tell.
Needed ==
  IF GoodPars = {} THEN 1 ELSE Max({0, MissingBlocks - Cardinality(GoodPackets)})

-----------------------------------------------------------------------------
(* Putting posts aside. *)

\* Whether maybe_add_parfile takes the post.
Takes(p) ==
  IF p.role = "data" THEN ~job.incomplete /\ ~Complete(p) ELSE TRUE

\* maybe_add_parfile on all posts of S.  An incomplete par that is not wanted
\* goes where the incomplete data is kept.
PutAside(S) ==
  LET wanted(p) == p.role # "data" /\ (job.ver = 2 \/ job.incomplete \/ Complete(p))
      vols == {p \in S : wanted(p) /\ p.role = "vol"}
  IN [NoSet EXCEPT
        !.known = Known,
        !.pars = {p \in S : wanted(p) /\ p.role = "par"},
        !.vols = IF Known THEN vols ELSE {},
        !.loose = IF Known THEN {} ELSE vols,
        !.extra = {p \in S : Takes(p) /\ ~wanted(p)}]

-----------------------------------------------------------------------------
(* Choosing what to get.  A choice is a set of posts. *)

\* ParXInfoBase::get_initial_pars: the index files, or else the smallest volume.
Smallest(S) ==
  LET least == {p \in S : \A q \in S : Cardinality(p.parts) <= Cardinality(q.parts)}
  IN {p \in least : \A q \in least : q = p \/ Before(p, q)}

InitialPars(s) == IF s.pars = {} THEN Smallest(s.loose) ELSE s.pars

\* Wrong: a volume is fetched for each post of it.
FirstPosts(s, num, have) ==
  LET fresh == {p \in s.vols : p.packets \cap have = {}}
  IN {p \in fresh : Rank(fresh, p) < num}

\* Par1Info::get_pxxs.
FirstVols(s, num, have) ==
  LET fresh == {p \in s.vols : p.packets \cap have = {}
                               /\ \A q \in s.vols : q.packets = p.packets => q = p \/ Before(p, q)}
  IN IF job.optimistic /\ Cardinality(fresh) < num THEN {}
     ELSE {p \in fresh : Rank(fresh, p) < num}

\* Par2Info::get_extradata: incomplete posts of files that are not complete.
Extra(s, num) ==
  LET blocks(p) == Max({1, (job.blocks * Cardinality(p.parts)) \div p.req})
      useful == {p \in s.extra : p.name \in job.data /\ GoodPars # {} /\ Missing(p.name) > 0}
      earlier(p) == SumFunctionOnSet([q \in useful |-> blocks(q)], {q \in useful : Before(q, p)})
      chosen == {p \in useful : earlier(p) < num}
  IN IF job.optimistic /\ SumFunctionOnSet([q \in useful |-> blocks(q)], useful) < num THEN {} ELSE chosen

\* Par2Info::get_recoverypackets.  Packets that an earlier post brings do not
\* count, and an incomplete post counts for less.
Fresh(s, p, have) == p.packets \ (have \cup UNION {q.packets : q \in {q \in s.vols : Before(q, p)}})
Value(s, p, have) == Max({1, (Cardinality(Fresh(s, p, have)) * Cardinality(p.parts)) \div p.req})

Items(s, have) == InOrder({p \in s.vols : Fresh(s, p, have) # {}})
Values(s, have) == [i \in DOMAIN Items(s, have) |-> Value(s, Items(s, have)[i], have)]
Sizes(s, have) == [i \in DOMAIN Items(s, have) |-> Cardinality(Items(s, have)[i].packets)]

CheapestVols(s, num, have) ==
  LET items == Items(s, have)
      avail == Cardinality((UNION {p.packets : p \in s.vols}) \ have)
      few == avail < num
      extra == IF few THEN Extra(s, num - avail) ELSE {}
  IN IF extra # {} THEN extra
     ELSE IF job.optimistic /\ few THEN {}
     ELSE {p \in s.vols : \E i \in Fewest(Values(s, have), Sizes(s, have), num) : items[i] = p}

\* The volumes that match the directory now are claimed.
Claimed(s) ==
  [s EXCEPT !.known = Known,
            !.vols = @ \cup IF Known THEN s.loose ELSE {},
            !.loose = IF Known THEN {} ELSE @]

\* What is got for the set itself, by maybe_get_pxxs.
Volumes(s) ==
  IF ~Known \/ s.finished # "no" \/ Needed = 0 THEN {}
  ELSE IF job.ver = 1 THEN FirstVols(s, Needed, GoodPackets)
  ELSE CheapestVols(s, Needed, GoodPackets)

\* Par1Info::maybe_get_pxxs, Par2Info::maybe_get_pxxs: what is queued, and the
\* ParInfo after it.
MorePars(s) == InitialPars(Claimed(s)) \cup Volumes(Claimed(s))

\* Wrong: a set is finished as soon as volumes are queued for it.
AfterMoreParsOnce(s) ==
  [Claimed(s) EXCEPT
     !.pars = {},
     !.loose = @ \ MorePars(s), !.vols = @ \ MorePars(s), !.extra = @ \ MorePars(s),
     !.finished = IF ~Known \/ @ # "no" THEN @
                  ELSE IF Volumes(Claimed(s)) = {} /\ Needed > 0 THEN "failed" ELSE "ok"]

AfterMorePars(s) ==
  [Claimed(s) EXCEPT
     !.pars = {},
     !.loose = @ \ MorePars(s), !.vols = @ \ MorePars(s), !.extra = @ \ MorePars(s),
     !.finished = IF ~Known \/ @ # "no" THEN @
                  ELSE IF Needed = 0 THEN "ok"
                  ELSE IF Volumes(Claimed(s)) = {} THEN "failed" ELSE "no"]

\* The autopar error: the set is given up, or there are par files of which
\* none can be read (check_badbasenames) and nothing more to get.
ParError(s) ==
  \/ s.finished = "no" /\ AfterMorePars(s).finished = "failed"
  \/ MorePars(s) = {} /\ BadNames /\ ~Known
=============================================================================
