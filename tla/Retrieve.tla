------------------------------ MODULE Retrieve ------------------------------
(***************************************************************************)
(* Retrieving what matches (prot_nntp.cc: nntp_doretrieve, nntp_doarticle; *)
(* cache.cc: nntp_cache_getfile; decode.cc: Decoder).  Each part of a post *)
(* is fetched into a temp file from one of the servers that have it, the    *)
(* temp files of a post are decoded, and a post that was decoded is marked *)
(* in the midinfo.  nget is run again and again, and may be killed.         *)
(*                                                                         *)
(* The order in which servers are tried depends on priorities and on where *)
(* nget is connected, and is left open.  One command, -r, that matches all *)
(* posts; one download directory.  A part is one byte.                      *)
(***************************************************************************)
EXTENDS Autopar

CONSTANTS
  Server,
  Jobs,      \* what nget is used for
  KilledTemps   \* the temp files that a kill while one is written may leave

Part == 1 .. 2

\* A job: posts, servers and options.
Job ==
  [posts : SUBSET Post, data : SUBSET Name,        \* the names the parity set protects
   ver : 1 .. 2, blocks : 1 .. 4,                  \* of the parity set: blocks of a data file
   at : [Date -> SUBSET Server],                   \* where the cache says the articles are
   expired : [Date -> SUBSET Server],              \* and where they are no more
   maxretry : 1 .. 2,
   autopar : BOOLEAN, optimistic : BOOLEAN, incomplete : BOOLEAN, noconnect : BOOLEAN,
   nodecode : BOOLEAN, keeptemp : BOOLEAN,
   dupeid : BOOLEAN, dupefile : BOOLEAN, dupemark : BOOLEAN,
   marks : BOOLEAN,                                \* the user also uses -M and -U
   flaky : BOOLEAN]                                \* attempts and writes may fail, nget may be killed

ASSUME RetrieveAssumption ==
  /\ MaxPost \in Nat \ {0}
  /\ KilledTemps \subseteq {"none", "cut", "whole"} /\ KilledTemps # {}
  /\ \A j \in Jobs :
       /\ j \in Job
       /\ \A p \in j.posts : p.good <= j.blocks
       /\ \A p, q \in j.posts :
            /\ p.date = q.date => p = q
            /\ p.name = q.name => p.role = q.role /\ p.packets = q.packets
       /\ j.autopar => ~j.nodecode
       /\ j.ver = 1 => j.blocks = 1 /\ \A p \in j.posts : p.role = "vol" => Cardinality(p.packets) = 1

VARIABLES
  temps,    \* the temp file of each part
  midfile,  \* the dates of the posts marked in the midinfo file
  mid,      \* midinfo
  pc,
  files,    \* filec: the posts to retrieve
  cur,      \* curf, by its date
  left,     \* the parts of it still to be looked at
  got,      \* fnbuf: the parts given to the decoder
  dlerr,
  sap,      \* the servers that have not failed fatally
  round,    \* those of them still to be tried this time
  redone,
  status,   \* errors and warnings since nget was started
  earned    \* history: the posts that were decoded, found, or marked by the user

article == <<sap, round, redone>>
file == <<cur, left, got, dlerr>>
vars == <<job, disk, set, temps, midfile, mid, pc, files, file, article, status, earned>>


Init ==
  /\ job \in Jobs
  /\ disk = {} /\ set = NoSet
  /\ temps = [d \in Date |-> [k \in Part |-> "none"]]
  /\ midfile = {} /\ mid = {}
  /\ pc = "idle" /\ files = {}
  /\ cur = 0 /\ left = {} /\ got = {} /\ dlerr = FALSE
  /\ sap = {} /\ round = {} /\ redone = 0
  /\ status = {} /\ earned = {}

NoArticle == sap' = {} /\ round' = {} /\ redone' = 0
NoFile == cur' = 0 /\ left' = {} /\ got' = {} /\ dlerr' = FALSE

Cur == PostOf(cur)
Dates(S) == {p.date : p \in S}

-----------------------------------------------------------------------------
(* What to retrieve. *)

\* The dupe file check, by names.
Have(p) == job.dupefile /\ \E f \in disk : f.name = p.name /\ ~f.dupe

\* nntp_cache_getfile, before it asks the ParHandler.
Matched(marked, autopar) ==
  {p \in job.posts : /\ autopar \/ job.incomplete \/ Complete(p)
                     /\ p.date \notin marked}

\* Wanted whatever autopar does.
Plain(S) == IF job.autopar THEN {p \in S : ~Takes(p)} ELSE S

Marked == IF job.dupeid THEN midfile ELSE {}

\* nget -r: getfiles and get_initial_pars.  Without anything else to retrieve
\* in the directory the parity set is looked at right away.
Start ==
  /\ pc = "idle"
  /\ LET all == Matched(Marked, job.autopar)
         found == {p \in Plain(all) : Have(p)}
         queue == Plain(all) \ found
         aside == IF job.autopar /\ all # {} THEN PutAside(all) ELSE NoSet
         atOnce == job.autopar /\ all # {} /\ queue = {}
         pars == IF atOnce THEN MorePars(aside) ELSE InitialPars(aside)
     IN /\ mid' = midfile \cup (IF job.dupemark THEN Dates(found) ELSE {})
        /\ earned' = earned \cup Dates(found)
        /\ set' = IF atOnce THEN AfterMorePars(aside)
                  ELSE [aside EXCEPT !.pars = {}, !.loose = @ \ pars]
        /\ files' = queue \cup pars
        /\ status' = IF atOnce /\ ParError(aside) THEN {"autopar"} ELSE {}
        /\ pc' = IF queue \cup pars = {} THEN "done" ELSE "pick"
  /\ UNCHANGED <<job, disk, temps, midfile, file, article>>

\* nget -M -r and nget -U -r, which has -dI.
Mark ==
  /\ pc = "idle" /\ job.marks
  /\ LET S == {p \in Matched(Marked, FALSE) : ~Have(p)}
     IN midfile' = midfile \cup Dates(S) /\ earned' = earned \cup Dates(S)
  /\ mid' = midfile' /\ status' = {}
  /\ UNCHANGED <<job, disk, set, temps, pc, files, file, article>>

Unmark ==
  /\ pc = "idle" /\ job.marks
  /\ midfile' = midfile \ Dates({p \in Matched({}, FALSE) : ~Have(p)})
  /\ mid' = midfile' /\ status' = {}
  /\ UNCHANGED <<job, disk, set, temps, pc, files, file, article, earned>>

-----------------------------------------------------------------------------
(* A post: nntp_doretrieve's loop over its parts. *)

Pick ==
  /\ pc = "pick" /\ files # {}
  /\ cur' = Min(Dates(files))
  /\ left' = PostOf(cur').parts /\ got' = {} /\ dlerr' = FALSE
  /\ pc' = "part"
  /\ UNCHANGED <<job, disk, set, temps, midfile, mid, files, article, status, earned>>

NextPart == Min(left)
Temp == temps[cur][NextPart]
AtPart == pc = "part" /\ left # {}

\* The part is dealt with.
Past(had) ==
  /\ left' = left \ {NextPart}
  /\ got' = IF had THEN got \cup {NextPart} ELSE got
  /\ pc' = "part"
  /\ NoArticle
  /\ UNCHANGED cur

\* An earlier part could not be had.
SkipPart ==
  /\ AtPart /\ dlerr /\ Past(FALSE)
  /\ UNCHANGED <<job, disk, set, temps, midfile, mid, files, dlerr, status, earned>>

\* "already have article"
AlreadyHave ==
  /\ AtPart /\ ~dlerr /\ Temp # "none" /\ Past(TRUE)
  /\ UNCHANGED <<job, disk, set, temps, midfile, mid, files, dlerr, status, earned>>

\* The part cannot be had.
Failed == Past(FALSE) /\ dlerr' = ~job.incomplete

NoConnect ==
  /\ AtPart /\ ~dlerr /\ Temp = "none" /\ job.noconnect /\ Failed
  /\ UNCHANGED <<job, disk, set, temps, midfile, mid, files, status, earned>>

-----------------------------------------------------------------------------
(* nntp_doarticle. *)

DoArticle ==
  /\ AtPart /\ ~dlerr /\ Temp = "none" /\ ~job.noconnect
  /\ sap' = job.at[cur] /\ round' = sap' /\ redone' = 0
  /\ pc' = "try"
  /\ UNCHANGED <<job, disk, set, temps, midfile, mid, files, file, status, earned>>

Arrive(s) ==
  /\ pc = "try" /\ s \in round \ job.expired[cur]
  /\ pc' = "write"
  /\ UNCHANGED <<job, disk, set, temps, midfile, mid, files, file, article, status, earned>>

\* The article is not there, or the server is penalized: a fatal error.
Gone(s) ==
  /\ pc = "try" /\ s \in round /\ (s \in job.expired[cur] \/ job.flaky)
  /\ sap' = sap \ {s} /\ round' = round \ {s}
  /\ UNCHANGED <<job, disk, set, temps, midfile, mid, pc, files, file, redone, status, earned>>

\* The connection breaks.
Broken(s) ==
  /\ pc = "try" /\ s \in round /\ job.flaky
  /\ round' = round \ {s}
  /\ UNCHANGED <<job, disk, set, temps, midfile, mid, pc, files, file, sap, redone, status, earned>>

\* Wrong: redone is not counted.
TryForever ==
  /\ pc = "try" /\ round = {} /\ sap # {}
  /\ round' = sap
  /\ UNCHANGED <<job, disk, set, temps, midfile, mid, pc, files, file, sap, redone, status, earned>>

TryAgain ==
  /\ pc = "try" /\ round = {} /\ sap # {} /\ redone + 1 < job.maxretry
  /\ round' = sap /\ redone' = redone + 1
  /\ UNCHANGED <<job, disk, set, temps, midfile, mid, pc, files, file, sap, status, earned>>

\* Wrong: without set_retrieve_error_status.
GiveUpSilently ==
  /\ pc = "try" /\ round = {} /\ (sap = {} \/ redone + 1 >= job.maxretry)
  /\ Failed
  /\ UNCHANGED <<job, disk, set, temps, midfile, mid, files, status, earned>>

\* "couldn't get ... from anywhere"
GiveUp ==
  /\ pc = "try" /\ round = {} /\ (sap = {} \/ redone + 1 >= job.maxretry)
  /\ Failed
  /\ status' = status \cup {"retrieve"}
  /\ UNCHANGED <<job, disk, set, temps, midfile, mid, files, earned>>

Write ==
  /\ pc = "write"
  /\ temps' = [temps EXCEPT ![cur][NextPart] = "whole"]
  /\ Past(TRUE)
  /\ UNCHANGED <<job, disk, set, midfile, mid, files, dlerr, status, earned>>

\* Wrong: what was written stays.
WriteFailsCut ==
  /\ pc = "write" /\ job.flaky
  /\ temps' = [temps EXCEPT ![cur][NextPart] = "cut"]
  /\ pc' = "done"
  /\ status' = status \cup {"fatal"}
  /\ UNCHANGED <<job, disk, set, midfile, mid, files, file, article, earned>>

\* The disk is full: the temp file is unlinked and the exception ends nget.
WriteFails ==
  /\ pc = "write" /\ job.flaky
  /\ pc' = "done"
  /\ status' = status \cup {"fatal"}
  /\ UNCHANGED <<job, disk, set, temps, midfile, mid, files, file, article, earned>>

-----------------------------------------------------------------------------
(* Decoder::decode, and what follows. *)

AtEnd == pc = "part" /\ left = {}

KeepTemps ==
  /\ AtEnd /\ (dlerr \/ job.nodecode)
  /\ pc' = "next"
  /\ UNCHANGED <<job, disk, set, temps, midfile, mid, files, file, article, status, earned>>

Decodes == AtEnd /\ ~dlerr /\ ~job.nodecode

\* decode() without any part returns 0, as after success.
NothingToDecode ==
  /\ Decodes /\ got = {}
  /\ mid' = mid \cup {cur}
  /\ pc' = "next"
  /\ UNCHANGED <<job, disk, set, temps, midfile, files, file, article, status, earned>>

Entire == got = 1 .. Cur.req /\ \A k \in got : temps[cur][k] = "whole"
Errors == ~Entire \/ (~Cur.sound /\ Cur.shows)

\* A name made by make_dupe_name, unless there is such a file (remove_if_duplicate).
Duplicate(content) ==
  IF \E f \in disk : f.name = Cur.name /\ f.content = content THEN disk
  ELSE disk \cup {[name |-> Cur.name, dupe |-> TRUE, content |-> content]}

\* Wrong: that nothing was decoded is no error (derr stays 0).
DecodeErrorsMarked ==
  /\ Decodes /\ got # {} /\ Errors
  /\ \/ disk' \in {disk, Duplicate(cur)} /\ status' = status \cup {"decode"} /\ mid' = mid
     \/ disk' = disk /\ status' = status \cup {"undecoded"} /\ mid' = mid \cup {cur}
  /\ pc' = "next"
  /\ UNCHANGED <<job, set, temps, midfile, files, file, article, earned>>

DecodeErrors ==
  /\ Decodes /\ got # {} /\ Errors
  /\ \/ disk' \in {disk, Duplicate(cur)} /\ status' = status \cup {"decode"}
     \/ disk' = disk /\ status' = status \cup {"undecoded"}
  /\ pc' = "next"
  /\ UNCHANGED <<job, set, temps, midfile, mid, files, file, article, earned>>

Decode ==
  /\ Decodes /\ got # {} /\ ~Errors
  /\ LET content == IF Cur.sound THEN Good ELSE cur
     IN disk' = IF \E f \in disk : f.name = Cur.name /\ ~f.dupe THEN Duplicate(content)
                ELSE disk \cup {[name |-> Cur.name, dupe |-> FALSE, content |-> content]}
  /\ earned' = earned \cup {cur}
  /\ pc' = "clean"
  /\ UNCHANGED <<job, set, temps, midfile, mid, files, file, article, status>>

\* delete_tempfiles.
Unlink ==
  /\ pc = "clean" /\ ~job.keeptemp
  /\ \E k \in got :
       /\ temps[cur][k] # "none" /\ \A i \in got : i < k => temps[cur][i] = "none"
       /\ temps' = [temps EXCEPT ![cur][k] = "none"]
  /\ UNCHANGED <<job, disk, set, midfile, mid, pc, files, file, article, status, earned>>

\* The files still to come that have a name that was just decoded.
Dupes ==
  IF job.dupefile
  THEN {p \in files \ {Cur} : p.name = Cur.name /\ ~(job.autopar /\ Takes(p))}
  ELSE {}

\* midinfo->insert, and the dupes are dropped.
MarkDecoded ==
  /\ pc = "clean" /\ (job.keeptemp \/ \A k \in got : temps[cur][k] = "none")
  /\ mid' = mid \cup {cur}
  /\ files' = files \ Dupes
  /\ pc' = "next"
  /\ UNCHANGED <<job, disk, set, temps, midfile, file, article, status, earned>>

-----------------------------------------------------------------------------
(* The next post. *)

\* curf is erased, and when it was the last one the parity set is looked at.
NextFile ==
  /\ pc = "next"
  /\ LET rest == files \ {Cur}
         last == job.autopar /\ rest = {}
         more == IF last THEN MorePars(set) ELSE {}
     IN /\ files' = rest \cup more
        /\ set' = IF last THEN AfterMorePars(set) ELSE set
        /\ status' = IF last /\ ParError(set) THEN status \cup {"autopar"} ELSE status
        /\ pc' = IF rest \cup more = {} THEN "done" ELSE "pick"
  /\ NoFile
  /\ UNCHANGED <<job, disk, temps, midfile, mid, article, earned>>

Ended ==
  /\ pc' = "idle" /\ set' = NoSet /\ files' = {} /\ status' = {} /\ NoFile /\ NoArticle

\* nget_cleanup: the midinfo is saved.
Done ==
  /\ pc = "done"
  /\ midfile' = mid /\ mid' = mid
  /\ Ended
  /\ UNCHANGED <<job, disk, temps, earned>>

\* While an article is written its temp file may be cut off.
Kill ==
  /\ pc # "idle" /\ job.flaky
  /\ \E t \in IF pc = "write" THEN KilledTemps ELSE {"kept"} :
       temps' = IF t = "kept" THEN temps ELSE [temps EXCEPT ![cur][NextPart] = t]
  /\ mid' = midfile
  /\ Ended
  /\ UNCHANGED <<job, disk, midfile, earned>>

Step ==
  \/ Pick \/ SkipPart \/ AlreadyHave \/ NoConnect \/ DoArticle
  \/ \E s \in Server : Arrive(s) \/ Gone(s) \/ Broken(s)
  \/ TryAgain \/ GiveUp \/ Write \/ WriteFails
  \/ KeepTemps \/ NothingToDecode \/ DecodeErrors \/ Decode \/ Unlink \/ MarkDecoded
  \/ NextFile \/ Done

Next == Start \/ Mark \/ Unmark \/ Step \/ Kill

Spec == Init /\ [][Next]_vars

\* nget is run again and again, goes on while it can, and some time it is not
\* killed any more: it ends as it should.  Servers that are asked again and
\* again for the parts of a post that they have send one some time, and the
\* disk is not full for ever.
Fairness ==
  /\ WF_vars(Start) /\ WF_vars(Step)
  /\ \A d \in Date : SF_vars(cur = d /\ \E s \in Server : Arrive(s))
  /\ <>[][~WriteFails]_vars
  /\ <>[][Ended /\ pc # "idle" => Done]_vars

FairSpec == Spec /\ Fairness

-----------------------------------------------------------------------------
(* Properties. *)

\* The variables have their types.
TypeOK ==
  /\ job \in Job
  /\ disk \subseteq File /\ set \in ParInfos
  /\ temps \in [Date -> [Part -> {"none", "cut", "whole"}]]
  /\ midfile \subseteq Date /\ mid \subseteq Date /\ earned \subseteq Date
  /\ pc \in {"idle", "pick", "part", "try", "write", "clean", "next", "done"}
  /\ files \subseteq job.posts
  /\ cur \in {0} \cup Date /\ left \subseteq Part /\ got \subseteq Part /\ dlerr \in BOOLEAN
  /\ round \subseteq sap /\ sap \subseteq Server /\ redone \in 0 .. job.maxretry - 1
  /\ status \subseteq {"retrieve", "decode", "undecoded", "autopar", "fatal"}

\* nget.1 calls a marked post an already downloaded file: it was decoded
\* without errors, was found in the directory or marked by the user.
MarkedDecoded == mid \cup midfile \subseteq earned

\* Without -i it was (with -i see NothingToDecode).
CompleteMarkedDecoded == job.incomplete \/ MarkedDecoded

\* The volumes that a step queues.
ChosenVols == {p \in files' \ files : p.role = "vol"}

\* The packets that volumes bring and no file has, and what there is to
\* download for them.
Brings(S) == (UNION {p.packets : p \in S}) \ GoodPackets
Weight(S) == SumFunctionOnSet([p \in S |-> Cardinality(p.packets)], S)

\* Each is complete, and no two have only some packets in common: of such nget
\* counts the common packets for the first one only.
Regular(vols) ==
  /\ \A p \in vols : Complete(p)
  /\ \A p, q \in vols : p.packets = q.packets \/ p.packets \cap q.packets = {}

\* nget.1: "Only download as many par files as needed to replace missing or
\* corrupt files".  Of par volumes there are as many as files are missing, no
\* two are the same and none is had; par2 volumes that suffice are of the
\* least size.
AsNeeded ==
  [][pc = "next" /\ Known /\ ChosenVols # {} =>
       IF job.ver = 1
       THEN /\ Cardinality(ChosenVols) = Min({Needed, Cardinality(Brings(Claimed(set).vols))})
            /\ Cardinality(Brings(ChosenVols)) = Cardinality(ChosenVols)
       ELSE Regular(Claimed(set).vols) =>
              \A S \in SUBSET Claimed(set).vols :
                Cardinality(Brings(S)) >= Needed =>
                  Cardinality(Brings(ChosenVols)) >= Needed /\ Weight(ChosenVols) <= Weight(S)]_vars

\* When nget ends without any error, every post that it was to get is there.
Reported ==
  pc = "done" /\ status = {} /\ ~job.noconnect /\ ~job.nodecode =>
    \A p \in Plain(Matched(Marked, job.autopar)) :
      p.date \in earned \/ \E f \in disk : f.name = p.name

\* When it ends without any error, what is missing of a parity set can be
\* repaired.
Repairable == pc = "done" /\ status = {} /\ set.known => Needed = 0

\* nget ends, whatever the servers do: retries and the par files that are
\* asked for come to an end.
Ends == pc # "idle" ~> pc = "idle"

\* The names of which every post is sound and complete, and on a server that
\* does not lose it, when the options do not keep it from being retrieved.
Obtainable ==
  {p.name : p \in
     {p \in job.posts :
        /\ ~(job.noconnect \/ job.nodecode \/ job.incomplete \/ job.marks \/ job.autopar)
        /\ \A q \in job.posts :
             q.name = p.name => Complete(q) /\ q.sound /\ job.at[q.date] \ job.expired[q.date] # {}}}

\* A file of each such name gets into the directory, however often articles
\* fail and nget is killed before.
Obtained == <>(\A n \in Obtainable : \E f \in disk : f.name = n /\ f.content = Good)
=============================================================================
