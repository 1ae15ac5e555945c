---------------------------- MODULE HeaderCache ----------------------------
(***************************************************************************)
(* The header cache of one group (cache.h, cache.cc: c_nntp_cache and      *)
(* c_nntp_cache_reader).  Messages are grouped into files by their subject,*)
(* author and references (the key); a file has a part per part number; a   *)
(* part has one message-id and the articles, one or more per server, that  *)
(* carry it.  Beside them the cache keeps, per server, the lowest and the  *)
(* highest article number seen and how many articles it has.               *)
(*                                                                         *)
(* The module covers additem, flush, flushlow, the flush of nget's -F, the *)
(* flush that follows LISTGROUP, loading, and saving in the destructor.    *)
(***************************************************************************)
EXTENDS Integers, FiniteSetsExt, SequencesExt

CONSTANTS
  Server,
  MaxNum,          \* bound: articles have the numbers 1 .. MaxNum
  MaxArticles,     \* bound on the number of articles in the cache
  Msg,             \* messages (message-ids)
  KeyOf,           \* KeyOf[m]: the file a message's header says it belongs to
  PartOf,          \* PartOf[m]: its part number, -1 when the subject has none
  ReqOf,           \* ReqOf[k]: how many parts files of key k have; <= 0: not counted
  Reconfigurable,  \* whether hosts are added to and removed from ngetrc
  Truncation       \* whether the cache file may be cut short

ULongMax == MaxNum + 1
Number   == 1 .. MaxNum
ULong    == 0 .. ULongMax
Succ(n)  == (n + 1) % (ULongMax + 1)
Pred(n)  == (n + ULongMax) % (ULongMax + 1)

Key == {KeyOf[m] : m \in Msg}

ASSUME HeaderCacheAssumption ==
  /\ MaxNum \in Nat \ {0} /\ MaxArticles \in Nat
  /\ KeyOf \in [Msg -> Key] /\ PartOf \in [Msg -> Int] /\ ReqOf \in [Key -> Int]
  /\ Reconfigurable \in BOOLEAN /\ Truncation \in BOOLEAN

VARIABLES
  open,       \* whether the c_nntp_cache object exists
  files,      \* its files, in the order of the multimap within each key
  info,       \* server_info: high, low and num of each server
  totalnum,   \* the number of parts, an unsigned counter
  saveit,     \* something changed that is to be saved
  fileread,   \* the cache file has been read to its end
  disk,       \* the cache file
  cfg,        \* the servers in ngetrc
  cut         \* history: the cache file has once been found cut short

vars == <<open, files, info, totalnum, saveit, fileread, disk, cfg, cut>>

\* c_nntp_server_info::reset()
Reset == [high |-> 0, low |-> ULongMax, num |-> 0]
NoInfo == [s \in Server |-> Reset]

NoFile == [files |-> <<>>, info |-> NoInfo, totalnum |-> 0, exists |-> FALSE]

Init ==
  /\ open = FALSE /\ files = <<>> /\ info = NoInfo /\ totalnum = 0
  /\ saveit = FALSE /\ fileread = FALSE
  /\ disk = NoFile /\ cfg = Server /\ cut = FALSE

-----------------------------------------------------------------------------
(* Files.  A file is [key, have, parts]; parts is a function from the part *)
(* numbers it has to [msg, arts]; arts is a set of [server, num].          *)

\* count_partnum(): whether a part counts towards a file's have.
Counted(k, p) == IF ReqOf[k] > 0 THEN p \in 1 .. ReqOf[k] ELSE p = ReqOf[k]

NewFile(k) == [key |-> k, have |-> 0, parts |-> [p \in {} |-> {}]]

\* addnewpart() or addserverarticle().
WithArticle(f, m, a) ==
  LET p == PartOf[m]
  IN IF p \in DOMAIN f.parts
     THEN [f EXCEPT !.parts[p].arts = @ \cup {a}]
     ELSE [f EXCEPT !.have = IF Counted(f.key, p) THEN @ + 1 ELSE @,
                    !.parts = [q \in DOMAIN @ \cup {p} |-> IF q = p THEN [msg |-> m, arts |-> {a}] ELSE @[q]]]

\* Wrong: a part goes as soon as one of its articles does.
PartsLeftWhole(f, gone) ==
  [p \in {q \in DOMAIN f.parts : f.parts[q].arts \cap gone = {}} |-> f.parts[p]]

\* The parts of a file when the articles in gone are erased: a part that is left
\* with none goes too.
PartsLeft(f, gone) ==
  [p \in {q \in DOMAIN f.parts : ~(f.parts[q].arts \subseteq gone)} |->
     [f.parts[p] EXCEPT !.arts = @ \ gone]]

CountedParts(f) == Cardinality({p \in DOMAIN f.parts : Counted(f.key, p)})

\* Wrong: have is counted down for every article.
FlushedFileByArticle(f, gone) ==
  [f EXCEPT !.parts = PartsLeft(f, gone),
            !.have = @ - Cardinality(UNION {f.parts[p].arts \cap gone : p \in DOMAIN f.parts})]

\* What flush() makes of a file.
FlushedFile(f, gone) ==
  LET left == [f EXCEPT !.parts = PartsLeft(f, gone)]
  IN [left EXCEPT !.have = f.have - (CountedParts(f) - CountedParts(left))]

NotEmpty(f) == DOMAIN f.parts # {}

\* The files that are not empty, in their order.
Nth(S, i) == CHOOSE n \in S : Cardinality({m \in S : m < n}) = i - 1
NonEmpty(fs) ==
  LET left == {i \in DOMAIN fs : NotEmpty(fs[i])}
  IN [i \in 1 .. Cardinality(left) |-> fs[Nth(left, i)]]

NumParts(fs) == Cardinality(UNION {{i} \X DOMAIN fs[i].parts : i \in DOMAIN fs})

\* The articles of a file and of a list of files.
ArticlesIn(f) ==
  UNION {{[server |-> a.server, num |-> a.num, msg |-> f.parts[p].msg] : a \in f.parts[p].arts} :
         p \in DOMAIN f.parts}
Articles(fs) == UNION {ArticlesIn(fs[i]) : i \in DOMAIN fs}
NumsOf(fs, s) == {a.num : a \in {b \in Articles(fs) : b.server = s}}

-----------------------------------------------------------------------------
(* Operations on an open cache. *)

\* Whether additem() may put a message into a file: the file has no other
\* message in its place.
Fits(f, m) ==
  /\ f.key = KeyOf[m]
  /\ PartOf[m] \in DOMAIN f.parts => f.parts[PartOf[m]].msg = m

\* The server info when article n has been added.
Seen(i, n) == [high |-> Max({i.high, n}), low |-> Min({i.low, n}), num |-> i.num + 1]

\* The files when an article has been added: to the first file of its key that
\* has no other message in its place, or to a new one.
Added(fs, m, a) ==
  LET fits == {i \in DOMAIN fs : Fits(fs[i], m)}
  IN IF fits # {}
     THEN [fs EXCEPT ![Min(fits)] = WithArticle(@, m, a)]
     ELSE Append(fs, WithArticle(NewFile(KeyOf[m]), m, a))

\* additem().  The caller asks the server only for numbers the cache does not
\* have, and a low of 0, which an empty group leaves behind, has been raised
\* before: GroupUpdate checks both.
AddItem(s, n, m) ==
  LET files1 == Added(files, m, [server |-> s, num |-> n])
  IN /\ open
     /\ Cardinality(Articles(files)) < MaxArticles
     /\ info[s].low > 0
     /\ \A b \in Articles(files) : b.server # s \/ b.num # n
     /\ files' = files1
     /\ totalnum' = totalnum + (NumParts(files1) - NumParts(files))
     /\ info' = [info EXCEPT ![s] = Seen(@, n)]
     /\ saveit' = TRUE
     /\ UNCHANGED <<open, fileread, disk, cfg, cut>>

\* How many parts a flush has erased.
PartsErasedByArticle(fs, fs1) == Cardinality(Articles(fs)) - Cardinality(Articles(fs1))   \* wrong
PartsErased(fs, fs1) == NumParts(fs) - NumParts(fs1)

\* flush(): the range is first cut down to low .. high of the server, where
\* low - 1 and high + 1 wrap.
Flush(s, N) ==
  LET N1 == (N \ (0 .. Pred(info[s].low))) \ (Succ(info[s].high) .. ULongMax)
      gone == [server : {s}, num : N1]
  IN /\ open
     /\ files' = NonEmpty([j \in DOMAIN files |-> FlushedFile(files[j], gone)])
     /\ totalnum' = totalnum - PartsErased(files, files')
     /\ saveit' = (saveit \/ Articles(files') # Articles(files))
     /\ UNCHANGED <<open, fileread, disk, cfg, cut>>

\* What a flush leaves of a server's num.
NumLeft(s) == info[s].num - (Cardinality(Articles(files)) - Cardinality(Articles(files')))

\* flushlow(), when the server says that its first article is newlow.
FlushLow(s, newlow) ==
  /\ newlow > info[s].low
  /\ Flush(s, 0 .. newlow - 1)
  /\ info' = [info EXCEPT ![s].low = newlow, ![s].num = NumLeft(s)]

\* fullxover=2: flush what LISTGROUP did not list; low is GROUP's answer.
FlushMissing(s, existing, low) ==
  /\ info[s].high # 0 /\ info[s].high >= low
  /\ Flush(s, ULong \ existing)
  /\ info' = [info EXCEPT ![s].low = IF existing = {} THEN low ELSE Min(existing),
                          ![s].num = NumLeft(s)]

\* nget -F: flushlow(servinfo, ULONG_MAX) and then reset().
FlushServer(s) ==
  /\ Flush(s, 0 .. ULongMax - 1)
  /\ info' = [info EXCEPT ![s] = Reset]

-----------------------------------------------------------------------------
(* Loading and saving. *)

\* read_file(): articles of unknown servers are skipped and parts without
\* articles removed again.  have was counted when a part was read, and stays.
ReadFile(f, servers) ==
  [f EXCEPT !.have = CountedParts(f),
            !.parts = PartsLeft(f, [server : Server \ servers, num : Number])]

ReadFiles(fs, servers) ==
  NonEmpty([i \in DOMAIN fs |-> ReadFile(fs[i], servers)])

ReadInfo(servers) == [s \in Server |-> IF s \in servers THEN disk.info[s] ELSE Reset]

Open ==
  /\ ~open /\ ~cut
  /\ open' = TRUE /\ saveit' = FALSE
  /\ files' = ReadFiles(disk.files, cfg)
  /\ info' = ReadInfo(cfg)
  /\ totalnum' = NumParts(files')
  /\ fileread' = disk.exists
  /\ UNCHANGED <<disk, cfg, cut>>

\* The file ends early: inside the server infos, or inside a file.  What was
\* read before that is kept, but the number of parts is not taken over.  This
\* happens once, and the session it happens in is the last: bounds, for each
\* time the num of a server can end up larger.
OpenTruncated ==
  /\ Truncation /\ ~open /\ disk.exists /\ ~cut
  /\ cut' = TRUE
  /\ open' = TRUE /\ saveit' = FALSE /\ fileread' = FALSE /\ totalnum' = 0
  /\ \/ \E S \in SUBSET cfg : info' = ReadInfo(S) /\ files' = <<>>
     \/ \E k \in 1 .. Len(disk.files) :
          info' = ReadInfo(cfg) /\ files' = ReadFiles(SubSeq(disk.files, 1, k - 1), cfg)
  /\ UNCHANGED <<disk, cfg>>

Forget ==
  /\ open' = FALSE /\ files' = <<>> /\ info' = NoInfo /\ totalnum' = 0
  /\ saveit' = FALSE /\ fileread' = FALSE

\* The destructor: a new file is written beside the old one and renamed.
Close ==
  /\ open
  /\ disk' = IF saveit /\ (fileread \/ files # <<>>)
             THEN [files |-> [i \in DOMAIN files |-> [files[i] EXCEPT !.have = 0]],
                   info |-> info, totalnum |-> totalnum, exists |-> TRUE]
             ELSE disk
  /\ Forget
  /\ UNCHANGED <<cfg, cut>>

\* nget is killed, or cannot write the new file and exits.
Crash == open /\ Forget /\ UNCHANGED <<disk, cfg, cut>>

\* The user edits ngetrc between two runs.
Configure ==
  /\ Reconfigurable /\ ~open
  /\ cfg' \in SUBSET Server
  /\ UNCHANGED <<open, files, info, totalnum, saveit, fileread, disk, cut>>

Next ==
  \/ \E s \in Server :
       \/ \E n \in Number, m \in Msg : s \in cfg /\ AddItem(s, n, m)
       \/ \E n \in 1 .. MaxNum : FlushLow(s, n)
       \/ \E low \in Number : \E N \in SUBSET (low .. MaxNum) : FlushMissing(s, N, low)
       \/ FlushMissing(s, {}, 0)
       \/ FlushServer(s)
  \/ Open \/ OpenTruncated \/ Close \/ Crash \/ Configure

Spec == Init /\ [][Next]_vars

-----------------------------------------------------------------------------
(* Properties. *)

File == [key : Key, have : Int, parts : UNION {[P -> [msg : Msg, arts : SUBSET [server : Server, num : Number]]] : P \in SUBSET {PartOf[m] : m \in Msg}}]

\* Types, and what the code asserts whenever it walks the files: no file is
\* without parts and no part without articles.
TypeOK ==
  /\ open \in BOOLEAN /\ saveit \in BOOLEAN /\ fileread \in BOOLEAN
  /\ totalnum \in Int /\ cfg \subseteq Server /\ cut \in BOOLEAN
  /\ info \in [Server -> [high : ULong, low : ULong, num : Nat]]
  /\ \A i \in DOMAIN files :
       /\ files[i] \in File
       /\ DOMAIN files[i].parts # {}
       /\ \A p \in DOMAIN files[i].parts : files[i].parts[p].arts # {}

\* num of a server is the number of its articles, and totalnum, which the
\* cache file is checked against, the number of parts: whatever was added,
\* flushed, dropped with its server, saved and loaded.  num is unsigned, and
\* flush() subtracts the articles it erases from it: even if a piece of the
\* cache file was lost it is not less than their number.  And all articles lie
\* in low .. high, to which flush() restricts itself: one outside would never
\* be flushed.
CountersRight ==
  open =>
    /\ \A s \in Server : \A n \in NumsOf(files, s) : info[s].low <= n /\ n <= info[s].high
    /\ \A s \in Server :
         IF cut THEN info[s].num >= Cardinality(NumsOf(files, s))
         ELSE info[s].num = Cardinality(NumsOf(files, s))
    /\ ~cut => totalnum = NumParts(files)

\* have, by which iscomplete() decides, is at least the number of parts that
\* count: no file is given up that has all its parts.
HaveCovers == \A i \in DOMAIN files : files[i].have >= CountedParts(files[i])

Store ==
  INSTANCE ArticleStore WITH mem <- Articles(files), disk <- Articles(disk.files)

\* Nothing that was added is lost but by a flush of its number, by its server
\* leaving ngetrc, with a piece of the file or by a crash; and nothing flushed
\* comes back.
IsArticleStore == Store!ASSpec
=============================================================================
