----------------------------- MODULE Par2Verify -----------------------------
(***************************************************************************)
(* What par2/ tells nget of a parity set: Par2Repairer::Process, which     *)
(* reads the packets of the par2 files, looks for the blocks of the source *)
(* files in the files of the directory and counts what is missing; and the *)
(* loop in which Par2Info::maybe_get_pxxs (par.cc) calls it, for one par2  *)
(* file of the set after another until one will do.                        *)
(*                                                                         *)
(* All source files are recoverable ones, as in the sets that are posted:  *)
(* for others that have blocks the code uses an iterator it never set.     *)
(***************************************************************************)
EXTENDS VerificationHashTable, FiniteSetsExt, Functions

CONSTANT
  Jobs    \* the directories that are looked at

VARIABLES
  job,        \* the directory
  main,       \* the par2 file Process has been called with, by its number
  stage,      \* what Process is doing
  todo,       \* what is left for it to do in this stage
  got,        \* the packets
  used,       \* diskFileMap
  table,      \* verificationhashtable
  found,      \* where each block of each source file is
  complete,   \* the complete copy of each source file
  scan,       \* the data file that is being looked at
  failed,     \* a source file could not be read
  result,     \* what Process returned
  needed      \* needed_packets, once it is known

vars == <<job, main, stage, todo, got, used, table, found, complete, scan, failed, result, needed>>

\* A data file is named by the name it had when it was posted (a number, in
\* the order of the names; 0 is "noname") and the number of the copy: 0 is that
\* very name, others differ in case or have been renamed as duplicates.
NoFile == <<0, 0>>
Location(file, at) == [file |-> file, at |-> at]
Nowhere == Location(NoFile, 0)
IsSet(block) == block.file # NoFile

None == [type |-> "none"]
NoPackets ==
  [set |-> "none", main |-> None, creator |-> FALSE, recovery |-> {}, desc |-> {}, verify |-> {}]

NoScan == [file |-> NoFile, want |-> 0, id |-> 0, c |-> Start(<<>>), full |-> TRUE, count |-> 0,
           next |-> 0, back |-> "none"]

-----------------------------------------------------------------------------
(* Packets. *)

\* Of a set with this name; files have numbers for their ids and names.
\* `damaged' are the bytes of a packet whose hash is wrong.
SetId == STRING \ {"none"}
Id == Nat \ {0}

MainPacket == [type : {"main"}, set : SetId, ids : Seq(Id), count : Nat, size : Nat]
DescriptionPacket == [type : {"desc"}, set : SetId, id : Id, name : Id, data : Seq(Byte), first : Seq(Byte)]
VerificationPacket == [type : {"verify"}, set : SetId, id : Id, blocks : Seq(BlockData)]
RecoveryPacket == [type : {"recovery"}, set : SetId, exponent : Nat, size : Nat]
CreatorPacket == [type : {"creator"}, set : SetId, client : STRING]
DamagedPacket == [type : {"damaged"}, set : SetId]

Packet ==
  MainPacket \cup DescriptionPacket \cup VerificationPacket \cup RecoveryPacket
  \cup CreatorPacket \cup DamagedPacket

BlockCount(data) == (Len(data) + BlockSize - 1) \div BlockSize
BlockBytes(data, k) == Bytes(data, (k - 1) * BlockSize, BlockSize)
Block(data, k) == Padded(BlockBytes(data, k), BlockSize)

\* MainPacket::Load and so on: what they accept.  There is no verification
\* packet without blocks: an empty file has none.
MainLoads(p) == p.size > 0 /\ p.count <= Len(p.ids)
DescLoads(p) == Len(p.data) <= HashedFirst => p.first = p.data
VerifyLoads(p) == p.blocks # <<>>
RecoveryLoads(p) == p.size > 0
CreatorLoads(p) == p.client # ""

ParFile == [stem : Nat, volume : BOOLEAN, odd : BOOLEAN, packets : Seq(Packet)]

\* The hashes of a file and of its blocks are theirs, and no file is listed twice.
Truthful(packets) ==
  /\ \A p, q \in packets :
       /\ p.type = "desc" /\ q.type = "verify" /\ p.set = q.set /\ p.id = q.id
       /\ Len(q.blocks) = BlockCount(p.data)
       => \A k \in DOMAIN q.blocks : q.blocks[k] = Block(p.data, k)
  /\ \A p \in packets : p.type = "desc" /\ DescLoads(p) => p.first = Bytes(p.data, 0, HashedFirst)
  /\ \A p \in packets : p.type = "main" => \A i, j \in DOMAIN p.ids : p.ids[i] = p.ids[j] => i = j

Packets(j) == UNION {Range(j.pars[i].packets) : i \in DOMAIN j.pars}

ASSUME JobsAssumption ==
  \A j \in Jobs :
    /\ j.pars \in Seq(ParFile) /\ j.pars # <<>>
    /\ Truthful(Packets(j))
    /\ IsFiniteSet(DOMAIN j.disk) /\ DOMAIN j.disk \subseteq (Nat \X Nat) \ {NoFile}
    /\ \A f \in DOMAIN j.disk : j.disk[f] \in Seq(Byte)

Exponents(g) == {q.exponent : q \in g.recovery}
FileIds(g) == g.main.ids

\* LoadRecoveryPacket .. LoadCreatorPacket: what is known already is not new.
IsNew(g, p) ==
  CASE p.type = "recovery" -> RecoveryLoads(p) /\ p.exponent \notin Exponents(g)
    [] p.type = "desc" -> DescLoads(p) /\ \A q \in g.desc : q.id # p.id
    [] p.type = "verify" -> VerifyLoads(p) /\ \A q \in g.verify : q.id # p.id
    [] p.type = "main" -> MainLoads(p) /\ g.main = None
    [] p.type = "creator" -> CreatorLoads(p) /\ ~g.creator
    [] OTHER -> FALSE

With(g, p) ==
  CASE p.type \in {"recovery", "desc", "verify"} -> [g EXCEPT ![p.type] = @ \cup {p}]
    [] p.type = "main" -> [g EXCEPT !.main = p]
    [] p.type = "creator" -> [g EXCEPT !.creator = TRUE]

\* LoadPacketsFromFile: the first sound packet of all tells which set it is.
LoadPacket(l, p) ==
  LET g == [l.got EXCEPT !.set = IF @ = "none" /\ p.type # "damaged" THEN p.set ELSE @]
      new == p.type # "damaged" /\ p.set = g.set /\ IsNew(g, p)
  IN [got |-> IF new THEN With(g, p) ELSE g, some |-> l.some \/ new]

DescIn(g, id) == CHOOSE p \in g.desc : p.id = id
VerifyIn(g, id) == CHOOSE p \in g.verify : p.id = id
CheckedIn(g, id) == \E p \in g.verify : p.id = id

Description(id) == DescIn(got, id)
DataOf(id) == Description(id).data
Target(id) == <<Description(id).name, 0>>
Hashes(id) == VerifyIn(got, id).blocks
Checked(id) == CheckedIn(got, id)
NoBlocks(data) == [k \in 1 .. BlockCount(data) |-> Nowhere]

\* CheckPacketConsistency.
Consistent(g) ==
  LET sized(p) == \A q \in g.verify : q.id = p.id => Len(q.blocks) = BlockCount(p.data)
  IN [g EXCEPT !.recovery = {p \in @ : p.size = g.main.size}, !.desc = {p \in @ : sized(p)}]

\* CreateSourceFileList: the source files whose description is known.
Known(g) == {p.id : p \in g.desc} \cap Range(FileIds(g))

\* The par2 files that LoadPacketsFromOtherFiles finds, name.*.par2, and those
\* that the command line names; an odd one has neither .par2 nor .PAR2 in its name.
Matches(i, m) == job.pars[i].volume /\ ~job.pars[i].odd /\ job.pars[i].stem = job.pars[m].stem
Others(m) == {i \in DOMAIN job.pars : Matches(i, m)}
ExtraFiles == {i \in DOMAIN job.pars : job.pars[i].packets # <<>>}
Extras == {i \in ExtraFiles : ~job.pars[i].odd}

\* What is to be done is a set of pairs of numbers, and done in their order.
Least(S) == CHOOSE x \in S : \A y \in S : x[1] < y[1] \/ (x[1] = y[1] /\ x[2] <= y[2])

\* The par2 files to load: the one given, the others, those named.
ToLoad(m) == {<<1, m>>} \cup {<<2, i>> : i \in Others(m)} \cup {<<3, i>> : i \in Extras}

-----------------------------------------------------------------------------
(* Process, from loading to the hash table. *)

Begin(m) ==
  /\ main' = m
  /\ stage' = "load"
  /\ todo' = ToLoad(m)
  /\ got' = NoPackets
  /\ used' = [pars |-> {}, files |-> {}]
  /\ table' = EmptyTable
  /\ found' = <<>>
  /\ complete' = <<>>
  /\ failed' = FALSE

Load ==
  /\ stage = "load" /\ todo # {}
  /\ LET i == Least(todo)[2]
         loaded == FoldLeft(LoadPacket, [got |-> got, some |-> FALSE], job.pars[i].packets)
         skip == i \in used.pars
     IN /\ got' = IF skip THEN got ELSE loaded.got
        /\ used' = IF skip \/ ~loaded.some THEN used ELSE [used EXCEPT !.pars = @ \cup {i}]
  /\ todo' = todo \ {Least(todo)}
  /\ UNCHANGED <<job, main, stage, table, found, complete, scan, failed, result, needed>>

\* The checksums of a source file are put in the table.
LoadSource(g, t, id) ==
  IF id \in Known(g) /\ CheckedIn(g, id)
  THEN LoadFile(t, id, VerifyIn(g, id).blocks, Len(DescIn(g, id).data)) ELSE t

LoadSources(g) == FoldLeft(LAMBDA t, id : LoadSource(g, t, id), EmptyTable, FileIds(g))

\* The source files in the order of their names; without the description of
\* one VerifySourceFiles fails at once.
Prepare ==
  /\ stage = "load" /\ todo = {}
  /\ IF got.main = None
     THEN /\ result' = "eInsufficientCriticalData" /\ stage' = "report"
          /\ UNCHANGED <<todo, got, table, found, complete>>
     ELSE LET g == Consistent(got)
              ids == Known(g)
          IN /\ got' = g
             /\ found' = [id \in ids |-> NoBlocks(DescIn(g, id).data)]
             /\ complete' = [id \in ids |-> NoFile]
             /\ table' = LoadSources(g)
             /\ IF ids = Range(FileIds(g))
                THEN /\ stage' = "sources" /\ todo' = {<<DescIn(g, id).name, id>> : id \in ids}
                     /\ UNCHANGED result
                ELSE stage' = "report" /\ result' = "eFileIOError" /\ UNCHANGED todo
  /\ UNCHANGED <<job, main, used, scan, failed, needed>>

BlockVerifiable == table # EmptyTable

-----------------------------------------------------------------------------
(* VerifyDataFile, ScanDataFile. *)

\* diskFileMap, and a disk that has bad places.
IsUsed(file) == file \in used.files
Reads(file) == file \notin job.unreadable \/ job.disk[file] = <<>>

\* In the stage it was called from.
Open(file, id, from) ==
  /\ used' = [used EXCEPT !.files = @ \cup {file}]
  /\ IF ~Reads(file)
     THEN failed' = (failed \/ id # 0) /\ UNCHANGED <<stage, scan>>
     ELSE /\ stage' = "scan"
          /\ scan' = [NoScan EXCEPT !.file = file, !.want = id, !.id = id, !.back = from,
                                    !.c = Start(job.disk[file])]
          /\ UNCHANGED failed

Data == job.disk[scan.file]
Scanning == stage = "scan" /\ BlockVerifiable /\ scan.c.at < Len(Data)

PlaceOf(i) == found[table.entry[i].file][table.entry[i].num]
Taken == {i \in DOMAIN table.entry : IsSet(PlaceOf(i))}
Here == {i \in Taken : PlaceOf(i).file = scan.file}
Whole == {id \in DOMAIN complete : complete[id] # NoFile}

Match == FindMatch(table, scan.next, scan.id, scan.c, Data, Taken, Here, Whole)

\* A block is found.  A full match begins with the first block at the start of
\* the file and goes on in order.
FindBlock ==
  /\ Scanning /\ Match.entry # 0
  /\ LET e == table.entry[Match.entry]
         asExpected == IF scan.count = 0 THEN e.num = 1 /\ scan.c.at = 0 ELSE Match.entry = scan.next
     IN /\ found' = [found EXCEPT ![e.file][e.num] = Location(scan.file, scan.c.at)]
        /\ scan' = [scan EXCEPT
             !.id = IF scan.count = 0 THEN e.file ELSE @,
             !.full = @ /\ asExpected,
             !.count = @ + 1,
             !.next = NextEntry(table, Match.entry),
             !.c = Jump(@, Data, e.length)]
  /\ UNCHANGED <<job, main, stage, todo, got, used, table, complete, failed, result, needed>>

\* Past a block that has been found before, or past a byte.
SkipOn ==
  /\ Scanning /\ Match.entry = 0
  /\ scan' = [scan EXCEPT
       !.full = FALSE, !.next = 0,
       !.c = IF Match.duplicate THEN Jump(@, Data, BlockSize) ELSE Step(@, Data)]
  /\ UNCHANGED <<job, main, stage, todo, got, used, table, found, complete, failed, result, needed>>

FullMatch ==
  /\ scan.count > 0 /\ scan.full
  /\ scan.count = Len(Hashes(scan.id))
  /\ Len(Data) = Len(DataOf(scan.id))
  /\ HashFull(scan.c, Data) = DataOf(scan.id)
  /\ Hash16k(scan.c) = Description(scan.id).first

\* Source files of which only the hash of all is known are compared with it;
\* but hashfull is not initialised unless the file was scanned (the variable
\* that is set hides it), nor hash16k in an empty file.
Uninitialised == {<<"anything">>} \cup {DataOf(id) : id \in DOMAIN complete}

Unscanned == ~BlockVerifiable \/ Data = <<>>

WholeMatches(full, first) ==
  {n \in DOMAIN FileIds(got) :
    LET id == FileIds(got)[n] IN
    /\ ~Checked(id) /\ complete[id] = NoFile
    /\ Len(Data) = Len(DataOf(id))
    /\ first = Description(id).first
    /\ full = DataOf(id)}

EndScan ==
  /\ stage = "scan" /\ ~Scanning
  /\ IF FullMatch
     THEN complete' = [complete EXCEPT ![scan.id] = scan.file] /\ UNCHANGED found
     ELSE \E full \in IF Unscanned THEN Uninitialised ELSE {HashFull(scan.c, Data)} :
          \E first \in IF BlockVerifiable /\ Data = <<>> THEN Uninitialised
                       ELSE {Bytes(Data, 0, HashedFirst)} :
            LET matches == IF scan.count > 0 THEN {} ELSE WholeMatches(full, first)
                id == FileIds(got)[Min(matches)]
            IN IF matches = {} THEN UNCHANGED <<complete, found>>
               ELSE /\ complete' = [complete EXCEPT ![id] = scan.file]
                    /\ found' = [found EXCEPT ![id] =
                         [k \in DOMAIN @ |-> Location(scan.file, (k - 1) * BlockSize)]]
  /\ stage' = scan.back
  /\ scan' = NoScan
  /\ UNCHANGED <<job, main, todo, got, used, table, failed, result, needed>>

-----------------------------------------------------------------------------
(* UpdateVerificationResults: what has been found up to now. *)

Completed == {id \in DOMAIN complete : complete[id] = Target(id)}

\* A block of a source file is the pair of its id and the number of the block.
Blocks == UNION {{id} \X DOMAIN found[id] : id \in DOMAIN found}
IsFound(b) == IsSet(found[b[1]][b[2]])

\* Mutant: a file of which something was found counts as a whole.
AvailableAny == Cardinality({b \in Blocks : \E k \in DOMAIN found[b[1]] : IsFound(<<b[1], k>>)})

Available == Cardinality({b \in Blocks : complete[b[1]] # NoFile \/ IsFound(b)})

SourceBlocks == Cardinality(Blocks)
MissingBlocks == SourceBlocks - Available

\* The copies of a name in the directory (extrafilenamemap).
Copies(name) == {f \in DOMAIN job.disk : f[1] = name}

AllComplete == Cardinality(Completed) >= Len(FileIds(got))

-----------------------------------------------------------------------------
(* VerifySourceFiles. *)

VerifySource ==
  /\ stage = "sources" /\ todo # {}
  /\ LET id == Least(todo)[2]
         file == Target(id)
     IN CASE IsUsed(file) ->
               /\ stage' = "report" /\ result' = "eFileIOError"
               /\ UNCHANGED <<used, scan, failed>>
          [] ~IsUsed(file) /\ file \in DOMAIN job.disk ->
               Open(file, id, "sources") /\ UNCHANGED result
          [] OTHER -> UNCHANGED <<stage, used, scan, failed, result>>
  /\ todo' = todo \ {Least(todo)}
  /\ UNCHANGED <<job, main, got, table, found, complete, needed>>

\* The copies of the files' names in their order: 0 is where the copies of a
\* name begin, a copy's place is after that of its number.
NameAt(n) == IF n \in DOMAIN FileIds(got) THEN Target(FileIds(got)[n])[1] ELSE 0
ToScan ==
  {<<n, 0>> : n \in DOMAIN FileIds(got)}
  \cup {x \in (1 .. Len(FileIds(got)) + 1) \X {f[2] + 1 : f \in DOMAIN job.disk} :
         <<NameAt(x[1]), x[2] - 1>> \in Copies(NameAt(x[1]))}

EndSources ==
  /\ stage = "sources" /\ todo = {}
  /\ IF failed
     THEN stage' = "report" /\ result' = "eFileIOError" /\ UNCHANGED todo
     ELSE /\ stage' = IF AllComplete THEN "result" ELSE "extra"
          /\ todo' = ToScan
          /\ UNCHANGED result
  /\ UNCHANGED <<job, main, got, used, table, found, complete, scan, failed, needed>>

(* VerifyExtraFiles: files whose names are like those of the source files of  *)
(* which there is no complete copy, then files without a name.                *)

NextExtra ==
  /\ stage = "extra" /\ todo # {} /\ ~AllComplete
  /\ LET x == Least(todo)
         file == <<NameAt(x[1]), x[2] - 1>>
         skip == x[2] = 0 /\ complete[FileIds(got)[x[1]]] # NoFile
     IN /\ todo' = IF skip THEN {y \in todo : y[1] # x[1]} ELSE todo \ {x}
        /\ IF x[2] = 0 \/ IsUsed(file)
           THEN UNCHANGED <<stage, used, scan, failed>>
           ELSE Open(file, 0, "extra")
  /\ UNCHANGED <<job, main, got, table, found, complete, result, needed>>

EndExtra ==
  /\ stage = "extra" /\ (todo = {} \/ AllComplete)
  /\ stage' = "result"
  /\ UNCHANGED <<job, main, todo, got, used, table, found, complete, scan, failed, result, needed>>

\* CheckVerificationResults.
Decide ==
  /\ stage = "result"
  /\ result' = IF AllComplete THEN "eSuccess"
               ELSE IF Cardinality(got.recovery) >= MissingBlocks THEN "eRepairPossible"
               ELSE "eRepairNotPossible"
  /\ stage' = "report"
  /\ UNCHANGED <<job, main, todo, got, used, table, found, complete, scan, failed, needed>>

-----------------------------------------------------------------------------
(* Par2Info::maybe_get_pxxs. *)

Verified == result \in {"eSuccess", "eRepairPossible", "eRepairNotPossible"}

Report ==
  /\ stage = "report"
  /\ IF Verified
     THEN /\ needed' = IF result = "eRepairNotPossible" THEN MissingBlocks - Cardinality(got.recovery) ELSE 0
          /\ stage' = "done"
          /\ UNCHANGED <<main, todo, got, used, table, found, complete, failed>>
     ELSE IF main < Len(job.pars) THEN Begin(main + 1) /\ UNCHANGED needed
     ELSE /\ needed' = 1 /\ stage' = "done"
          /\ UNCHANGED <<main, todo, got, used, table, found, complete, failed>>
  /\ UNCHANGED <<job, scan, result>>

Done == stage = "done" /\ UNCHANGED vars

Init ==
  /\ job \in Jobs
  /\ main = 1 /\ stage = "load" /\ todo = ToLoad(1)
  /\ got = NoPackets
  /\ used = [pars |-> {}, files |-> {}]
  /\ table = EmptyTable
  /\ found = <<>> /\ complete = <<>>
  /\ scan = NoScan
  /\ failed = FALSE
  /\ result = "none"
  /\ needed = 0

Next ==
  \/ Load \/ Prepare \/ VerifySource \/ EndSources \/ FindBlock \/ SkipOn \/ EndScan
  \/ NextExtra \/ EndExtra \/ Decide \/ Report \/ Done

Spec == Init /\ [][Next]_vars

-----------------------------------------------------------------------------
(* Properties. *)

\* The window of FileCheckSummer shows what is in the file at its offset, and
\* the hashes of the file are right when its end has been reached: the pointers
\* into the buffer, which is refilled behind them, agree with the offsets.
WindowFollows ==
  stage = "scan" /\ BlockVerifiable /\ Data # <<>> =>
       /\ scan.c \in Checksummers
       /\ WindowRight(scan.c, Data) /\ HashesRight(scan.c, Data)

\* The hash of all of a source file decides: its blocks have checksums, or it
\* is not longer than the part whose hash is initialised.
Trusted(id) == Checked(id) \/ Len(DataOf(id)) <= HashedFirst

\* A block that was found is where it was found, and a complete copy is one:
\* otherwise nget would take a damaged file for a good one.
FoundIsThere ==
  \A id \in DOMAIN found :
    Trusted(id) =>
      /\ \A k \in DOMAIN found[id] :
           LET p == found[id][k]
               own == BlockBytes(DataOf(id), k)
           IN p # Nowhere => LET bytes == Bytes(job.disk[p.file], p.at, Len(own)) IN
                               bytes # <<>> /\ bytes = SubSeq(own, 1, Len(bytes))
      /\ complete[id] # NoFile => job.disk[complete[id]] = DataOf(id)

\* The blocks at the start of a source file, up to the first damage.
Intact(id) ==
  {k \in DOMAIN found[id] :
     /\ Target(id) \in DOMAIN job.disk
     /\ Bytes(job.disk[Target(id)], 0, k * BlockSize) = Bytes(DataOf(id), 0, k * BlockSize)}

\* No other source file has a block with the same data.
Alone(id) ==
  \A other \in (DOMAIN found) \ {id} :
    \A k \in DOMAIN found[id], l \in DOMAIN found[other] : Block(DataOf(id), k) # Block(DataOf(other), l)

\* A block that the file has more than once was come upon in another file first.
Disturbed(id) ==
  \E k, l \in DOMAIN found[id] :
    /\ k # l /\ Block(DataOf(id), k) = Block(DataOf(id), l)
    /\ found[id][k].file \notin {NoFile, Target(id)}

\* What is intact at the start of a source file is found, so that no more is
\* downloaded than is missing; and when all files are intact the set is.  (A
\* block that other files have too may be taken for theirs, and a file is lost
\* sight of at a block that it has twice, when that was found elsewhere.)
\* Nothing is lost in the table.
IntactIsFound ==
  /\ stage = "sources" => TableRight(table)
  /\ stage = "done" /\ Verified =>
    /\ \A id \in DOMAIN found :
         Checked(id) /\ Alone(id) /\ ~Disturbed(id) => \A k \in Intact(id) : found[id][k] # Nowhere
    /\ (\A id \in DOMAIN found :
          Checked(id) /\ Target(id) \in DOMAIN job.disk /\ job.disk[Target(id)] = DataOf(id))
         => result = "eSuccess"

\* What is missing of a block that was found at the end of a file happened to
\* be in the window still (see FoundWhole).
CutOff(b) ==
  LET p == found[b[1]][b[2]]
  IN p # Nowhere /\ p.at + Len(BlockBytes(DataOf(b[1]), b[2])) > Len(job.disk[p.file])

\* The blocks that are in no file at all.
Lost ==
  {b \in Blocks :
    LET own == BlockBytes(DataOf(b[1]), b[2]) IN
    /\ \A f \in DOMAIN job.disk : \A at \in 0 .. Len(job.disk[f]) : Bytes(job.disk[f], at, Len(own)) # own
    /\ ~CutOff(b)}

\* With the recovery packets nget has and those it will now ask for what is
\* lost can be repaired.
EnoughAsked ==
  stage = "done" /\ Verified /\ (\A id \in DOMAIN found : Trusted(id)) =>
    Cardinality(got.recovery) + needed >= Cardinality(Lost)

\* And all of the block is there.  Not a property of the code: a last block that
\* is cut off can be taken for whole, for Fill() leaves what was in the window
\* behind the end of the file.
FoundWhole ==
  \A id \in DOMAIN found :
    Trusted(id) =>
      \A k \in DOMAIN found[id] :
        LET p == found[id][k]
            own == BlockBytes(DataOf(id), k)
        IN p # Nowhere => Bytes(job.disk[p.file], p.at, Len(own)) = own

\* Whatever is in the files, every step brings the end nearer: there are fewer
\* par2 files to try, the next stage is reached, fewer files are left, or less
\* of the one that is scanned.  The code stops only when it is done (there is
\* no deadlock), so it terminates.
Rank == CHOOSE n \in 1 .. 6 :
  <<"load", "sources", "extra", "result", "report", "done">>[n] = IF stage = "scan" THEN scan.back ELSE stage

FilesLeft == Cardinality(todo)
BytesLeft == IF stage = "scan" THEN 1 + Len(Data) - scan.c.at ELSE 0

Nearer ==
  \/ main' > main
  \/ main' = main /\ Rank' > Rank
  \/ main' = main /\ Rank' = Rank /\ FilesLeft' < FilesLeft
  \/ main' = main /\ Rank' = Rank /\ FilesLeft' = FilesLeft /\ BytesLeft' < BytesLeft

Advances == [][Nearer]_vars
=============================================================================
