-------------------------- MODULE SharedFilesProofs --------------------------
(***************************************************************************)
(* Theorems about the files that ngets share: LockFile, the lock itself,   *)
(* for any number of processes and inodes and for any set of faults and    *)
(* crash points; FileSave, the replacing of a file, for any number of      *)
(* processes, of saves and of crashes, when the file is locked while it is *)
(* replaced (without the lock they do not hold: see the run                *)
(* file_save_cache); and MidInfo, for any number of processes, message-ids *)
(* and crashes, for any clock and any times that entries are kept.         *)
(***************************************************************************)
EXTENDS LockFile, FileSave, MidInfo, SequenceTheorems, TLAPS

-----------------------------------------------------------------------------
(* The lock. *)


(***************************************************************************)
(* The inductive invariant.  The heart of it is what the gate protects:    *)
(* only one process at a time is between making and removing the gate, so  *)
(* what it has learnt about FILE.locks stays true until it acts on it.     *)
(***************************************************************************)

\* At most one process is behind the gate, and the gate is closed meanwhile.
OneBehindGate ==
  /\ \A p \in Proc : Gated(p) => gate
  /\ \A p, q \in Proc : Gated(p) /\ Gated(q) => p = q

\* Every fcntl lock belongs to a process that has or is about to report the
\* lock it asked for, and is on the file linked at FILE.locks.
LocksAreLive ==
  \A p \in Proc :
    /\ HasLock(p) => lk[p] = want[p]
    /\ lk[p] # "none" => HasLock(p) /\ desc[p] = locks /\ locks # NoNode

\* The process behind the gate knows FILE.locks.
GateKnowsFile ==
  \A p \in Proc :
    /\ pc[p] \in {"setlk", "dtest"} => desc[p] = locks /\ locks # NoNode
    /\ pc[p] = "dunlink" => \A q \in Proc : lk[q] = "none"

\* Locks of different processes are compatible.
LocksCompatible ==
  \A p, q \in Proc : p # q /\ lk[p] = "ex" => lk[q] = "none"

LockInv == TypeOK /\ OneBehindGate /\ LocksAreLive /\ GateKnowsFile /\ LocksCompatible

LEMMA InitLockInv == Init => LockInv
  BY LockFileAssumption
     DEF Init, LockInv, TypeOK, OneBehindGate, LocksAreLive, GateKnowsFile, LocksCompatible,
         Gated, HasLock, Points, CtorGated, DtorGated, Modes

LEMMA StepLockInv == LockInv /\ [Next]_vars => LockInv'
<1> SUFFICES ASSUME LockInv, [Next]_vars PROVE LockInv'
  OBVIOUS
<1> USE LockFileAssumption
    DEF LockInv, TypeOK, OneBehindGate, LocksAreLive, GateKnowsFile, LocksCompatible,
        Gated, HasLock, Points, CtorGated, DtorGated, Modes, Goto
<1>1. ASSUME NEW p \in Proc, NEW m \in Modes, Request(p, m) PROVE LockInv'
  BY <1>1 DEF Request
<1>2. ASSUME NEW p \in Proc, CtorGate(p) PROVE LockInv'
  <2>1. TypeOK'
    BY <1>2 DEF CtorGate
  <2>2. OneBehindGate'
    BY <1>2 DEF CtorGate
  <2>3. LocksAreLive'
    BY <1>2 DEF CtorGate
  <2>4. GateKnowsFile'
    BY <1>2 DEF CtorGate
  <2>5. LocksCompatible'
    BY <1>2 DEF CtorGate
  <2> QED
    BY <2>1, <2>2, <2>3, <2>4, <2>5
<1>3. ASSUME NEW p \in Proc, CtorOpen(p) PROVE LockInv'
  <2>1. TypeOK'
    BY <1>3 DEF CtorOpen, Fresh
  <2>2. OneBehindGate'
    BY <1>3 DEF CtorOpen, Fresh
  <2>3. LocksAreLive'
    BY <1>3 DEF CtorOpen, Fresh
  <2>4. GateKnowsFile'
    BY <1>3 DEF CtorOpen, Fresh
  <2>5. LocksCompatible'
    BY <1>3 DEF CtorOpen, Fresh
  <2> QED
    BY <2>1, <2>2, <2>3, <2>4, <2>5
<1>4. ASSUME NEW p \in Proc, CtorSetlk(p) PROVE LockInv'
  <2>1. TypeOK'
    BY <1>4 DEF CtorSetlk, Conflict
  <2>2. OneBehindGate'
    BY <1>4 DEF CtorSetlk, Conflict
  <2>3. LocksAreLive'
    BY <1>4 DEF CtorSetlk, Conflict
  <2>4. GateKnowsFile'
    BY <1>4 DEF CtorSetlk, Conflict
  <2>5. LocksCompatible'
    BY <1>4 DEF CtorSetlk, Conflict
  <2> QED
    BY <2>1, <2>2, <2>3, <2>4, <2>5
<1>5. ASSUME NEW p \in Proc, CtorUngate(p) PROVE LockInv'
  <2>1. TypeOK'
    BY <1>5 DEF CtorUngate, Unlinked
  <2>2. OneBehindGate'
    BY <1>5 DEF CtorUngate, Unlinked
  <2>3. LocksAreLive'
    BY <1>5 DEF CtorUngate, Unlinked
  <2>4. GateKnowsFile'
    BY <1>5 DEF CtorUngate, Unlinked
  <2>5. LocksCompatible'
    BY <1>5 DEF CtorUngate, Unlinked
  <2> QED
    BY <2>1, <2>2, <2>3, <2>4, <2>5
<1>6. ASSUME NEW p \in Proc, DtorClose(p) PROVE LockInv'
  BY <1>6 DEF DtorClose
<1>7. ASSUME NEW p \in Proc, DtorGate(p) PROVE LockInv'
  <2>1. TypeOK'
    BY <1>7 DEF DtorGate
  <2>2. OneBehindGate'
    BY <1>7 DEF DtorGate
  <2>3. LocksAreLive'
    BY <1>7 DEF DtorGate
  <2>4. GateKnowsFile'
    BY <1>7 DEF DtorGate
  <2>5. LocksCompatible'
    BY <1>7 DEF DtorGate
  <2> QED
    BY <2>1, <2>2, <2>3, <2>4, <2>5
<1>8. ASSUME NEW p \in Proc, DtorOpen(p) PROVE LockInv'
  BY <1>8 DEF DtorOpen
<1>9. ASSUME NEW p \in Proc, DtorTest(p) PROVE LockInv'
  <2>1. TypeOK'
    BY <1>9 DEF DtorTest, Conflict
  <2>2. OneBehindGate'
    BY <1>9 DEF DtorTest, Conflict
  <2>3. LocksAreLive'
    BY <1>9 DEF DtorTest, Conflict
  <2>4. GateKnowsFile'
    BY <1>9 DEF DtorTest, Conflict
  <2>5. LocksCompatible'
    BY <1>9 DEF DtorTest, Conflict
  <2> QED
    BY <2>1, <2>2, <2>3, <2>4, <2>5
<1>10. ASSUME NEW p \in Proc, DtorUnlink(p) PROVE LockInv'
  <2>1. TypeOK'
    BY <1>10 DEF DtorUnlink, Unlinked
  <2>2. OneBehindGate'
    BY <1>10 DEF DtorUnlink, Unlinked
  <2>3. LocksAreLive'
    BY <1>10 DEF DtorUnlink, Unlinked
  <2>4. GateKnowsFile'
    BY <1>10 DEF DtorUnlink, Unlinked
  <2>5. LocksCompatible'
    BY <1>10 DEF DtorUnlink, Unlinked
  <2> QED
    BY <2>1, <2>2, <2>3, <2>4, <2>5
<1>11. ASSUME NEW p \in Proc, DtorUngate(p) PROVE LockInv'
  <2>1. TypeOK'
    BY <1>11 DEF DtorUngate, Unlinked
  <2>2. OneBehindGate'
    BY <1>11 DEF DtorUngate, Unlinked
  <2>3. LocksAreLive'
    BY <1>11 DEF DtorUngate, Unlinked
  <2>4. GateKnowsFile'
    BY <1>11 DEF DtorUngate, Unlinked
  <2>5. LocksCompatible'
    BY <1>11 DEF DtorUngate, Unlinked
  <2> QED
    BY <2>1, <2>2, <2>3, <2>4, <2>5
<1>12. ASSUME NEW p \in Proc, Fail(p) PROVE LockInv'
  <2>1. TypeOK'
    BY <1>12 DEF Fail
  <2>2. OneBehindGate'
    BY <1>12 DEF Fail
  <2>3. LocksAreLive'
    BY <1>12 DEF Fail
  <2>4. GateKnowsFile'
    BY <1>12 DEF Fail
  <2>5. LocksCompatible'
    BY <1>12 DEF Fail
  <2> QED
    BY <2>1, <2>2, <2>3, <2>4, <2>5
<1>13. ASSUME NEW p \in Proc, Exit(p) PROVE LockInv'
  <2>1. TypeOK'
    BY <1>13 DEF Exit
  <2>2. OneBehindGate'
    BY <1>13 DEF Exit
  <2>3. LocksAreLive'
    BY <1>13 DEF Exit
  <2>4. GateKnowsFile'
    BY <1>13 DEF Exit
  <2>5. LocksCompatible'
    BY <1>13 DEF Exit
  <2> QED
    BY <2>1, <2>2, <2>3, <2>4, <2>5
<1>14. CASE UNCHANGED vars
  BY <1>14 DEF vars
<1>15. QED
  BY <1>1, <1>2, <1>3, <1>4, <1>5, <1>6, <1>7, <1>8, <1>9, <1>10, <1>11, <1>12, <1>13, <1>14
     DEF Next, Step, Ctor, Dtor

\* Every reachable state satisfies the inductive invariant.
THEOREM LockInvariance == Spec => []LockInv
<1>1. LockInv /\ [Next]_vars => LockInv'
  BY StepLockInv
<1> QED
  BY InitLockInv, <1>1, PTL DEF Spec

\* Type correctness of the lock file protocol.
THEOREM LockTypeCorrect == Spec => []TypeOK
<1>1. LockInv => TypeOK
  BY DEF LockInv
<1> QED
  BY LockInvariance, <1>1, PTL

\* Two constructors that have both returned both asked for a shared lock,
\* for any number of processes and whatever crashes or fails.
THEOREM Exclusion == Spec => []MutualExclusion
<1>1. LockInv => MutualExclusion
  BY DEF LockInv, TypeOK, LocksAreLive, LocksCompatible, MutualExclusion, Modes, HasLock
<1> QED
  BY LockInvariance, <1>1, PTL

\* The destructor never unlinks a locks file somebody has a lock on.
THEOREM NeverUnlinksLive == Spec => []LockIsLive
<1>1. LockInv => LockIsLive
  BY DEF LockInv, TypeOK, LocksAreLive, LockIsLive, Modes
<1> QED
  BY LockInvariance, <1>1, PTL

(***************************************************************************)
(* What is left behind.  As long as nothing fails and nobody is killed,    *)
(* the gate always has its owner, and FILE.locks is linked only while some *)
(* process is still to pass a destructor that looks whether it can go.     *)
(***************************************************************************)
AllGoesWell == Faults = {} /\ CrashPoints = {}

Users == {"setlk", "ungate", "held", "dgate", "dopen", "dtest", "dunlink"}

Tended ==
  /\ GateOwned
  /\ locks # NoNode => \E p \in Proc : pc[p] \in Users
  /\ \A p \in Proc : pc[p] # "failed"

LEMMA StepTended ==
  ASSUME AllGoesWell, LockInv, Tended, [Next]_vars
  PROVE  Tended'
<1> USE DEF Tended, GateOwned, Gated, CtorGated, DtorGated, Users, Goto, LockInv, TypeOK
<1>1. ASSUME NEW p \in Proc, NEW m \in Modes, Request(p, m) PROVE Tended'
  BY <1>1 DEF Request
<1>2. ASSUME NEW p \in Proc, CtorGate(p) PROVE Tended'
  BY <1>2 DEF CtorGate
<1>3. ASSUME NEW p \in Proc, CtorOpen(p) PROVE Tended'
  BY <1>3 DEF CtorOpen
<1>4. ASSUME NEW p \in Proc, CtorSetlk(p) PROVE Tended'
  BY <1>4 DEF CtorSetlk
<1>5. ASSUME NEW p \in Proc, CtorUngate(p) PROVE Tended'
  BY <1>5 DEF CtorUngate, Unlinked, AllGoesWell
<1>6. ASSUME NEW p \in Proc, DtorClose(p) PROVE Tended'
  BY <1>6 DEF DtorClose
<1>7. ASSUME NEW p \in Proc, DtorGate(p) PROVE Tended'
  BY <1>7 DEF DtorGate
<1>8. ASSUME NEW p \in Proc, DtorOpen(p) PROVE Tended'
  BY <1>8 DEF DtorOpen
<1>9. ASSUME NEW p \in Proc, DtorTest(p) PROVE Tended'
  \* When the file has to stay, the process whose lock was found is a user of it.
  <2>1. CASE Conflict(p, "ex")
    <3>1. PICK q \in Proc \ {p} : lk[q] # "none"
      BY <2>1 DEF Conflict, Modes
    <3>2. pc[q] \in {"ungate", "held"}
      BY <3>1 DEF LocksAreLive, HasLock
    <3> QED
      BY <1>9, <2>1, <3>1, <3>2 DEF DtorTest
  <2>2. CASE ~Conflict(p, "ex")
    BY <1>9, <2>2 DEF DtorTest
  <2> QED
    BY <2>1, <2>2
<1>10. ASSUME NEW p \in Proc, DtorUnlink(p) PROVE Tended'
  BY <1>10 DEF DtorUnlink, Unlinked, AllGoesWell
<1>11. ASSUME NEW p \in Proc, DtorUngate(p) PROVE Tended'
  BY <1>11 DEF DtorUngate, Unlinked, AllGoesWell
<1>12. ASSUME NEW p \in Proc, Fail(p) \/ Exit(p) PROVE FALSE
  BY <1>12 DEF Fail, Exit, AllGoesWell
<1>13. CASE UNCHANGED vars
  BY <1>13 DEF vars
<1> QED
  BY <1>1, <1>2, <1>3, <1>4, <1>5, <1>6, <1>7, <1>8, <1>9, <1>10, <1>11, <1>12, <1>13
     DEF Next, Step, Ctor, Dtor

\* When nothing fails and nobody is killed, nothing is left behind: neither
\* FILE.locks nor the gate exists once every process is out of the class.
THEOREM NothingLeftBehind ==
  ASSUME AllGoesWell
  PROVE  Spec => []CleanedUp
<1>1. Init => Tended
  BY DEF Init, Tended, GateOwned
<1>2. LockInv /\ Tended /\ [Next]_vars => Tended'
  BY StepTended
<1>3. Tended => CleanedUp
  BY DEF Tended, GateOwned, Gated, CtorGated, DtorGated, Users, CleanedUp
<1> QED
  BY LockInvariance, <1>1, <1>2, <1>3, PTL DEF Spec

(***************************************************************************)
(* What the gate means for those who wait.                                 *)
(***************************************************************************)
\* Readers that keep coming do not starve a writer: while somebody sleeps in
\* F_SETLKW nobody else gets a lock, for the sleeper keeps the gate closed.
THEOREM WaiterIsNext == Spec => NoBarging
<1>1. ASSUME LockInv, [Next]_vars, NEW p \in Proc, NEW q \in Proc,
             p # q, pc[q] = "setlk", lk[p] = "none"
      PROVE  lk'[p] = "none"
  <2>1. CASE CtorSetlk(p)
    BY <1>1, <2>1 DEF CtorSetlk, LockInv, OneBehindGate, Gated, CtorGated, DtorGated
  <2>2. ASSUME NEW r \in Proc, Step(r), ~(r = p /\ CtorSetlk(p)) PROVE lk'[p] = "none"
    BY <1>1, <2>2 DEF Step, Ctor, Dtor, Request, CtorGate, CtorOpen, CtorSetlk, CtorUngate, DtorClose,
       DtorGate, DtorOpen, DtorTest, DtorUnlink, DtorUngate, Fail, Exit, LockInv, TypeOK
  <2>3. CASE UNCHANGED vars
    BY <1>1, <2>3 DEF vars
  <2> QED
    BY <1>1, <2>1, <2>2, <2>3 DEF Next
<1>2. LockInv /\ [Next]_vars =>
        [\A p, q \in Proc :
           p # q /\ pc[q] = "setlk" /\ pc'[q] = "setlk" /\ lk[p] = "none" => lk'[p] = "none"]_vars
  BY <1>1
<1> QED
  BY LockInvariance, <1>2, PTL DEF Spec, NoBarging

\* What a process that dies behind the gate costs everybody, for ever: the gate
\* stays, and no constructor returns any more (mylockfile.h:129).
THEOREM StaleGateBlocks == Spec => StaleGateStays
<1>1. ASSUME LockInv, [Next]_vars, gate, \A p \in Proc : ~Gated(p)
      PROVE  gate' /\ \A p \in Proc : ~Gated(p)' /\ (pc[p] # "held" => pc'[p] # "held")
  <2> USE DEF Gated, CtorGated, DtorGated, LockInv, TypeOK, Points, Goto
  <2>1. ASSUME NEW r \in Proc, NEW m \in Modes, Request(r, m)
        PROVE  gate' /\ \A p \in Proc : ~Gated(p)' /\ (pc[p] # "held" => pc'[p] # "held")
    BY <1>1, <2>1 DEF Request
  <2>2. ASSUME NEW r \in Proc, Ctor(r) PROVE FALSE
    BY <1>1, <2>2 DEF Ctor, CtorGate, CtorOpen, CtorSetlk, CtorUngate
  <2>3. ASSUME NEW r \in Proc, DtorClose(r)
        PROVE  gate' /\ \A p \in Proc : ~Gated(p)' /\ (pc[p] # "held" => pc'[p] # "held")
    BY <1>1, <2>3 DEF DtorClose
  <2>4. ASSUME NEW r \in Proc, Dtor(r), ~DtorClose(r) PROVE FALSE
    BY <1>1, <2>4 DEF Dtor, DtorGate, DtorOpen, DtorTest, DtorUnlink, DtorUngate
  <2>5. ASSUME NEW r \in Proc, Fail(r)
        PROVE  gate' /\ \A p \in Proc : ~Gated(p)' /\ (pc[p] # "held" => pc'[p] # "held")
    BY <1>1, <2>5 DEF Fail
  <2>6. ASSUME NEW r \in Proc, Exit(r)
        PROVE  gate' /\ \A p \in Proc : ~Gated(p)' /\ (pc[p] # "held" => pc'[p] # "held")
    BY <1>1, <2>6 DEF Exit
  <2>7. CASE UNCHANGED vars
    BY <1>1, <2>7 DEF vars
  <2> QED
    BY <1>1, <2>1, <2>2, <2>3, <2>4, <2>5, <2>6, <2>7 DEF Next, Step
<1>2. LockInv /\ [Next]_vars =>
        [~GateOwned => ~GateOwned' /\ \A p \in Proc : pc[p] # "held" => pc'[p] # "held"]_vars
  BY <1>1 DEF GateOwned, LockInv, TypeOK
<1> QED
  BY LockInvariance, <1>2, PTL DEF Spec, StaleGateStays

(***************************************************************************)
(* The refinement: a lock is acquired by F_SETLKW and released by close()  *)
(* or by the end of the process; every other step is a stutter of RWLock.  *)
(* fcntl compares only locks on one inode, the promise speaks of all       *)
(* processes: that there is one inode to compare is what LockInv says.        *)
(***************************************************************************)
LEMMA StepRefines == LockInv /\ [Next]_vars => [Promise!RWNext]_lk
<1> SUFFICES ASSUME LockInv, [Next]_vars, lk' # lk PROVE Promise!RWNext
  OBVIOUS
<1> USE DEF LockInv, TypeOK
<1>1. ASSUME NEW p \in Proc, CtorSetlk(p) PROVE Promise!RWNext
  <2>1. lk[p] = "none"
    BY <1>1 DEF CtorSetlk, LocksAreLive, HasLock
  <2>2. Promise!Compatible(p, want[p])
    <3> SUFFICES ASSUME NEW q \in Proc \ {p}, lk[q] # "none"
                 PROVE  lk[q] = "sh" /\ want[p] = "sh"
      BY DEF Promise!Compatible
    <3>1. desc[q] = desc[p]
      BY <1>1 DEF CtorSetlk, LocksAreLive, GateKnowsFile
    <3> QED
      BY <3>1, <1>1 DEF CtorSetlk, Conflict, Modes
  <2>3. Promise!Acquire(p, want[p])
    BY <2>1, <2>2, <1>1 DEF CtorSetlk, Promise!Acquire
  <2> QED
    BY <2>3 DEF Promise!RWNext, Promise!Modes, Modes
<1>2. ASSUME NEW p \in Proc, DtorClose(p) \/ Exit(p) PROVE Promise!RWNext
  <2>1. lk' = [lk EXCEPT ![p] = "none"]
    BY <1>2 DEF DtorClose, Exit
  <2>2. lk[p] # "none"
    BY <2>1
  <2> QED
    BY <2>1, <2>2 DEF Promise!RWNext, Promise!Release
<1>3. ASSUME NEW p \in Proc,
             \/ \E m \in Modes : Request(p, m)
             \/ CtorGate(p) \/ CtorOpen(p) \/ CtorUngate(p)
             \/ DtorGate(p) \/ DtorOpen(p) \/ DtorTest(p) \/ DtorUnlink(p) \/ DtorUngate(p)
             \/ Fail(p)
      PROVE  FALSE
  BY <1>3 DEF Request, CtorGate, CtorOpen, CtorUngate, DtorGate, DtorOpen, DtorTest,
              DtorUnlink, DtorUngate, Fail
<1>4. CASE UNCHANGED vars
  BY <1>4 DEF vars
<1> QED
  BY <1>1, <1>2, <1>3, <1>4 DEF Next, Step, Ctor, Dtor

\* The POSIX lock file implements the reader-writer lock its users rely on,
\* whatever fails and whenever a process is killed.
THEOREM LockRefinement == Spec => IsRWLock
<1>1. Init => Promise!RWInit
  BY DEF Init, Promise!RWInit
<1> QED
  BY <1>1, StepRefines, LockInvariance, PTL DEF Spec, IsRWLock, Promise!RWSpec


-----------------------------------------------------------------------------
(* What is written. *)

Save(n) == [save |-> n, part |-> 1]
Rest(n) == [save |-> n, part |-> 2]

LEMMA NewType ==
  ASSUME NEW n \in 1 .. MaxSaves
  PROVE  /\ New(n) \in Seq(Chunk) /\ Len(New(n)) = 2
         /\ New(n)[1] = Save(n) /\ New(n)[2] = Rest(n)
  BY FileSaveAssumption DEF New, Chunk, Save, Rest, FileSaveAssumption

\* Two neighbours of a sequence.
LEMMA Neighbours ==
  ASSUME NEW d \in Seq(Chunk), NEW k \in 1 .. Len(d) - 1
  PROVE  SubSeq(d, k, k + 1) = <<d[k], d[k + 1]>>
  <1>1. /\ SubSeq(d, k, k + 1) \in Seq(Chunk) /\ Len(SubSeq(d, k, k + 1)) = 2
        /\ SubSeq(d, k, k + 1)[1] = d[k] /\ SubSeq(d, k, k + 1)[2] = d[k + 1]
    BY SubSeqProperties, \A i \in k .. k + 1 : d[i] \in Chunk
  <1> DEFINE pair == <<d[k], d[k + 1]>>
  <1>2. pair \in Seq(Chunk) /\ Len(pair) = 2 /\ pair[1] = d[k] /\ pair[2] = d[k + 1]
    BY d[k] \in Chunk, d[k + 1] \in Chunk
  <1>3. \A i \in 1 .. 2 : SubSeq(d, k, k + 1)[i] = pair[i]
    BY <1>1, <1>2, \A i \in 1 .. 2 : i = 1 \/ i = 2
  <1> HIDE DEF pair
  <1>4. SubSeq(d, k, k + 1) = pair
    BY <1>1, <1>2, <1>3, SeqEqual
  <1> QED
    BY <1>4 DEF pair

\* A file is whole when its chunks are, two by two, the halves of one save.
LEMMA WholeByPairs ==
  ASSUME NEW d \in Seq(Chunk)
  PROVE  Whole(d) <=>
           /\ Len(d) % 2 = 0
           /\ \A j \in 1 .. Len(d) \div 2 :
                \E n \in 1 .. MaxSaves : d[2 * j - 1] = Save(n) /\ d[2 * j] = Rest(n)
  <1> SUFFICES ASSUME Len(d) % 2 = 0
      PROVE (\A j \in 1 .. Len(d) \div 2 :
               d[2 * j - 1] # Hole /\ SubSeq(d, 2 * j - 1, 2 * j) = New(d[2 * j - 1].save))
            <=> \A j \in 1 .. Len(d) \div 2 :
                  \E n \in 1 .. MaxSaves : d[2 * j - 1] = Save(n) /\ d[2 * j] = Rest(n)
    BY DEF Whole
  <1>1. ASSUME NEW j \in 1 .. Len(d) \div 2
        PROVE  (d[2 * j - 1] # Hole /\ SubSeq(d, 2 * j - 1, 2 * j) = New(d[2 * j - 1].save))
               <=> \E n \in 1 .. MaxSaves : d[2 * j - 1] = Save(n) /\ d[2 * j] = Rest(n)
    <2>1. 2 * j - 1 \in 1 .. Len(d) - 1 /\ (2 * j - 1) + 1 = 2 * j
      OBVIOUS
    <2>2. SubSeq(d, 2 * j - 1, 2 * j) = <<d[2 * j - 1], d[2 * j]>>
      BY <2>1, Neighbours
    <2>3. d[2 * j - 1] \in Chunk
      BY <2>1
    <2>4. ASSUME NEW n \in 1 .. MaxSaves
          PROVE  Save(n) # Hole /\ Save(n).save = n
      BY FileSaveAssumption DEF Save, Hole, FileSaveAssumption
    <2>5. ASSUME d[2 * j - 1] # Hole
          PROVE  d[2 * j - 1].save \in 1 .. MaxSaves
      BY <2>3, <2>5 DEF Chunk
    <2>6. ASSUME d[2 * j - 1] # Hole, <<d[2 * j - 1], d[2 * j]>> = New(d[2 * j - 1].save)
          PROVE  \E n \in 1 .. MaxSaves : d[2 * j - 1] = Save(n) /\ d[2 * j] = Rest(n)
      BY <2>5, <2>6 DEF New, Save, Rest
    <2>7. ASSUME NEW n \in 1 .. MaxSaves, d[2 * j - 1] = Save(n), d[2 * j] = Rest(n)
          PROVE  d[2 * j - 1] # Hole /\ <<d[2 * j - 1], d[2 * j]>> = New(d[2 * j - 1].save)
      <3>1. d[2 * j - 1] # Hole /\ d[2 * j - 1].save = n
        BY <2>4, <2>7
      <3>2. <<d[2 * j - 1], d[2 * j]>> = New(n)
        BY <2>7 DEF New, Save, Rest
      <3> QED
        BY <3>1, <3>2
    <2> QED
      BY <2>2, <2>6, <2>7
  <1> QED
    BY <1>1

LEMMA WholeEmpty == Whole(<<>>)
  BY DEF Whole

\* A save added to a whole file.
LEMMA WholeAdded ==
  ASSUME NEW d \in Seq(Chunk), Whole(d), NEW n \in 1 .. MaxSaves
  PROVE  d \o New(n) \in Seq(Chunk) /\ Whole(d \o New(n))
  <1> DEFINE e == d \o New(n)
  <1>1. /\ e \in Seq(Chunk) /\ Len(e) = Len(d) + 2
        /\ \A i \in 1 .. Len(d) : e[i] = d[i]
        /\ e[Len(d) + 1] = Save(n) /\ e[Len(d) + 2] = Rest(n)
    <2>1. New(n) \in Seq(Chunk) /\ Len(New(n)) = 2 /\ New(n)[1] = Save(n) /\ New(n)[2] = Rest(n)
      BY NewType
    <2>2. /\ e \in Seq(Chunk) /\ Len(e) = Len(d) + 2 /\ Len(d) \in Nat
          /\ \A i \in 1 .. Len(d) + 2 : e[i] = IF i <= Len(d) THEN d[i] ELSE New(n)[i - Len(d)]
      <3> DEFINE w == New(n)
      <3> HIDE DEF w
      <3>1. w \in Seq(Chunk) /\ Len(w) = 2
        BY <2>1 DEF w
      <3>2. /\ d \o w \in Seq(Chunk) /\ Len(d \o w) = Len(d) + Len(w)
            /\ \A i \in 1 .. Len(d) + Len(w) : (d \o w)[i] = IF i <= Len(d) THEN d[i] ELSE w[i - Len(d)]
        BY ONLY d \in Seq(Chunk), <3>1, ConcatProperties
      <3>3. Len(d) \in Nat
        BY LenProperties
      <3> QED BY <3>1, <3>2, <3>3 DEF w
    <2> HIDE DEF e
    <2>3. e[Len(d) + 1] = New(n)[(Len(d) + 1) - Len(d)] /\ e[Len(d) + 2] = New(n)[(Len(d) + 2) - Len(d)]
      BY <2>2
    <2> QED
      BY <2>1, <2>2, <2>3
  <1>2. /\ Len(d) \in Nat /\ Len(d) % 2 = 0
        /\ \A j \in 1 .. Len(d) \div 2 :
             \E m \in 1 .. MaxSaves : d[2 * j - 1] = Save(m) /\ d[2 * j] = Rest(m)
    BY WholeByPairs
  <1> HIDE DEF e
  <1> DEFINE h == Len(d) \div 2
  <1>h. h \in Nat /\ Len(d) = 2 * h
    BY <1>2
  <1>3. Len(e) % 2 = 0 /\ Len(e) \div 2 = h + 1
    BY <1>1, <1>h
  <1> HIDE DEF h
  <1>4. ASSUME NEW j \in 1 .. h + 1
        PROVE  \E m \in 1 .. MaxSaves : e[2 * j - 1] = Save(m) /\ e[2 * j] = Rest(m)
    <2>1. CASE j \in 1 .. h
      <3>1. 2 * j - 1 \in 1 .. Len(d) /\ 2 * j \in 1 .. Len(d)
        BY <1>h, <2>1
      <3> QED
        BY <1>1, <1>2, <2>1, <3>1 DEF h
    <2>2. CASE j = h + 1
      <3>1. 2 * j - 1 = Len(d) + 1 /\ 2 * j = Len(d) + 2
        BY <1>h, <2>2
      <3> QED
        BY <1>1, <3>1
    <2> QED
      BY <1>h, <2>1, <2>2
  <1>5. e \in Seq(Chunk) /\ Whole(e)
    BY <1>1, <1>3, <1>4, WholeByPairs
  <1> QED
    BY <1>5 DEF e

\* What is added to a file leaves it as a prefix.
LEMMA PrefixKept ==
  ASSUME NEW d \in Seq(Chunk), NEW o \in Seq(Chunk)
  PROVE  IsPrefix(d, d) /\ IsPrefix(d, d \o o)
  <1>1. Len(d) \in Nat /\ Len(o) \in Nat /\ Len(d \o o) = Len(d) + Len(o)
    BY ConcatProperties
  <1>2. SubSeq(d, 1, Len(d)) = SubSeq(d \o o, 1, Len(d))
    <2>1. CASE Len(d) = 0
      BY <2>1, SubSeqEmpty
    <2>2. CASE Len(d) # 0
      <3>1. 1 \in 1 .. Len(d) /\ Len(d) \in 1 .. Len(d)
        BY <1>1, <2>2
      <3> QED
        BY <3>1, SubSeqOfConcat1
    <2> QED
      BY <2>1, <2>2
  <1> QED
    BY <1>1, <1>2 DEF IsPrefix

\* Writing the next chunk at the end of the file leaves the file and what is
\* still to be written, together, what they were.
LEMMA NextChunk ==
  ASSUME NEW d \in Seq(Chunk), NEW o \in Seq(Chunk), o # <<>>
  PROVE  LET n == Len(d) + 1
             e == [j \in 1 .. n |-> IF j = n THEN Head(o) ELSE IF j <= Len(d) THEN d[j] ELSE Hole]
         IN  e \in Seq(Chunk) /\ Len(e) = n /\ e \o Tail(o) = d \o o
  <1> DEFINE n == Len(d) + 1
             e == [j \in 1 .. n |-> IF j = n THEN Head(o) ELSE IF j <= Len(d) THEN d[j] ELSE Hole]
  <1>1. e = Append(d, Head(o))
    BY HeadTailProperties
  <1>2. e = d \o <<Head(o)>> /\ e \in Seq(Chunk) /\ Len(e) = n
    BY <1>1, HeadTailProperties, AppendProperties, AppendIsConcat
  <1>3. o = <<Head(o)>> \o Tail(o)
    <2>1. /\ Head(o) = o[1] /\ Head(o) \in Chunk /\ Tail(o) \in Seq(Chunk)
          /\ Len(Tail(o)) = Len(o) - 1 /\ \A i \in 1 .. Len(o) - 1 : Tail(o)[i] = o[i + 1]
      BY HeadTailProperties
    <2>2. /\ <<Head(o)>> \o Tail(o) \in Seq(Chunk) /\ Len(<<Head(o)>> \o Tail(o)) = Len(o)
          /\ \A i \in 1 .. Len(o) : (<<Head(o)>> \o Tail(o))[i] = o[i]
      BY <2>1, ConcatProperties, <<Head(o)>> \in Seq(Chunk)
    <2> QED
      BY <2>2, SeqEqual
  <1>4. (d \o <<Head(o)>>) \o Tail(o) = d \o (<<Head(o)>> \o Tail(o))
    BY ConcatAssociative, HeadTailProperties, <<Head(o)>> \in Seq(Chunk)
  <1> QED
    BY <1>2, <1>3, <1>4

-----------------------------------------------------------------------------
(***************************************************************************)
(* The inductive invariant.  The lock makes the process that has it the    *)
(* only one: FILE.tmp is the file it writes, and what is in it and what    *)
(* the process has still to write are, together, a whole file that begins  *)
(* with what FILE has.                                                     *)
(***************************************************************************)

\* Only a process that has the lock does anything with the file.
Alone ==
  /\ \A p \in Proc : lock[p] = IF pc[p] = "idle" THEN "none" ELSE "ex"
  /\ \A p, q \in Proc : pc[p] # "idle" /\ pc[q] # "idle" => p = q

\* FILE.tmp, which a process that died may have left, is never FILE.
Apart == tmp = NoInode \/ tmp # name

\* d would do as the new contents of FILE.
Successor(d) ==
  /\ Whole(d)
  /\ name # NoInode /\ KeepsOld => IsPrefix(data[name], d)

\* What the process that replaces the file has done so far.
SaveProgress ==
  \A p \in Proc :
    /\ pc[p] = "writing" =>
         /\ fd[p] = tmp /\ tmp \in Inode /\ pos[p] = Len(data[tmp])
         /\ Successor(data[tmp] \o out[p])
    /\ pc[p] = "rename" => tmp \in Inode /\ Successor(data[tmp])

SaveInv == SaveTypeOK /\ Alone /\ Apart /\ WholeFile /\ SaveProgress

LEMMA InitSaveInv == SaveInit => SaveInv
  <1> SUFFICES ASSUME SaveInit PROVE SaveInv
    OBVIOUS
  <1>1. SaveTypeOK
    BY FileSaveAssumption DEF SaveInit, SaveTypeOK, RW!RWInit, FileSaveAssumption, Chunk
  <1> QED
    BY <1>1 DEF SaveInit, SaveInv, Alone, Apart, WholeFile, SaveProgress, RW!RWInit

\* A process that leaves: the others, which are idle, see no difference.
LEMMA LeaveSaveInv ==
  ASSUME SaveInv, NEW p \in Proc, pc[p] # "idle", Leave(p), UNCHANGED <<name, data, saves>>,
         tmp' \in {tmp, NoInode}
  PROVE  SaveInv'
  <1> USE DEF SaveInv
  <1>1. SaveTypeOK'
    BY FileSaveAssumption DEF Leave, Goto, SaveTypeOK, FileSaveAssumption
  <1>2. \A q \in Proc : pc'[q] = "idle"
    BY DEF Leave, Goto, SaveTypeOK, Alone
  <1>3. Alone'
    BY <1>2 DEF Leave, Goto, SaveTypeOK, Alone
  <1>4. Apart' /\ WholeFile' /\ SaveProgress'
    BY <1>2 DEF SaveTypeOK, Apart, WholeFile, SaveProgress
  <1> QED
    BY <1>1, <1>3, <1>4

LEMMA StepSaveInv == Locked /\ SaveInv /\ [SaveNext]_savevars => SaveInv'
<1> SUFFICES ASSUME Locked, SaveInv, [SaveNext]_savevars PROVE SaveInv'
  OBVIOUS
<1> USE FileSaveAssumption DEF SaveInv, FileSaveAssumption
<1>1. ASSUME NEW p \in Proc, Start(p) PROVE SaveInv'
  <2>1. /\ pc[p] = "idle" /\ pc' = [pc EXCEPT ![p] = "start"]
        /\ lock[p] = "none" /\ lock' = [lock EXCEPT ![p] = "ex"]
        /\ \A q \in Proc \ {p} : lock[q] = "none"
        /\ UNCHANGED <<name, tmp, data, fd, pos, out, saves>>
    BY <1>1 DEF Start, Goto, RW!Acquire, RW!Compatible
  <2>2. SaveTypeOK'
    BY <2>1 DEF SaveTypeOK
  <2>3. Alone'
    BY <2>1 DEF SaveTypeOK, Alone
  <2>4. Apart' /\ WholeFile' /\ SaveProgress'
    BY <2>1 DEF SaveTypeOK, Apart, WholeFile, SaveProgress, Successor
  <2> QED
    BY <2>2, <2>3, <2>4
<1>2. ASSUME NEW p \in Proc, Open(p) PROVE SaveInv'
  <2> DEFINE old == IF KeepsOld /\ name # NoInode THEN data[name] ELSE <<>>
             new == old \o New(saves + 1)
  <2>1. /\ pc[p] = "start" /\ saves + 1 \in 1 .. MaxSaves /\ saves' = saves + 1
        /\ pc' = [pc EXCEPT ![p] = "writing"] /\ fd' = [fd EXCEPT ![p] = tmp']
        /\ data' = [data EXCEPT ![tmp'] = <<>>]
        /\ pos' = [pos EXCEPT ![p] = 0] /\ out' = [out EXCEPT ![p] = new]
        /\ UNCHANGED <<lock, name>>
    BY <1>2 DEF Open, Goto, SaveTypeOK
  <2>2. tmp' \in Inode /\ tmp' # name
    BY <1>2 DEF Open, Used, SaveTypeOK, Apart
  <2>3. old \in Seq(Chunk) /\ Whole(old)
    BY WholeEmpty DEF SaveTypeOK, WholeFile
  <2>4. new \in Seq(Chunk) /\ Whole(new) /\ IsPrefix(old, new)
    <3>1. new \in Seq(Chunk) /\ Whole(new)
      BY <2>1, <2>3, WholeAdded
    <3>2. IsPrefix(old, new)
      BY <2>1, <2>3, NewType, PrefixKept
    <3> QED
      BY <3>1, <3>2
  <2>5. <<>> \o new = new
    BY <2>4, ConcatEmptySeq
  <2> HIDE DEF new
  <2>6. SaveTypeOK'
    BY <2>1, <2>2, <2>4 DEF SaveTypeOK
  <2>7. Alone'
    BY <2>1 DEF SaveTypeOK, Alone
  <2>8. Apart' /\ WholeFile'
    BY <2>1, <2>2 DEF SaveTypeOK, Apart, WholeFile
  <2>9. name' # NoInode => data'[name'] = data[name]
    BY <2>1, <2>2 DEF SaveTypeOK
  <2>10. Whole(new) /\ (name' # NoInode /\ KeepsOld => IsPrefix(data'[name'], new))
    BY <2>1, <2>4, <2>9
  <2>11. SaveProgress'
    BY <2>1, <2>2, <2>5, <2>10 DEF SaveTypeOK, Alone, SaveProgress, Successor
  <2> QED
    BY <2>6, <2>7, <2>8, <2>11
<1>3. ASSUME NEW p \in Proc, Write(p) PROVE SaveInv'
  <2>1. /\ pc[p] = "writing" /\ out[p] # <<>> /\ fd[p] = tmp /\ tmp \in Inode
        /\ pos[p] = Len(data[tmp]) /\ tmp # name /\ Successor(data[tmp] \o out[p])
    BY <1>3 DEF Write, SaveProgress, Apart
  <2> DEFINE d == data[tmp]
             n == Len(d) + 1
             e == [j \in 1 .. n |-> IF j = n THEN Head(out[p]) ELSE IF j <= Len(d) THEN d[j] ELSE Hole]
  <2>2. d \in Seq(Chunk) /\ out[p] \in Seq(Chunk) /\ Len(d) \in Nat
    BY <2>1 DEF SaveTypeOK
  <2>3. e \in Seq(Chunk) /\ Len(e) = n /\ e \o Tail(out[p]) = d \o out[p] /\ Tail(out[p]) \in Seq(Chunk)
    BY <2>1, <2>2, NextChunk, HeadTailProperties
  <2>4. /\ data' = [data EXCEPT ![tmp] = e]
        /\ pos' = [pos EXCEPT ![p] = n] /\ out' = [out EXCEPT ![p] = Tail(@)]
        /\ UNCHANGED <<pc, lock, name, tmp, fd, saves>>
    <3> DEFINE len == IF n > Len(d) THEN n ELSE Len(d)
    <3>1. len = n
      BY <2>2
    <3>2. data' = [data EXCEPT ![tmp] =
                     [j \in 1 .. len |-> IF j = n THEN Head(out[p])
                                         ELSE IF j <= Len(d) THEN d[j] ELSE Hole]]
      BY <1>3, <2>1 DEF Write
    <3>3. /\ pos' = [pos EXCEPT ![p] = n] /\ out' = [out EXCEPT ![p] = Tail(@)]
          /\ UNCHANGED <<pc, lock, name, tmp, fd, saves>>
      BY <1>3, <2>1 DEF Write
    <3> QED
      BY <3>1, <3>2, <3>3
  <2> HIDE DEF e
  <2>5. SaveTypeOK'
    BY <2>1, <2>2, <2>3, <2>4 DEF SaveTypeOK
  <2>6. Alone' /\ Apart' /\ WholeFile'
    BY <2>1, <2>4 DEF SaveTypeOK, Alone, Apart, WholeFile
  <2>7. name' # NoInode => data'[name'] = data[name]
    BY <2>1, <2>4 DEF SaveTypeOK
  <2>8. LET both == e \o Tail(out[p])
        IN  Whole(both) /\ (name' # NoInode /\ KeepsOld => IsPrefix(data'[name'], both))
    BY <2>1, <2>3, <2>4, <2>7 DEF Successor
  <2>9. SaveProgress'
    BY <2>1, <2>3, <2>4, <2>8 DEF SaveTypeOK, Alone, SaveProgress, Successor
  <2> QED
    BY <2>5, <2>6, <2>9
<1>4. ASSUME NEW p \in Proc, Close(p) PROVE SaveInv'
  <2>1. /\ pc[p] = "writing" /\ out[p] = <<>> /\ tmp \in Inode /\ Successor(data[tmp] \o out[p])
        /\ fd' = [fd EXCEPT ![p] = NoInode] /\ pc' = [pc EXCEPT ![p] = "rename"]
        /\ UNCHANGED <<lock, name, tmp, data, pos, out, saves>>
    BY <1>4 DEF Close, Goto, SaveProgress
  <2>2. data[tmp] \o out[p] = data[tmp]
    BY <2>1, ConcatEmptySeq DEF SaveTypeOK
  <2>3. SaveTypeOK'
    BY <2>1 DEF SaveTypeOK
  <2>4. Alone' /\ Apart' /\ WholeFile'
    BY <2>1 DEF SaveTypeOK, Alone, Apart, WholeFile
  <2>5. SaveProgress'
    BY <2>1, <2>2 DEF SaveTypeOK, Alone, SaveProgress, Successor
  <2> QED
    BY <2>3, <2>4, <2>5
<1>5. ASSUME NEW p \in Proc, Rename(p) PROVE SaveInv'
  <2>1. /\ pc[p] = "rename" /\ tmp \in Inode /\ Whole(data[tmp])
        /\ name' = tmp /\ tmp' = NoInode /\ pc' = [pc EXCEPT ![p] = "renamed"]
        /\ UNCHANGED <<lock, data, fd, pos, out, saves>>
    BY <1>5 DEF Rename, Goto, SaveProgress, Successor
  <2>2. SaveTypeOK'
    BY <2>1 DEF SaveTypeOK
  <2>3. Alone' /\ Apart' /\ WholeFile'
    BY <2>1 DEF SaveTypeOK, Alone, Apart, WholeFile
  <2>4. SaveProgress'
    BY <2>1 DEF SaveTypeOK, Alone, SaveProgress
  <2> QED
    BY <2>2, <2>3, <2>4
<1>6. ASSUME NEW p \in Proc, Finish(p) \/ WriteFails(p) \/ Crash(p) PROVE SaveInv'
  BY <1>6, LeaveSaveInv DEF Finish, WriteFails, Crash
<1>7. CASE UNCHANGED savevars
  BY <1>7 DEF savevars, SaveTypeOK, Alone, Apart, WholeFile, SaveProgress, Successor
<1> QED
  BY <1>1, <1>2, <1>3, <1>4, <1>5, <1>6, <1>7 DEF SaveNext

\* Every reachable state satisfies the inductive invariant when the file is
\* locked.
THEOREM SaveInvariance ==
  ASSUME Locked
  PROVE  SaveSpec => []SaveInv
<1>1. SaveInv /\ [SaveNext]_savevars => SaveInv'
  BY StepSaveInv
<1> QED
  BY InitSaveInv, <1>1, PTL DEF SaveSpec

\* texthandler.cc:121: whoever crashes or fails while the mbox is written, and
\* however often, what FILE names is made of whole messages.
THEOREM FileIsWhole ==
  ASSUME Locked
  PROVE  SaveSpec => []WholeFile
<1>1. SaveInv => WholeFile
  BY DEF SaveInv
<1> QED
  BY SaveInvariance, <1>1, PTL

\* A file that is there is never gone, and no message is ever lost from it.
THEOREM FileIsKept ==
  ASSUME Locked
  PROVE  SaveSpec => FileStays
<1> DEFINE Kept == name # NoInode =>
                     name' # NoInode /\ (KeepsOld => IsPrefix(data[name], data'[name']))
<1>1. ASSUME SaveInv, SaveNext PROVE Kept
  <2> SUFFICES ASSUME name # NoInode PROVE Kept
    OBVIOUS
  <2>0. name \in Inode /\ IsPrefix(data[name], data[name])
    BY <1>1, PrefixKept DEF SaveInv, SaveTypeOK
  <2>1. ASSUME NEW p \in Proc, Rename(p) PROVE Kept
    BY <1>1, <2>1, FileSaveAssumption
       DEF SaveInv, SaveProgress, Successor, Rename, FileSaveAssumption
  <2>2. ASSUME NEW p \in Proc, Open(p) PROVE Kept
    BY <1>1, <2>0, <2>2 DEF SaveInv, SaveTypeOK, Apart, Open, Used
  <2>3. ASSUME NEW p \in Proc, Write(p) PROVE Kept
    BY <1>1, <2>0, <2>3 DEF SaveInv, SaveTypeOK, Apart, SaveProgress, Write
  <2>4. ASSUME NEW p \in Proc,
               Start(p) \/ Close(p) \/ Finish(p) \/ WriteFails(p) \/ Crash(p)
        PROVE  Kept
    BY <2>0, <2>4 DEF Start, Close, Finish, WriteFails, Crash
  <2> QED
    BY <1>1, <2>1, <2>2, <2>3, <2>4 DEF SaveNext
<1>2. SaveInv /\ [SaveNext]_savevars => [Kept]_savevars
  BY <1>1
<1> QED
  BY SaveInvariance, <1>2, PTL DEF SaveSpec, FileStays

\* The processes use the lock as the class promises it to them: what FileSave
\* does with it is what LockFile implements (see LockRefinement).
THEOREM SaveUsesLock ==
  ASSUME Locked
  PROVE  SaveSpec => RW!RWSpec
<1>1. SaveInit => RW!RWInit
  BY DEF SaveInit
<1>2. ASSUME SaveInv, [SaveNext]_savevars PROVE [RW!RWNext]_lock
  <2>1. ASSUME NEW p \in Proc, Start(p) PROVE RW!RWNext
    BY <2>1 DEF Start, RW!RWNext, RW!Modes
  <2>2. ASSUME NEW p \in Proc, Finish(p) \/ WriteFails(p) \/ Crash(p) PROVE RW!RWNext
    BY <1>2, <2>2 DEF SaveInv, Alone, Finish, WriteFails, Crash, Leave, RW!RWNext, RW!Release
  <2>3. ASSUME NEW p \in Proc, Open(p) \/ Write(p) \/ Close(p) \/ Rename(p) PROVE lock' = lock
    BY <2>3 DEF Open, Write, Close, Rename
  <2> QED
    BY <1>2, <2>1, <2>2, <2>3 DEF SaveNext, savevars
<1> QED
  BY SaveInvariance, <1>1, <1>2, PTL DEF SaveSpec, RW!RWSpec

-----------------------------------------------------------------------------
(* Copies of the file, and merging. *)

LEMMA CopyType ==
  ASSUME NEW s
  PROVE  s \in Copies <=> Known(s) \subseteq Mid /\ s \in [Known(s) -> State]
  BY DEF Copies, Known

LEMMA EmptyType == Empty \in Copies /\ Known(Empty) = {}
  BY CopyType DEF Empty, Known

\* Of two dates of removal insert_full() takes the later one; not to have been
\* removed is earlier than any.
Later(c, d) == IF c = Max1 THEN d ELSE IF d = Max1 THEN c ELSE IF c > d THEN c ELSE d

\* Reading a file into a copy joins the two: what either knows is known
\* afterwards, and every entry has the later of its dates.
THEOREM MergeJoins ==
  ASSUME NEW s \in Copies, NEW f \in Copies
  PROVE  /\ Merged(s, f) \in Copies
         /\ Known(Merged(s, f)) = Known(s) \cup Known(f)
         /\ \A m \in Known(s) \ Known(f) : Merged(s, f)[m] = s[m]
         /\ \A m \in Known(f) \ Known(s) : Merged(s, f)[m] = f[m]
         /\ \A m \in Known(s) \cap Known(f) :
              /\ Merged(s, f)[m].removed = Later(s[m].removed, f[m].removed)
              /\ Merged(s, f)[m] \in {s[m], f[m]}
<1>1. Known(Merged(s, f)) = Known(s) \cup Known(f)
  BY DEF Merged, Known
<1>2. Known(s) \subseteq Mid /\ s \in [Known(s) -> State] /\ Known(f) \subseteq Mid /\ f \in [Known(f) -> State]
  BY CopyType
<1>3. Merged(s, f) \in [Known(s) \cup Known(f) -> State]
  BY <1>2 DEF Merged
<1>4. Merged(s, f) \in Copies
  BY <1>1, <1>2, <1>3, CopyType
<1>5. ASSUME NEW m \in Known(s) \cap Known(f)
      PROVE  /\ Merged(s, f)[m].removed = Later(s[m].removed, f[m].removed)
             /\ Merged(s, f)[m] \in {s[m], f[m]}
  <2>1. s[m].removed \in Time \cup {Max1, Dead} /\ f[m].removed \in Time \cup {Max1, Dead}
    BY <1>2 DEF State
  <2>2. Merged(s, f)[m] = IF KeepsOwn(s[m].removed, f[m].removed) THEN s[m] ELSE f[m]
    BY DEF Merged
  <2> QED
    BY <2>1, <2>2, MidInfoAssumption DEF KeepsOwn, Later, Time, Max1, Dead, MidInfoAssumption
<1> QED
  BY <1>1, <1>4, <1>5 DEF Merged

LEMMA SaveableType ==
  ASSUME NEW s \in Copies
  PROVE  /\ Saveable(s) \in Copies
         /\ Known(Saveable(s)) = {m \in Known(s) : s[m].removed # Dead}
         /\ \A m \in Known(Saveable(s)) : Saveable(s)[m] = s[m]
<1>1. Known(Saveable(s)) = {m \in Known(s) : s[m].removed # Dead}
  BY DEF Saveable, Known
<1>2. Saveable(s) \in [{m \in Known(s) : s[m].removed # Dead} -> State]
  BY CopyType DEF Saveable
<1> QED
  BY <1>1, <1>2, CopyType DEF Saveable

-----------------------------------------------------------------------------
(***************************************************************************)
(* The inductive invariant.  From the moment a process has merged the file *)
(* into its copy until it has renamed, the file cannot change, because it  *)
(* has the exclusive lock; so its copy stays ahead of the file.            *)
(***************************************************************************)

\* Everything in the file f is in the copy s, and as removed or more so.
Ahead(s, f) ==
  \A m \in Known(f) :
    /\ m \in Known(s)
    /\ f[m].removed # Max1 => s[m].removed # Max1 /\ s[m].removed >= f[m].removed

\* The lock belongs to the place in the program.
LockWhere ==
  /\ \A p \in Proc :
       lock[p] = CASE pc[p] = "loading" -> "sh"
                   [] pc[p] \in {"idle", "working"} -> "none"
                   [] OTHER -> "ex"
  /\ \A p, q \in Proc : p # q /\ lock[p] = "ex" => lock[q] = "none"

\* How far a process that saves has got.
MidProgress ==
  \A p \in Proc :
    /\ pc[p] \in {"merged", "written"} => Ahead(states[p], file)
    /\ pc[p] = "written" => newfile = Saveable(states[p])
    /\ pc[p] = "renamed" => file = Saveable(states[p])

MidInv == MidTypeOK /\ LockWhere /\ MidProgress

LEMMA InitMidInv == MidInit => MidInv
  BY EmptyType, MidInfoAssumption
     DEF MidInit, MidInv, MidTypeOK, LockWhere, MidProgress, RW!RWInit, MidPoints, Time, MidInfoAssumption

\* A process that changes only its own copy.
LEMMA WorkMidInv ==
  ASSUME MidInv, NEW p \in Proc, NEW s \in Copies,
         pc[p] \in {"idle", "loading", "working"}, pc' = pc,
         states' = [states EXCEPT ![p] = s], changed' \in [Proc -> BOOLEAN],
         UNCHANGED <<file, newfile, lock, now>>
  PROVE  MidInv'
  BY DEF MidInv, MidTypeOK, LockWhere, MidProgress

\* A process that goes back to the beginning.
LEMMA FinishedMidInv ==
  ASSUME MidInv, NEW p \in Proc, Finished(p), lock' = [lock EXCEPT ![p] = "none"],
         UNCHANGED <<file, newfile, now>>
  PROVE  MidInv'
  BY EmptyType DEF MidInv, MidTypeOK, LockWhere, MidProgress, Finished, Goto, MidPoints

LEMMA StepMidInv == MidInv /\ [MidNext]_midvars => MidInv'
<1> SUFFICES ASSUME MidInv, [MidNext]_midvars PROVE MidInv'
  OBVIOUS
<1> USE MidInfoAssumption DEF MidInv
<1>1. ASSUME NEW p \in Proc, LockToLoad(p) PROVE MidInv'
  BY <1>1 DEF LockToLoad, Goto, RW!Acquire, RW!Compatible, MidTypeOK, LockWhere, MidProgress, MidPoints
<1>2. ASSUME NEW p \in Proc, Load(p) PROVE MidInv'
  <2>1. Merged(Empty, file) \in Copies
    BY EmptyType, MergeJoins DEF MidTypeOK
  <2>2. /\ states' = [states EXCEPT ![p] = Merged(Empty, file)] /\ pc[p] = "loading"
        /\ pc' = [pc EXCEPT ![p] = "working"] /\ lock' = [lock EXCEPT ![p] = "none"]
        /\ UNCHANGED <<changed, file, newfile, now>>
    BY <1>2 DEF Load, Goto, RW!Release
  <2> QED
    BY <2>1, <2>2 DEF MidTypeOK, LockWhere, MidProgress, MidPoints
<1>3. ASSUME NEW p \in Proc, NEW m \in Mid, InsertMid(p, m) PROVE MidInv'
  <2> DEFINE s == [k \in Known(states[p]) \cup {m} |->
                     IF k = m THEN [added |-> now, removed |-> Max1] ELSE states[p][k]]
  <2>1. s \in Copies
    <3>1. Known(s) = Known(states[p]) \cup {m}
      BY DEF Known
    <3>2. states[p] \in Copies /\ now \in Time
      BY DEF MidTypeOK
    <3>3. s \in [Known(states[p]) \cup {m} -> State]
      BY <3>2, CopyType DEF State
    <3> HIDE DEF s
    <3> QED
      BY <3>1, <3>2, <3>3, CopyType
  <2> HIDE DEF s
  <2>2. pc[p] = "working" /\ Change(p, s)
    BY <1>3 DEF InsertMid, s
  <2> QED
    BY <2>1, <2>2, WorkMidInv DEF Change, MidTypeOK
<1>4. ASSUME NEW p \in Proc, NEW m \in Mid, RemoveMid(p, m) PROVE MidInv'
  <2> DEFINE s == [states[p] EXCEPT ![m].removed = Dead]
  <2>1. s \in Copies
    <3>1. states[p] \in Copies /\ m \in Known(states[p])
      BY <1>4 DEF MidTypeOK, RemoveMid
    <3>2. [states[p][m] EXCEPT !.removed = Dead] \in State
      BY <3>1, CopyType DEF State
    <3>3. s \in [Known(states[p]) -> State] /\ Known(s) = Known(states[p])
      BY <3>1, <3>2, CopyType DEF Known
    <3> HIDE DEF s
    <3> QED
      BY <3>1, <3>3, CopyType
  <2> HIDE DEF s
  <2>2. pc[p] = "working" /\ Change(p, s)
    BY <1>4 DEF RemoveMid, s
  <2> QED
    BY <2>1, <2>2, WorkMidInv DEF Change, MidTypeOK
<1>5. ASSUME NEW p \in Proc, NEW gone \in SUBSET Mid, NEW rel \in SUBSET Mid, Flush(p, gone, rel)
      PROVE  MidInv'
  <2> DEFINE s0 == states[p]
             s1 == [m \in Known(s0) |->
                      IF m \in gone THEN [s0[m] EXCEPT !.removed = now] ELSE s0[m]]
             kill == {m \in Known(s1) \ rel : OldEnough(s1[m])}
             s2 == [m \in Known(s1) |->
                      IF m \in kill THEN [s1[m] EXCEPT !.removed = Dead] ELSE s1[m]]
  <2>0. s0 \in Copies /\ now \in Time
    BY DEF MidTypeOK
  <2>1. Known(s1) = Known(s0) /\ s1 \in [Known(s0) -> State]
    BY <2>0, CopyType DEF Known, State
  <2>2. pc[p] = "working" /\ states' = [states EXCEPT ![p] = s2]
        /\ changed' = [changed EXCEPT ![p] = @ \/ kill # {}]
        /\ UNCHANGED <<pc, file, newfile, lock, now>>
    BY <1>5 DEF Flush
  <2> HIDE DEF s1
  <2>3. Known(s2) = Known(s0) /\ s2 \in [Known(s0) -> State]
    BY <2>1 DEF Known, State
  <2>4. s2 \in Copies
    BY <2>0, <2>3, CopyType
  <2>5. changed' \in [Proc -> BOOLEAN]
    BY <2>2 DEF MidTypeOK
  <2> HIDE DEF s2
  <2> QED
    BY <2>2, <2>4, <2>5, WorkMidInv
<1>6. ASSUME NEW p \in Proc, NothingToSave(p) PROVE MidInv'
  <2>1. lock' = [lock EXCEPT ![p] = "none"]
    BY <1>6 DEF NothingToSave, MidTypeOK, LockWhere
  <2> QED
    BY <1>6, <2>1, FinishedMidInv DEF NothingToSave
<1>7. ASSUME NEW p \in Proc, LockToSave(p) PROVE MidInv'
  BY <1>7 DEF LockToSave, Goto, RW!Acquire, RW!Compatible, MidTypeOK, LockWhere, MidProgress, MidPoints
<1>8. ASSUME NEW p \in Proc, Merge(p) PROVE MidInv'
  <2> DEFINE s == Merged(states[p], file)
  <2>0. states[p] \in Copies /\ file \in Copies
    BY DEF MidTypeOK
  <2>1. s \in Copies /\ Ahead(s, file)
    <3>1. /\ s \in Copies /\ Known(s) = Known(states[p]) \cup Known(file)
          /\ \A m \in Known(file) \ Known(states[p]) : s[m] = file[m]
          /\ \A m \in Known(states[p]) \cap Known(file) :
               s[m].removed = Later(states[p][m].removed, file[m].removed)
      BY <2>0, MergeJoins
    <3>2. \A m \in Known(file) : file[m].removed \in Time \cup {Max1, Dead}
      BY <2>0, CopyType DEF State
    <3>3. \A m \in Known(states[p]) : states[p][m].removed \in Time \cup {Max1, Dead}
      BY <2>0, CopyType DEF State
    <3> HIDE DEF s
    <3> QED
      BY <3>1, <3>2, <3>3 DEF Ahead, Later, Time, Max1, Dead, MidInfoAssumption
  <2>2. /\ pc[p] = "saving" /\ pc' = [pc EXCEPT ![p] = "merged"]
        /\ states' = [states EXCEPT ![p] = s] /\ UNCHANGED <<changed, file, newfile, lock, now>>
    BY <1>8 DEF Merge, Goto
  <2> HIDE DEF s
  <2> QED
    BY <2>1, <2>2 DEF MidTypeOK, LockWhere, MidProgress, MidPoints
<1>9. ASSUME NEW p \in Proc, WriteNew(p) PROVE MidInv'
  <2>1. Saveable(states[p]) \in Copies
    BY SaveableType DEF MidTypeOK
  <2> QED
    BY <1>9, <2>1 DEF WriteNew, Goto, MidTypeOK, LockWhere, MidProgress, MidPoints
<1>10. ASSUME NEW p \in Proc, RenameNew(p) PROVE MidInv'
  <2>1. /\ pc[p] = "written" /\ newfile = Saveable(states[p]) /\ lock[p] = "ex"
        /\ file' = newfile /\ newfile' = Empty /\ pc' = [pc EXCEPT ![p] = "renamed"]
        /\ UNCHANGED <<states, changed, lock, now>>
    BY <1>10 DEF RenameNew, Goto, LockWhere, MidProgress
  <2>2. \A m \in Known(file') : file'[m].removed # Dead
    BY <2>1, SaveableType DEF MidTypeOK
  <2>3. MidTypeOK'
    BY <2>1, <2>2, EmptyType DEF MidTypeOK, MidPoints
  <2>4. LockWhere'
    BY <2>1 DEF MidTypeOK, LockWhere
  <2>5. \A q \in Proc \ {p} : pc[q] \in {"idle", "working"} /\ pc'[q] = pc[q]
    BY <2>1 DEF MidTypeOK, LockWhere, MidPoints
  <2>6. MidProgress'
    BY <2>1, <2>5 DEF MidTypeOK, MidProgress
  <2> QED
    BY <2>3, <2>4, <2>6
<1>11. ASSUME NEW p \in Proc, Unlock(p) PROVE MidInv'
  BY <1>11, FinishedMidInv DEF Unlock, RW!Release
<1>12. ASSUME NEW p \in Proc, Die(p) PROVE MidInv'
  BY <1>12, FinishedMidInv DEF Die
<1>13. CASE Tick
  BY <1>13 DEF Tick, MidTypeOK, LockWhere, MidProgress, Time, MidInfoAssumption
<1>14. CASE UNCHANGED midvars
  BY <1>14 DEF midvars, MidTypeOK, LockWhere, MidProgress
<1> QED
  BY <1>1, <1>2, <1>3, <1>4, <1>5, <1>6, <1>7, <1>8, <1>9, <1>10, <1>11, <1>12, <1>13, <1>14
     DEF MidNext

\* Every reachable state satisfies the inductive invariant.
THEOREM MidInvariance == MidSpec => []MidInv
<1>1. MidInv /\ [MidNext]_midvars => MidInv'
  BY StepMidInv
<1> QED
  BY InitMidInv, <1>1, PTL DEF MidSpec

\* Type correctness; and what is to be dropped is in no file.
THEOREM MidTypeCorrect == MidSpec => []MidTypeOK
<1>1. MidInv => MidTypeOK
  BY DEF MidInv
<1> QED
  BY MidInvariance, <1>1, PTL

\* What a process knows is in the file when its destructor has saved it, and
\* what it was told to drop is not.
THEOREM WhatIsSaved == MidSpec => []AllSaved
<1>1. MidInv => AllSaved
  <2> SUFFICES ASSUME MidInv, NEW p \in Proc, pc[p] = "renamed", NEW m \in Known(states[p])
               PROVE  IF states[p][m].removed = Dead THEN m \notin Known(file)
                      ELSE m \in Known(file) /\ file[m] = states[p][m]
    BY DEF AllSaved
  <2>1. file = Saveable(states[p]) /\ states[p] \in Copies
    BY DEF MidInv, MidTypeOK, MidProgress
  <2> QED
    BY <2>1, SaveableType
<1> QED
  BY MidInvariance, <1>1, PTL

\* The step that replaces the file, seen from the file.
LEMMA FileStep ==
  ASSUME MidInv, [MidNext]_midvars
  PROVE  \/ file' = file
         \/ \E p \in Proc : states[p] \in Copies /\ Ahead(states[p], file) /\ file' = Saveable(states[p])
<1>1. ASSUME NEW p \in Proc, RenameNew(p)
      PROVE  states[p] \in Copies /\ Ahead(states[p], file) /\ file' = Saveable(states[p])
  BY <1>1 DEF MidInv, MidTypeOK, MidProgress, RenameNew
<1>2. ASSUME NEW p \in Proc, NEW m \in Mid, InsertMid(p, m) \/ RemoveMid(p, m) PROVE file' = file
  BY <1>2 DEF InsertMid, RemoveMid, Change
<1>3. ASSUME NEW p \in Proc, NEW gone \in SUBSET Mid, NEW rel \in SUBSET Mid, Flush(p, gone, rel)
      PROVE  file' = file
  BY <1>3 DEF Flush
<1>4. ASSUME NEW p \in Proc,
             \/ LockToLoad(p) \/ Load(p) \/ NothingToSave(p) \/ LockToSave(p) \/ Merge(p)
             \/ WriteNew(p) \/ Unlock(p) \/ Die(p)
      PROVE  file' = file
  BY <1>4 DEF LockToLoad, Load, NothingToSave, LockToSave, Merge, WriteNew, Unlock, Die
<1> QED
  BY <1>1, <1>2, <1>3, <1>4 DEF MidNext, Tick, midvars

\* Changelog, v0.13: no update is lost when several ngets save the same midinfo
\* file.  A message-id only leaves it because the process that saves was told
\* to drop it, even if another one put it there after that process had loaded.
THEOREM NoneLost == MidSpec => NothingLost
<1>1. MidInv /\ [MidNext]_midvars =>
        [\A m \in Known(file) \ Known(file') :
           \E p \in Proc : m \in Known(states[p]) /\ states[p][m].removed = Dead]_midvars
  BY FileStep, SaveableType DEF Ahead
<1> QED
  BY MidInvariance, <1>1, PTL DEF MidSpec, NothingLost

\* That an article has gone from the group is never forgotten by a save, and a
\* date of removal never goes back.
THEOREM RemovalNeverUndone == MidSpec => RemovalKept
<1>1. MidInv /\ [MidNext]_midvars =>
        [\A m \in Known(file) \cap Known(file') :
           file[m].removed # Max1 => file'[m].removed \in file[m].removed .. MaxTime]_midvars
  <2> SUFFICES ASSUME MidInv, [MidNext]_midvars, NEW m \in Known(file) \cap Known(file'),
                      file[m].removed # Max1
               PROVE  file'[m].removed \in file[m].removed .. MaxTime
    OBVIOUS
  <2>1. file[m].removed \in Time
    <3>1. file[m] \in State /\ file[m].removed # Dead
      BY CopyType DEF MidInv, MidTypeOK
    <3> QED
      BY <3>1 DEF State
  <2>2. CASE file' = file
    BY <2>1, <2>2, MidInfoAssumption DEF Time, MidInfoAssumption
  <2>3. ASSUME NEW p \in Proc, states[p] \in Copies, Ahead(states[p], file),
               file' = Saveable(states[p])
        PROVE  file'[m].removed \in file[m].removed .. MaxTime
    <3>1. m \in Known(states[p]) /\ states[p][m].removed # Dead /\ file'[m] = states[p][m]
      BY <2>3, SaveableType
    <3>2. states[p][m].removed # Max1 /\ states[p][m].removed >= file[m].removed
      BY <2>3 DEF Ahead
    <3>3. states[p][m].removed \in Time
      BY <2>3, <3>1, <3>2, CopyType DEF State
    <3> QED
      BY <2>1, <3>1, <3>2, <3>3, MidInfoAssumption DEF Time, MidInfoAssumption
  <2> QED
    BY <2>2, <2>3, FileStep
<1> QED
  BY MidInvariance, <1>1, PTL DEF MidSpec, RemovalKept

\* Loading and saving use the lock as the class promises it to them: what
\* MidInfo does with it is what LockFile implements (see LockRefinement).
THEOREM MidUsesLock == MidSpec => RW!RWSpec
<1>1. MidInit => RW!RWInit
  BY DEF MidInit
<1>2. MidInv /\ [MidNext]_midvars => [RW!RWNext]_lock
  <2> SUFFICES ASSUME MidInv, [MidNext]_midvars PROVE RW!RWNext \/ lock' = lock
    OBVIOUS
  <2>1. ASSUME NEW p \in Proc, LockToLoad(p) \/ LockToSave(p) PROVE RW!RWNext
    BY <2>1 DEF LockToLoad, LockToSave, RW!RWNext, RW!Modes
  <2>2. ASSUME NEW p \in Proc, Load(p) \/ Unlock(p) PROVE RW!RWNext
    BY <2>2 DEF Load, Unlock, RW!RWNext
  <2>3. ASSUME NEW p \in Proc, Die(p) PROVE RW!RWNext \/ lock' = lock
    BY <2>3 DEF MidInv, MidTypeOK, Die, RW!RWNext, RW!Release
  <2>4. ASSUME NEW p \in Proc, NEW m \in Mid, InsertMid(p, m) \/ RemoveMid(p, m) PROVE lock' = lock
    BY <2>4 DEF InsertMid, RemoveMid, Change
  <2>5. ASSUME NEW p \in Proc, NEW gone \in SUBSET Mid, NEW rel \in SUBSET Mid, Flush(p, gone, rel)
        PROVE  lock' = lock
    BY <2>5 DEF Flush
  <2>6. ASSUME NEW p \in Proc, NothingToSave(p) \/ Merge(p) \/ WriteNew(p) \/ RenameNew(p) PROVE lock' = lock
    BY <2>6 DEF NothingToSave, Merge, WriteNew, RenameNew
  <2> QED
    BY <2>1, <2>2, <2>3, <2>4, <2>5, <2>6 DEF MidNext, Tick, midvars
<1> QED
  BY MidInvariance, <1>1, <1>2, PTL DEF MidSpec, RW!RWSpec
=============================================================================
