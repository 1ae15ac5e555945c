------------------------------ MODULE LockFile ------------------------------
(***************************************************************************)
(* The POSIX variant of c_lockfile (mylockfile.h): an advisory fcntl lock  *)
(* on FILE.locks, which is created on demand and unlinked by the last one  *)
(* to leave.  Creating, locking and unlinking FILE.locks happen behind a   *)
(* gate, the file FILE.locks.locked, made with O_CREAT|O_EXCL and removed  *)
(* again; whoever finds it there sleeps a second and retries.              *)
(*                                                                         *)
(* One step is one system call.  A process is in the constructor (gate,    *)
(* open, setlk, ungate), has the lock (held), or is in the destructor      *)
(* (dgate, dopen, dtest, dunlink, dungate).                                *)
(***************************************************************************)
EXTENDS NgetProcess

CONSTANTS
  Node,         \* identities a file can have; one is reused when nothing refers to it
  NoNode,       \* no file, no descriptor
  Faults,       \* the system calls that may fail: a subset of FaultKinds
  CrashPoints   \* the program points at which a process may be killed

FaultKinds == {"gate", "open", "setlk", "getlk", "unlink"}
Modes      == {"sh", "ex"}

CtorGated == {"open", "setlk", "ungate"}
DtorGated == {"dopen", "dtest", "dunlink", "dungate"}
Points == {"idle", "gate", "held", "dgate", "failed"} \cup CtorGated \cup DtorGated

ASSUME LockFileAssumption ==
  /\ NoNode \notin Node
  /\ Faults \subseteq FaultKinds
  /\ CrashPoints \subseteq Points \ {"idle"}

VARIABLES
  want,    \* the lock its constructor was asked for
  desc,    \* desc[p]: the inode p's descriptor refers to
  lk,      \* lk[p]: the fcntl lock p has on desc[p]; "none" for none
  locks,   \* the inode linked at FILE.locks
  gate     \* whether FILE.locks.locked exists

vars == <<pc, want, desc, lk, locks, gate>>

Init ==
  /\ pc = [p \in Proc |-> "idle"]
  /\ want = [p \in Proc |-> "sh"]
  /\ desc = [p \in Proc |-> NoNode]
  /\ lk = [p \in Proc |-> "none"]
  /\ locks = NoNode
  /\ gate = FALSE

\* Wrong: a shared lock does not keep an exclusive one out.
ConflictExOnly(p, m) ==
  \E q \in Proc \ {p} : desc[q] = desc[p] /\ lk[q] = "ex"

\* fcntl's rule: locks of different processes on the same inode conflict
\* unless both are shared.
Conflict(p, m) ==
  \E q \in Proc \ {p} : desc[q] = desc[p] /\ (lk[q] = "ex" \/ (lk[q] = "sh" /\ m = "ex"))

\* unlink(); a failure is only reported, and the file stays.
Unlinked(file, file1, none) == file1 = none \/ ("unlink" \in Faults /\ file1 = file)

\* An inode no link and no descriptor refers to.
Fresh(i) == i # locks /\ \A q \in Proc : desc[q] # i

-----------------------------------------------------------------------------
(* The constructor. *)

Request(p, m) ==
  /\ pc[p] = "idle"
  /\ want' = [want EXCEPT ![p] = m]
  /\ Goto(p, "gate")
  /\ UNCHANGED <<desc, lk, locks, gate>>

\* Wrong: O_EXCL forgotten, the gate is entered although it is closed.
CtorGateNotExclusive(p) ==
  /\ pc[p] = "gate"
  /\ gate' = TRUE
  /\ Goto(p, "open")
  /\ UNCHANGED <<want, desc, lk, locks>>

\* open(O_CREAT|O_EXCL); while it exists the process sleeps and retries.
CtorGate(p) ==
  /\ pc[p] = "gate"
  /\ ~gate
  /\ gate' = TRUE
  /\ Goto(p, "open")
  /\ UNCHANGED <<want, desc, lk, locks>>

\* open(O_CREAT) of FILE.locks.
CtorOpen(p) ==
  /\ pc[p] = "open"
  /\ IF locks = NoNode THEN locks' \in {i \in Node : Fresh(i)} ELSE locks' = locks
  /\ desc' = [desc EXCEPT ![p] = locks']
  /\ Goto(p, "setlk")
  /\ UNCHANGED <<want, lk, gate>>

\* F_SETLKW sleeps while the lock conflicts, with the gate still closed.
CtorSetlk(p) ==
  /\ pc[p] = "setlk"
  /\ ~Conflict(p, want[p])
  /\ lk' = [lk EXCEPT ![p] = want[p]]
  /\ Goto(p, "ungate")
  /\ UNCHANGED <<want, desc, locks, gate>>

CtorUngate(p) ==
  /\ pc[p] = "ungate"
  /\ Unlinked(gate, gate', FALSE)
  /\ Goto(p, "held")
  /\ UNCHANGED <<want, desc, lk, locks>>

-----------------------------------------------------------------------------
(* The destructor. *)

\* Wrong: the lock is kept until the gate has been passed.
DtorCloseAfterGate(p) ==
  /\ pc[p] = "held"
  /\ Goto(p, "dgate")
  /\ UNCHANGED <<want, desc, lk, locks, gate>>

\* Wrong: the descriptor goes, the lock stays.
DtorCloseKeepsLock(p) ==
  /\ pc[p] = "held"
  /\ desc' = [desc EXCEPT ![p] = NoNode]
  /\ Goto(p, "dgate")
  /\ UNCHANGED <<want, lk, locks, gate>>

\* close() gives the lock up, before the gate is needed.
DtorClose(p) ==
  /\ pc[p] = "held"
  /\ desc' = [desc EXCEPT ![p] = NoNode]
  /\ lk' = [lk EXCEPT ![p] = "none"]
  /\ Goto(p, "dgate")
  /\ UNCHANGED <<want, locks, gate>>

\* Wrong: the destructor looks at FILE.locks without passing the gate.
DtorGateSkipped(p) ==
  /\ pc[p] = "dgate"
  /\ Goto(p, "dopen")
  /\ UNCHANGED <<want, desc, lk, locks, gate>>

DtorGate(p) ==
  /\ pc[p] = "dgate"
  /\ ~gate
  /\ gate' = TRUE
  /\ Goto(p, "dopen")
  /\ UNCHANGED <<want, desc, lk, locks>>

\* open() without O_CREAT: an absent file has been cleaned up by another process.
DtorOpen(p) ==
  /\ pc[p] = "dopen"
  /\ desc' = [desc EXCEPT ![p] = locks]
  /\ Goto(p, IF locks = NoNode THEN "dungate" ELSE "dtest")
  /\ UNCHANGED <<want, lk, locks, gate>>

\* F_GETLK for an exclusive lock, then close().
DtorTest(p) ==
  /\ pc[p] = "dtest"
  /\ Goto(p, IF Conflict(p, "ex") THEN "dungate" ELSE "dunlink")
  /\ desc' = [desc EXCEPT ![p] = NoNode]
  /\ UNCHANGED <<want, lk, locks, gate>>

DtorUnlink(p) ==
  /\ pc[p] = "dunlink"
  /\ Unlinked(locks, locks', NoNode)
  /\ Goto(p, "dungate")
  /\ UNCHANGED <<want, desc, lk, gate>>

DtorUngate(p) ==
  /\ pc[p] = "dungate"
  /\ Unlinked(gate, gate', FALSE)
  /\ Goto(p, "idle")
  /\ UNCHANGED <<want, desc, lk, locks>>

-----------------------------------------------------------------------------
(* Failures. *)

\* A system call fails for good and an ApplicationExFatal is thrown.  The
\* handlers remove the gate first, except that a failing F_GETLK leaves it.
Fail(p) ==
  /\ \/ "gate"  \in Faults /\ pc[p] \in {"gate", "dgate"} /\ UNCHANGED gate
     \/ "open"  \in Faults /\ pc[p] \in {"open", "dopen"} /\ gate' = FALSE
     \/ "setlk" \in Faults /\ pc[p] = "setlk" /\ gate' = FALSE
     \/ "getlk" \in Faults /\ pc[p] = "dtest" /\ UNCHANGED gate
  /\ Goto(p, "failed")
  /\ UNCHANGED <<want, desc, lk, locks>>

\* The process ends, because it failed or because it was killed: the kernel
\* closes its descriptor and drops its lock; the files stay.  Another nget
\* may then run in its place.
Exit(p) ==
  /\ pc[p] \in CrashPoints \cup {"failed"}
  /\ desc' = [desc EXCEPT ![p] = NoNode]
  /\ lk' = [lk EXCEPT ![p] = "none"]
  /\ Goto(p, "idle")
  /\ UNCHANGED <<want, locks, gate>>

-----------------------------------------------------------------------------
Ctor(p) == CtorGate(p) \/ CtorOpen(p) \/ CtorSetlk(p) \/ CtorUngate(p)
Dtor(p) ==
  \/ DtorClose(p) \/ DtorGate(p) \/ DtorOpen(p)
  \/ DtorTest(p) \/ DtorUnlink(p) \/ DtorUngate(p)

Step(p) == (\E m \in Modes : Request(p, m)) \/ Ctor(p) \/ Dtor(p) \/ Fail(p) \/ Exit(p)

Next == \E p \in Proc : Step(p)

Spec == Init /\ [][Next]_vars

\* A process that has started a constructor or a destructor goes on running,
\* and no one keeps the lock forever: the users read or write one file under
\* it.  Nothing is fair about who gets the gate.
Fairness ==
  \A p \in Proc :
    /\ WF_vars(Ctor(p))
    /\ WF_vars(Dtor(p))
    /\ WF_vars(pc[p] = "failed" /\ Exit(p))

FairSpec == Spec /\ Fairness

-----------------------------------------------------------------------------
(* Properties. *)

Gated(p) == pc[p] \in CtorGated \cup DtorGated
HasLock(p) == pc[p] \in {"ungate", "held"}

\* Types, and no process has a lock on a file it has not open.
TypeOK ==
  /\ pc \in [Proc -> Points]
  /\ want \in [Proc -> Modes]
  /\ desc \in [Proc -> Node \cup {NoNode}]
  /\ lk \in [Proc -> Modes \cup {"none"}]
  /\ locks \in Node \cup {NoNode}
  /\ gate \in BOOLEAN
  /\ \A p \in Proc : lk[p] # "none" => desc[p] # NoNode

\* A process whose constructor asked for an exclusive lock and returned is
\* alone, although FILE.locks may be unlinked and made anew while others
\* still have the old one open.
MutualExclusion ==
  \A p, q \in Proc :
    p # q /\ HasLock(p) /\ HasLock(q) => want[p] = "sh" /\ want[q] = "sh"

\* The destructor never unlinks a live locks file (the comment at its head):
\* whoever has the lock has it on the file that is linked at FILE.locks, so
\* that whoever comes next meets it.
LockIsLive == \A p \in Proc : HasLock(p) => desc[p] = locks /\ locks # NoNode

\* Nothing is left behind: when no process is in the class neither file
\* exists.  (As long as nothing fails and nobody is killed.)
CleanedUp == (\A p \in Proc : pc[p] = "idle") => locks = NoNode /\ ~gate

\* The gate is closed only by a process that is on its way to open it.
\* (As long as no process dies between the two.)
GateOwned == gate => \E p \in Proc : Gated(p)

\* Once a process waits in F_SETLKW no other process gets a lock before it
\* does, and so readers that keep coming cannot starve a writer.
NoBarging ==
  [][\A p, q \in Proc :
       p # q /\ pc[q] = "setlk" /\ pc'[q] = "setlk" /\ lk[p] = "none" => lk'[p] = "none"]_vars

\* What a process that dies behind the gate costs: nobody removes the gate
\* of a dead process, so no constructor ever returns again.
StaleGateStays ==
  [][~GateOwned => ~GateOwned' /\ \A p \in Proc : pc[p] # "held" => pc'[p] # "held"]_vars

\* A process does not sleep in F_SETLKW for ever: those who have a conflicting
\* lock can give it up without the gate the sleeper keeps closed, even when
\* somebody has left a stale one.
SetlkServed == \A p \in Proc : pc[p] = "setlk" ~> pc[p] # "setlk"

Promise == INSTANCE RWLock WITH mode <- lk

\* The class is the lock it promises to be, whatever fails or dies.
IsRWLock == Promise!RWSpec
=============================================================================
