------------------------------- MODULE RWLock -------------------------------
(***************************************************************************)
(* What c_lockfile (mylockfile.h) promises its users: a constructor that   *)
(* returns has the lock on the file in the mode that was asked for, any    *)
(* number of processes may share it, and a process that has it exclusively *)
(* is alone.  A process gives its lock up in the destructor or by dying.   *)
(* LockFile shows how the POSIX variant of the class keeps this promise.   *)
(***************************************************************************)
CONSTANT Proc   \* the nget processes that use the locked file

Modes == {"sh", "ex"}

VARIABLE mode   \* mode[p]: the lock p has, "none" when it has none

RWInit == mode = [p \in Proc |-> "none"]

Compatible(p, m) ==
  \A q \in Proc \ {p} : mode[q] = "none" \/ (mode[q] = "sh" /\ m = "sh")

Acquire(p, m) ==
  /\ mode[p] = "none"
  /\ Compatible(p, m)
  /\ mode' = [mode EXCEPT ![p] = m]

Release(p) ==
  /\ mode[p] # "none"
  /\ mode' = [mode EXCEPT ![p] = "none"]

RWNext == \E p \in Proc : Release(p) \/ \E m \in Modes : Acquire(p, m)

RWSpec == RWInit /\ [][RWNext]_mode
=============================================================================
