------------------------------ MODULE LockUser ------------------------------
(***************************************************************************)
(* Processes that use a file under the lock c_lockfile promises them       *)
(* (RWLock, which LockFile implements).                                    *)
(***************************************************************************)
EXTENDS NgetProcess

VARIABLE lock   \* the lock each process has on the file

RW == INSTANCE RWLock WITH mode <- lock
=============================================================================
