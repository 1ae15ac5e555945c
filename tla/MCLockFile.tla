----------------------------- MODULE MCLockFile -----------------------------
(***************************************************************************)
(* LockFile with three processes: two that share or contend and a third    *)
(* that makes FILE.locks anew while the others are inside.  An inode is    *)
(* needed for every open descriptor and one for the next FILE.locks.       *)
(***************************************************************************)
EXTENDS LockFile

CONSTANTS p1, p2, p3, i1, i2, i3, i4

MCProc == {p1, p2, p3}
MCNode == {i1, i2, i3, i4}

\* Processes may be killed anywhere.
AllPoints == Points \ {"idle"}
=============================================================================
