----------------------------- MODULE MCFileSave -----------------------------
(***************************************************************************)
(* FileSave with two ngets, for an mbox and for a header cache: an inode   *)
(* for FILE, for FILE.tmp and for what each process may still have open.   *)
(***************************************************************************)
EXTENDS FileSave, TLC

CONSTANTS p1, p2, i1, i2, i3, i4

MCProc  == {p1, p2}
MCInode == {i1, i2, i3, i4}

Symmetry == Permutations(MCProc) \cup Permutations(MCInode)
=============================================================================
