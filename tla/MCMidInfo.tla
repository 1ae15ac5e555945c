----------------------------- MODULE MCMidInfo -----------------------------
(***************************************************************************)
(* MidInfo with two processes and two mids: one process has something to   *)
(* save and knows about a mid the other one changes.  Entries are removed  *)
(* at two times; both keeping times are 0, and so an entry is old at the   *)
(* next tick.                                                              *)
(***************************************************************************)
EXTENDS MidInfo, TLC

CONSTANTS p1, p2, a, b

MCProc  == {p1, p2}
TwoMids == {a, b}

Symmetry == Permutations(MCProc) \cup Permutations(TwoMids)
=============================================================================
