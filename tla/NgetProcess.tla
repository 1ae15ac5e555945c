---------------------------- MODULE NgetProcess ----------------------------
(***************************************************************************)
(* The nget processes on one host, each at some point of its program: they *)
(* share nothing but the files they lock.                                  *)
(***************************************************************************)
CONSTANT Proc   \* nget processes

VARIABLE pc     \* where each process is

Goto(p, l) == pc' = [pc EXCEPT ![p] = l]
=============================================================================
