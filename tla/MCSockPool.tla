----------------------------- MODULE MCSockPool -----------------------------
(***************************************************************************)
(* NntpSession over SockPool with three servers and room for two           *)
(* connections, two strikes, a penalty that doubles, and two groups.       *)
(***************************************************************************)
EXTENDS NntpSession, TLC

CONSTANTS s1, s2, s3, g1, g2

Three == {s1, s2, s3}
Groups == {g1, g2}

Symmetry == Permutations(Server) \cup Permutations(Group)
=============================================================================
