--------------------------- MODULE MCHeaderCache ---------------------------
(***************************************************************************)
(* HeaderCache with two servers and the messages that make additem()       *)
(* decide: the two parts of a binary and a repost of its first part under  *)
(* another message-id.                                                     *)
(***************************************************************************)
EXTENDS HeaderCache

CONSTANTS s1, s2, part1, repost1, part2

MCServer == {s1, s2}
MCMsg    == {part1, repost1, part2}
MCKeyOf  == [m \in MCMsg |-> "binary"]
MCPartOf == [m \in MCMsg |-> IF m = part2 THEN 2 ELSE 1]
MCReqOf  == [k \in {"binary"} |-> 2]

\* The metagroup reader with the caches of three groups: messages of two files,
\* in every order in which they can have been added.
MetaMsg   == MCMsg \cup {"text"}
MetaKeyOf == [m \in MetaMsg |-> IF m = "text" THEN "text" ELSE "binary"]
MetaPart  == [m \in MetaMsg |-> IF m = "text" THEN -1 ELSE MCPartOf[m]]
MetaReq   == [k \in {"binary", "text"} |-> IF k = "text" THEN -1 ELSE 2]

Meta == INSTANCE MetaGroup
          WITH Msg <- MetaMsg, KeyOf <- MetaKeyOf, PartOf <- MetaPart, ReqOf <- MetaReq,
               MaxNum <- 3, KeyOrder <- <<"text", "binary">>

Arrivals == {q \in UNION {[1 .. n -> MetaMsg] : n \in 0 .. 3} : IsInjective(q)}

\* The cache of group n after the messages in q.
CacheOf(q, n) ==
  LET Add(fs, m) == Meta!Added(fs, m, [server |-> s1, num |-> n])
  IN Meta!InOrder(FoldLeft(Add, <<>>, q))

\* Nothing is lost or read twice by reading groups side by side, however their
\* messages arrived, and groups that agree are read as one.
ASSUME MetaReaderRight ==
  \A q1, q2 \in Arrivals : \A q3 \in {q \in Arrivals : Len(q) < 3} :
    LET caches == <<CacheOf(q1, 1), CacheOf(q2, 2), CacheOf(q3, 3)>>
    IN Meta!ReadsAll(caches) /\ Meta!ReadsAsOne(caches)

Symmetry == Permutations(MCServer) \cup Permutations({part1, repost1})
=============================================================================
