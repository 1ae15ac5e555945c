--------------------------- MODULE MCGroupUpdate ---------------------------
(***************************************************************************)
(* GroupUpdate with the servers that fullxover is made for.                *)
(***************************************************************************)
EXTENDS GroupUpdate

-----------------------------------------------------------------------------
(* The ranges that are asked for, by the code's own calls. *)

\* c_nrange does what its operations' names say: over numbers of three bits.
ThreeBits == INSTANCE NRange WITH VarMax <- 7
ASSUME RangesRight == ThreeBits!OperationsRight

R == INSTANCE NRange WITH VarMax <- ULongMax
AsRanges(r) == {<<r[h], h>> : h \in DOMAIN r}
WithoutEach(r, held) == FoldSet(LAMBDA n, q : R!Removed(q, n, n), r, held)

\* getxrange(): insert(newlow or low, newhigh), and remove() of each number
\* the cache has, none of which is below low.
ASSUME MissingAsCalled ==
  \A low, newlow \in 0 .. ULongMax, newhigh \in 0 .. MaxArticle :
    \A held \in SUBSET (Article \cap low .. MaxArticle) :
      Missing([NoCache EXCEPT !.held = held, !.low = low], newlow, newhigh)
        = AsRanges(WithoutEach(R!Inserted(R!Empty, IF newlow < low THEN newlow ELSE low, newhigh), held))

\* fullxover=0: insert(high + 1, newhigh) and insert(newlow, low - 1).
ASSUME UnseenAsCalled ==
  \A low, high, newlow, newhigh \in 0 .. MaxArticle :
    LET above == IF high < newhigh THEN R!Inserted(R!Empty, high + 1, newhigh) ELSE R!Empty
        both == IF low > newlow THEN R!Inserted(above, newlow, low - 1) ELSE above
    IN Unseen([NoCache EXCEPT !.low = low, !.high = high], newlow, newhigh)
         = AsRanges(IF high = 0 THEN R!Inserted(R!Empty, newlow, newhigh) ELSE both)

\* LISTGROUP: insert() of each number, clip_to_max_total(), invert().
ASSUME ListedAsCalled ==
  \A S \in SUBSET Article, max \in 0 .. MaxArticle :
    LET r == FoldSet(LAMBDA n, q : R!Inserted1(q, n), R!Empty, S)
        existing == IF S = {} THEN r ELSE R!Clipped(r, max)
    IN /\ AsRanges(existing) = Ranges(Clip(S, max))
       /\ R!Members(R!Gaps(existing)) \cap Article = Article \ Clip(S, max)

-----------------------------------------------------------------------------
(* Servers. *)

MinusOne == -1

\* fullxover=0 is for articles that are added and removed in order; the low
\* mark may lag and nothing is promised about what an empty range is answered.
InOrder ==
  [last |-> 3, adds |-> "above", expires |-> "lowest", lowLags |-> TRUE, zeros |-> TRUE,
   emptyFails |-> FALSE, modes |-> {0, 1, 2}, limits |-> {NoLimit}]

\* fullxover=1 is for articles that are added in any order.
AddedAnywhere ==
  [last |-> 4, adds |-> "any", expires |-> "lowest", lowLags |-> FALSE, zeros |-> FALSE,
   emptyFails |-> TRUE, modes |-> {1, 2}, limits |-> {NoLimit}]

\* fullxover=2 is for articles that are also removed in any order.
AnyOrder ==
  [last |-> 3, adds |-> "any", expires |-> "any", lowLags |-> FALSE, zeros |-> TRUE,
   emptyFails |-> FALSE, modes |-> {2}, limits |-> {0, 2, NoLimit}]

\* maxheaders without LISTGROUP.
Limited ==
  [last |-> 3, adds |-> "any", expires |-> "lowest", lowLags |-> FALSE, zeros |-> FALSE,
   emptyFails |-> FALSE, modes |-> {1}, limits |-> {0, 2, NoLimit}]

AllStyles == {InOrder, AddedAnywhere, AnyOrder, Limited}
=============================================================================
