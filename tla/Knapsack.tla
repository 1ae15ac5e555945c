------------------------------ MODULE Knapsack ------------------------------
(***************************************************************************)
(* The 0-1 knapsack of knapsack.cc, with which autopar chooses the par2     *)
(* files to download.  An item is an index into values and sizes, sets of   *)
(* items are results.                                                       *)
(***************************************************************************)
EXTENDS Integers, SequencesExt

-----------------------------------------------------------------------------
(* knapsack(). *)

\* V and best before the first item: V[j] is what fits into size j, best[j]
\* the items with which V[j] became better.
NoItems(target) == [V |-> [j \in 0 .. target |-> 0], best |-> [j \in 0 .. target |-> {}]]

Better(t, j, value, size) == j >= size /\ t.V[j - size] + value > t.V[j]

\* One more item.  j runs downwards, and so V[j - size] is without the item.
WithOneMore(t, i, values, sizes) ==
  [V    |-> [j \in DOMAIN t.V |->
               IF Better(t, j, values[i], sizes[i]) THEN t.V[j - sizes[i]] + values[i] ELSE t.V[j]],
   best |-> [j \in DOMAIN t.V |->
               t.best[j] \cup IF Better(t, j, values[i], sizes[i]) THEN {i} ELSE {}]]

Table(values, sizes, target) ==
  FoldLeft(LAMBDA t, i : WithOneMore(t, i, values, sizes),
           NoItems(target), [i \in DOMAIN values |-> i])

\* Going back from <<target, past the last item>>: best[j] holds for an item and
\* those before it.
PickBack(best, sizes, target) ==
  LET Pick[at \in (0 .. target) \X (1 .. Len(sizes) + 1)] ==
        LET before == {i \in best[at[1]] : i < at[2]}
        IN IF at[1] = 0 \/ before = {} THEN {}
           ELSE {Max(before)} \cup Pick[<<at[1] - sizes[Max(before)], Max(before)>>]
  IN Pick[<<target, Len(sizes) + 1>>]

\* The items of the greatest value whose size is at most target.
Most(values, sizes, target) == PickBack(Table(values, sizes, target).best, sizes, target)

-----------------------------------------------------------------------------
(* knapsack_minsize(): what is left when as much as possible is left out. *)

Fewest(values, sizes, target) ==
  LET all == DOMAIN values
      spare == SumFunctionOnSet(values, all) - target
  IN all \ IF spare >= 0 THEN Most(sizes, values, spare) ELSE {}

-----------------------------------------------------------------------------
(* What it is for. *)

Suffices(S, values, target) == SumFunctionOnSet(values, S) >= target

\* S is of the least size that suffices, or everything when nothing does.
IsFewest(S, values, sizes, target) ==
  IF Suffices(DOMAIN values, values, target)
  THEN /\ Suffices(S, values, target)
       /\ \A R \in SUBSET DOMAIN values :
            Suffices(R, values, target) => SumFunctionOnSet(sizes, S) <= SumFunctionOnSet(sizes, R)
  ELSE S = DOMAIN values
=============================================================================
