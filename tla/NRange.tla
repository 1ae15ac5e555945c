------------------------------- MODULE NRange -------------------------------
(***************************************************************************)
(* c_nrange (nrange.h, nrange.cc): a set of article numbers kept as a map  *)
(* of disjoint ranges, from the high end of each to its low end.  Numbers  *)
(* are unsigned and wrap at VarMax + 1.  A map is a value here, with the   *)
(* operations of the class as functions of it; MCGroupUpdate checks what   *)
(* they promise, and that what GroupUpdate says of sets of numbers is what *)
(* the code's calls of them do.                                            *)
(***************************************************************************)
EXTENDS Naturals, FiniteSetsExt, Functions

CONSTANT VarMax   \* varmax: ULONG_MAX in the code, a natural number

Number == 0 .. VarMax
Succ(n) == (n + 1) % (VarMax + 1)
Pred(n) == (n + VarMax) % (VarMax + 1)

\* A map r has r[high] = low.
Highs(r) == DOMAIN r
Empty == [k \in {} |-> 0]

\* map::lower_bound, empty standing for end().
AtOrAbove(r, n) == {k \in Highs(r) : k >= n}
LowerBound(r, n) == Min(AtOrAbove(r, n))

Put(r, h, l) == [k \in Highs(r) \cup {h} |-> IF k = h THEN l ELSE r[k]]
Erase(r, ks) == Restrict(r, Highs(r) \ ks)

check(r, n) == AtOrAbove(r, n) # {} /\ r[LowerBound(r, n)] <= n

\* get_total(): the lengths of the ranges added up; the sum wraps.
Length(r, ks) == SumFunctionOnSet([k \in ks |-> k - r[k] + 1], ks) % (VarMax + 1)
Total(r) == Length(r, Highs(r))

low(r)  == r[Min(Highs(r))]

-----------------------------------------------------------------------------
(* The operations, as functions of the map. *)

\* insert(n): n may extend the range above it, the range below it, or both.
Inserted1(r, n) ==
  LET touchesAbove == AtOrAbove(r, n) # {} /\ r[LowerBound(r, n)] = Succ(n)
      touchesBelow == n > 0 /\ n - 1 \in Highs(r)
      h == IF touchesAbove THEN LowerBound(r, n) ELSE n
      l == IF touchesBelow THEN r[n - 1] ELSE n
  IN IF check(r, n) THEN r
     ELSE Put(IF touchesBelow THEN Erase(r, {n - 1}) ELSE r, h, l)

\* insert(l, h): the ranges that end from l - 1 up to but not including h are
\* swallowed; the first range that ends at h or above is extended downwards
\* when it is near enough, and otherwise a new range is made.  reach is how
\* near: l - 1 and h + 1, where these exist.
InsertedNear(r, l, h, l0, h1) ==
  LET above == AtOrAbove(r, h)
      covered == AtOrAbove(r, l0) \ above
      lowest == IF covered = {} THEN l ELSE Min({l, r[Min(covered)]})
  IN IF covered = {} /\ above # {} /\ r[Min(above)] <= l
     THEN r
     ELSE Put(Erase(r, covered),
              IF above # {} /\ r[Min(above)] <= h1 THEN Min(above) ELSE h,
              lowest)

Inserted(r, l, h) ==
  InsertedNear(r, l, h, IF l > 0 THEN l - 1 ELSE l, IF h < VarMax THEN h + 1 ELSE h)

\* What remove(l, h) leaves of the range that ends at k, as high |-> low: what
\* is below l and what is above h.
Below(r, k, l) == IF r[k] < l THEN {<<IF k < l THEN k ELSE l - 1, r[k]>>} ELSE {}
Above(r, k, h) == IF k > h THEN {<<k, IF r[k] > h THEN r[k] ELSE h + 1>>} ELSE {}

\* The ranges in ks are cut, the others are kept.
Cut(r, ks, l, h) ==
  LET left == (UNION {Below(r, k, l) \cup Above(r, k, h) : k \in ks})
              \cup {<<k, r[k]>> : k \in Highs(r) \ ks}
  IN [k \in {e[1] : e \in left} |-> (CHOOSE e \in left : e[1] = k)[2]]

\* remove(l, h): goes down from the first range that ends at h or above.  When
\* there is none it starts from the first that ends at l or above, and so the
\* ranges between that one and h are not visited.
Removed(r, l, h) ==
  LET start == IF AtOrAbove(r, h) # {} THEN LowerBound(r, h) ELSE LowerBound(r, l)
  IN IF AtOrAbove(r, h) = {} /\ AtOrAbove(r, l) = {}
     THEN r
     ELSE Cut(r, {k \in Highs(r) : k <= start}, l, h)

\* clip_to_max_total(num): finds, from the top, the range in which the total
\* reaches num, and removes everything below the num-th number.
Clipped(r, num) ==
  LET total(k) == Length(r, AtOrAbove(r, k))
      enough == {k \in Highs(r) : total(k) >= num}
      newlow == (r[Max(enough)] + (total(Max(enough)) - num)) % (VarMax + 1)
  IN IF enough = {} \/ low(r) = newlow THEN r ELSE Removed(r, low(r), Pred(newlow))

\* invert(r): the gaps of r, from varmin up.
Gaps(r) ==
  LET starts == {0} \cup {k + 1 : k \in Highs(r) \ {VarMax}}
      end(n) == IF AtOrAbove(r, n) = {} THEN VarMax ELSE r[LowerBound(r, n)] - 1
      open == {n \in starts : AtOrAbove(r, n) = {} \/ r[LowerBound(r, n)] # n}
  IN [h \in {end(n) : n \in open} |-> CHOOSE n \in open : end(n) = h]

-----------------------------------------------------------------------------
(* What the operations promise. *)

Members(r) == {n \in Number : \E k \in Highs(r) : r[k] <= n /\ n <= k}

\* There is one map for every set: ranges are not empty, do not overlap and
\* do not touch.  operator== compares maps, and doxover() asks the server for
\* one range at a time.
Canonical(r) ==
  /\ r \in [Highs(r) -> Number] /\ Highs(r) \subseteq Number
  /\ \A k \in Highs(r) : r[k] <= k
  /\ \A j, k \in Highs(r) : j < k => j + 1 < r[k]

MapOf(S) ==
  LET ends == {n \in S : n = VarMax \/ n + 1 \notin S}
  IN [h \in ends |-> Min({l \in S : l .. h \subseteq S})]

\* How cache.cc calls remove(): with one number, with an h that is not above
\* all the ranges, or on a single range.  Called otherwise it does not remove
\* what it is asked to: {1-1, 3-3}.remove(0, 4) leaves 3.
AsCalled(r, l, h) == l = h \/ AtOrAbove(r, h) # {} \/ Cardinality(Highs(r)) <= 1

\* The num highest members of S.  In two cases the arithmetic wraps and
\* nothing goes: the length of the whole range of numbers is 0, and after
\* VarMax comes 0.
Wraps(S, num) == S = Number \/ (num = 0 /\ {0, VarMax} \subseteq S)
Highest(S, num) == IF Wraps(S, num) THEN S ELSE {n \in S : Cardinality({m \in S : m > n}) < num}

\* Each operation turns the map of a set into the map of the set its name
\* says, over the whole width of the numbers, their ends included; check() and
\* get_total() answer for the set.
OperationsRight ==
  \A S \in SUBSET Number :
    LET r == MapOf(S)
    IN /\ Canonical(r) /\ Members(r) = S
       /\ Total(r) = Cardinality(S) % (VarMax + 1)
       /\ Gaps(r) = MapOf(Number \ S)
       /\ \A n \in Number :
            /\ check(r, n) <=> n \in S
            /\ Inserted1(r, n) = MapOf(S \cup {n})
            /\ S # {} => Clipped(r, n) = MapOf(Highest(S, n))
       /\ \A l, h \in Number : l <= h =>
            /\ Inserted(r, l, h) = MapOf(S \cup l .. h)
            /\ AsCalled(r, l, h) => Removed(r, l, h) = MapOf(S \ (l .. h))
=============================================================================
