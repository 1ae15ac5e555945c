-------------------------- MODULE GroupUpdateProofs --------------------------
(***************************************************************************)
(* Theorems about GroupUpdate for any number of articles and any servers   *)
(* and settings.                                                           *)
(***************************************************************************)
EXTENDS GroupUpdate, FiniteSetTheorems, WellFoundedInduction, TLAPS

-----------------------------------------------------------------------------
(* Least and greatest numbers. *)

LEMMA LeastExists ==
  ASSUME NEW S \in SUBSET Nat, S # {}
  PROVE  \E x \in S : \A y \in S : x <= y
  <1> DEFINE Less == {ss \in Nat \X Nat : ss[1] < ss[2]}
  <1>1. IsWellFoundedOn(Less, Nat)
    BY NatLessThanWellFounded DEF OpToRel
  <1> HIDE DEF Less
  <1>2. PICK x \in S : \A y \in S : ~(<<y, x>> \in Less)
    BY <1>1, WFMin
  <1>3. ASSUME NEW y \in S PROVE x <= y
    <2>1. x \in Nat /\ y \in Nat /\ ~(<<y, x>> \in Less)
      BY <1>2
    <2>2. <<y, x>> \in Nat \X Nat /\ <<y, x>>[1] = y /\ <<y, x>>[2] = x
      BY <2>1
    <2>3. ~(y < x)
      BY <2>1, <2>2 DEF Less
    <2> QED
      BY <2>1, <2>3
  <1> QED
    BY <1>3

LEMMA GreatestExists ==
  ASSUME NEW n \in Nat, NEW S \in SUBSET (0 .. n), S # {}
  PROVE  \E x \in S : \A y \in S : x >= y
  <1> DEFINE T == {k \in Nat : n - k \in S}
  <1>1. PICK s \in S : TRUE
    OBVIOUS
  <1>2. n - s \in T
    OBVIOUS
  <1>3. PICK k \in T : \A j \in T : k <= j
    BY <1>2, LeastExists
  <1>4. ASSUME NEW y \in S PROVE n - k >= y
    <2>1. n - y \in T /\ k \in Nat /\ y \in Nat
      OBVIOUS
    <2>2. k <= n - y
      BY <1>3, <2>1
    <2> QED
      BY <2>1, <2>2
  <1> QED
    BY <1>3, <1>4

LEMMA MinIs ==
  ASSUME NEW S \in SUBSET Nat, S # {}
  PROVE  Min(S) \in S /\ \A y \in S : Min(S) <= y
  BY LeastExists DEF Min

LEMMA MaxIs ==
  ASSUME NEW n \in Nat, NEW S \in SUBSET (0 .. n), S # {}
  PROVE  Max(S) \in S /\ \A y \in S : Max(S) >= y
  BY GreatestExists DEF Max

-----------------------------------------------------------------------------
(* The ranges of a set of numbers. *)

\* The numbers in a range.
In(r) == r[1] .. r[2]

\* The ranges of a set cover it, cover nothing else, and have no number in
\* common.
THEOREM RangesPartition ==
  ASSUME NEW S \in SUBSET (0 .. ULongMax)
  PROVE  /\ \A r \in Ranges(S) : r \in S \X S /\ In(r) \subseteq S
         /\ \A n \in S : \E r \in Ranges(S) : n \in In(r)
         /\ \A r, q \in Ranges(S) : r # q => In(r) \cap In(q) = {}
<1>0. ULongMax \in Nat
  BY GroupUpdateAssumption DEF GroupUpdateAssumption, ULongMax
<1>1. \A r \in Ranges(S) : r \in S \X S /\ In(r) \subseteq S
  BY DEF Ranges, In
<1>2. ASSUME NEW n \in S PROVE \E r \in Ranges(S) : n \in In(r)
  <2> DEFINE A == {x \in 0 .. n : x .. n \subseteq S}
             B == {x \in n .. ULongMax : n .. x \subseteq S}
  <2>0. n \in 0 .. ULongMax /\ n \in A /\ n \in B
    BY <1>0
  <2>1. PICK a \in A : \A y \in A : a <= y
    BY <2>0, LeastExists, A \subseteq Nat
  <2>2. PICK b \in B : \A y \in B : b >= y
    BY <1>0, <2>0, GreatestExists, B \subseteq 0 .. ULongMax
  <2>3. a \in Nat /\ a <= n /\ a .. n \subseteq S /\ b \in Nat /\ n <= b /\ n .. b \subseteq S
    BY <2>0, <1>0
  <2>4. a - 1 \notin S
    <3> SUFFICES ASSUME a - 1 \in S PROVE FALSE
      OBVIOUS
    <3>1. a - 1 \in A
      BY <2>0, <2>3
    <3> QED
      BY <2>1, <2>3, <3>1
  <2>5. b + 1 \notin S
    <3> SUFFICES ASSUME b + 1 \in S PROVE FALSE
      OBVIOUS
    <3>1. b + 1 \in B
      BY <1>0, <2>0, <2>3
    <3> QED
      BY <2>2, <2>3, <3>1
  <2>6. a .. b \subseteq S /\ a \in S /\ b \in S
    BY <2>0, <2>3
  <2>7. <<a, b>> \in Ranges(S)
    BY <2>3, <2>4, <2>5, <2>6 DEF Ranges
  <2> QED
    BY <2>0, <2>3, <2>7 DEF In
<1>3. ASSUME NEW r \in Ranges(S), NEW q \in Ranges(S), NEW n, n \in In(r), n \in In(q)
      PROVE  r = q
  <2>1. /\ r \in S \X S /\ In(r) \subseteq S /\ r[1] - 1 \notin S /\ r[2] + 1 \notin S
        /\ q \in S \X S /\ In(q) \subseteq S /\ q[1] - 1 \notin S /\ q[2] + 1 \notin S
    BY DEF Ranges, In
  <2>2. r[1] \in Nat /\ r[2] \in Nat /\ q[1] \in Nat /\ q[2] \in Nat /\ n \in Nat
    BY <1>0, <1>3, <2>1, S \subseteq Nat DEF In
  <2>3. r[1] <= n /\ n <= r[2] /\ q[1] <= n /\ n <= q[2]
    BY <1>3, <2>2 DEF In
  <2>4. r[1] = q[1]
    <3>1. ~(r[1] < q[1])
      BY <2>1, <2>2, <2>3 DEF In
    <3>2. ~(q[1] < r[1])
      BY <2>1, <2>2, <2>3 DEF In
    <3> QED
      BY <2>2, <3>1, <3>2
  <2>5. r[2] = q[2]
    <3>1. ~(r[2] < q[2])
      BY <2>1, <2>2, <2>3 DEF In
    <3>2. ~(q[2] < r[2])
      BY <2>1, <2>2, <2>3 DEF In
    <3> QED
      BY <2>2, <3>1, <3>2
  <2> QED
    BY <2>1, <2>4, <2>5
<1> QED
  BY <1>1, <1>2, <1>3

-----------------------------------------------------------------------------
(* The inductive invariant. *)

\* A range that has still to be read, and the number of an article that an
\* update may still bring.
Coming(n) == n \in lines \/ \E r \in asked : n \in In(r)

\* The server: when the lowest article is always the one that is removed, all
\* removed ones are below all others.
RemovedBelow == style.expires = "lowest" => \A x \in used \ arts, a \in arts : x < a

\* A server's part of a cache: its headers are between low and high, there are
\* none when low is 0 (flush() could not remove them), and they are of articles
\* that the server has or had.
Sound(c) ==
  /\ \A n \in c.held : c.low <= n /\ n <= c.high
  /\ c.low = 0 => c.held = {}
  /\ c.held \subseteq used /\ c.high <= Highest(used)
  /\ c.high # 0 => c.low <= Highest(used) + 1

\* What fullxover=0 relies on: no article up to high is missing.
UpToHigh(c) == 0 \in style.modes => \A n \in arts : n <= c.high => n \in c.held

\* The ranges that are asked for have no number in common, the replies come in
\* the order of the numbers, and they bring no header that the cache has.
Asking ==
  /\ phase # "fetch" => asked = {} /\ lines = {}
  /\ phase = "list" => marks[1] <= Highest(used) + 1
  /\ \A r, q \in asked : r # q => In(r) \cap In(q) = {}
  /\ \A n \in lines, r \in asked : \A k \in In(r) : n < k
  /\ \A n \in cache.held : ~Coming(n)
  /\ cache.low = 0 => \A n \in Article : ~Coming(n)
  /\ lines \subseteq used /\ \A r \in asked : r[2] <= Highest(used)

\* What an update is to bring is there or is coming; only articles added
\* since it began are not part of it, and with fullxover=0 they are above
\* everything that is coming.
Bringing ==
  /\ offer \subseteq used
  /\ phase = "fetch" => \A n \in offer \cap arts : n \in cache.held \/ Coming(n)
  /\ 0 \in style.modes => \A m \in arts \ offer :
       (\A n \in lines : n < m) /\ (\A r \in asked : r[2] < m)

\* What an update leaves is alive, and is within maxheaders.
ExpiresFollowed ==
  \/ style.modes = {2}
  \/ style.expires = "lowest" /\ ~style.lowLags /\ ~style.zeros

Leaving ==
  /\ phase # "idle" => arts \subseteq alive
  /\ phase = "fetch" => lines \subseteq alive
  /\ phase = "fetch" /\ ExpiresFollowed => cache.held \subseteq alive

Within ==
  phase = "fetch" /\ limit # NoLimit /\ 0 \notin style.modes =>
    \E W \in SUBSET Article :
      /\ Cardinality(W) <= limit /\ cache.held \subseteq W
      /\ \A n \in Article : Coming(n) => n \in W

IInv ==
  /\ TypeOK /\ RemovedBelow /\ Sound(cache) /\ Sound(saved) /\ Asking
  /\ Leaving

\* The settings for which what is promised holds: fullxover=0 is used with
\* servers that number articles in order, without maxheaders.
InOrderSettings ==
  \A s \in Styles : 0 \in s.modes => s.adds = "above" /\ s.limits \subseteq {NoLimit}

\* With fullxover=1 and maxheaders, a server does not report a group without
\* articles as 0 0 0: the headers would stay, however many they are.
LimitedSettings ==
  \A s \in Styles : s.zeros /\ 0 \notin s.modes /\ ~(s.limits \subseteq {NoLimit}) => s.modes \subseteq {2}

-----------------------------------------------------------------------------
(* The operators of the model. *)

USE DEF Article

LEMMA Numbers == /\ MaxArticle \in Nat \ {0} /\ ULongMax = MaxArticle + 1 /\ ULongMax \in Nat
                 /\ NoLimit = -1
  BY GroupUpdateAssumption DEF GroupUpdateAssumption, ULongMax

LEMMA StyleIs ==
  ASSUME TypeOK
  PROVE  /\ style \in Styles /\ style.last \in Article
         /\ style.limits \subseteq 0 .. MaxArticle \cup {NoLimit}
         /\ used \subseteq Article /\ arts \subseteq used
<1>1. style \in Styles /\ used \subseteq 1 .. style.last /\ arts \subseteq used
  BY DEF TypeOK
<1>2. style \in Style
  BY <1>1, GroupUpdateAssumption DEF GroupUpdateAssumption
<1>3. style.last \in Article /\ style.limits \subseteq 0 .. MaxArticle \cup {NoLimit}
  BY <1>2 DEF Style
<1> QED
  BY <1>1, <1>3, Numbers

LEMMA HighestIs ==
  ASSUME NEW S \in SUBSET Article
  PROVE  /\ Highest(S) \in S \cup {0} /\ Highest(S) \in 0 .. MaxArticle
         /\ \A n \in S : n <= Highest(S)
  <1>1. S \cup {0} \in SUBSET (0 .. MaxArticle) /\ S \cup {0} # {}
    BY Numbers
  <1> QED
    BY <1>1, MaxIs, Numbers DEF Highest

LEMMA LowestIs ==
  ASSUME NEW S \in SUBSET Article
  PROVE  /\ Lowest(S) \in S \cup {ULongMax} /\ Lowest(S) \in 1 .. ULongMax
         /\ \A n \in S : Lowest(S) <= n
  <1> DEFINE T == S \cup {ULongMax}
  <1>1. T \in SUBSET Nat /\ T # {} /\ T \subseteq 1 .. ULongMax
    BY Numbers
  <1>2. Lowest(S) = Min(T)
    BY DEF Lowest
  <1> QED
    BY <1>1, <1>2, MinIs

LEMMA LowestAmong ==
  ASSUME NEW S \in SUBSET Article, S # {}
  PROVE  Lowest(S) \in S
  <1>1. PICK n \in S : TRUE
    OBVIOUS
  <1>2. Lowest(S) <= n /\ Lowest(S) \in S \cup {ULongMax} /\ n \in 1 .. MaxArticle
    BY LowestIs
  <1> QED
    BY <1>2, Numbers

LEMMA HighestGrows ==
  ASSUME NEW S \in SUBSET Article, NEW n \in Article
  PROVE  Highest(S) <= Highest(S \cup {n}) /\ n <= Highest(S \cup {n})
  <1>1. S \cup {n} \in SUBSET Article
    OBVIOUS
  <1>2. Highest(S) \in S \cup {0} /\ Highest(S \cup {n}) \in 0 .. MaxArticle /\ n \in Nat
    BY <1>1, HighestIs
  <1>3. \A k \in S \cup {n} : k <= Highest(S \cup {n})
    BY <1>1, HighestIs
  <1>4. Highest(S) <= Highest(S \cup {n})
    <2>1. CASE Highest(S) \in S
      BY <1>3, <2>1
    <2>2. CASE Highest(S) = 0
      BY <1>2, <2>2, Numbers
    <2> QED
      BY <1>2, <2>1, <2>2
  <1>5. n <= Highest(S \cup {n})
    BY <1>3
  <1> QED
    BY <1>4, <1>5

\* What GROUP reports encloses the articles.
LEMMA MarksAre ==
  ASSUME TypeOK, NEW m \in Marks
  PROVE  /\ m \in (0 .. ULongMax) \X (0 .. MaxArticle) /\ m[2] <= Highest(used)
         /\ m[1] = 0 => m[2] = 0
         /\ m[1] <= Highest(used) + 1
         /\ \A n \in arts : m[1] <= n /\ n <= m[2]
         /\ (m = <<0, 0>> /\ style.zeros) \/ m[2] = Highest(used)
         /\ ~style.lowLags /\ ~style.zeros =>
              m[1] = IF arts = {} THEN Highest(used) + 1 ELSE Lowest(arts)
<1> DEFINE low == IF arts = {} THEN Highest(used) + 1 ELSE Lowest(arts)
<1>1. used \in SUBSET Article /\ arts \in SUBSET used
  BY StyleIs
<1>2. Highest(used) \in 0 .. MaxArticle /\ \A n \in used : n <= Highest(used)
  BY <1>1, HighestIs
<1>3. low \in 1 .. ULongMax /\ low <= Highest(used) + 1 /\ \A n \in arts : low <= n
  <2>1. CASE arts = {}
    BY <1>2, <2>1, Numbers
  <2>2. CASE arts # {}
    <3>1. arts \in SUBSET Article
      BY <1>1
    <3>2. PICK a \in arts : TRUE
      BY <2>2
    <3>3. /\ Lowest(arts) \in 1 .. ULongMax /\ \A n \in arts : Lowest(arts) <= n
          /\ a \in Article /\ a <= Highest(used)
      BY <1>1, <1>2, <3>1, <3>2, LowestIs
    <3>4. Lowest(arts) <= a
      BY <3>2, <3>3
    <3> QED
      BY <1>2, <2>2, <3>3, <3>4, Numbers
  <2> QED
    BY <2>1, <2>2
<1>4. CASE m \in {<<l, Highest(used)>> : l \in IF style.lowLags THEN 1 .. low ELSE {low}}
  <2>1. PICK l \in IF style.lowLags THEN 1 .. low ELSE {low} : m = <<l, Highest(used)>>
    BY <1>4
  <2>2. l \in 1 .. ULongMax /\ l <= low /\ (~style.lowLags => l = low)
    BY <2>1, <1>3, Numbers
  <2>3. m[1] = l /\ m[2] = Highest(used)
    BY <2>1
  <2> HIDE DEF low
  <2>4. \A n \in arts : l <= n /\ n <= Highest(used)
    BY <1>1, <1>2, <1>3, <2>2, Numbers
  <2>5. l # 0 /\ l <= Highest(used) + 1
    BY <1>2, <1>3, <2>2, Numbers
  <2>6. m \in (0 .. ULongMax) \X (0 .. MaxArticle)
    BY <1>2, <2>1, <2>2
  <2>7. m[2] <= Highest(used)
    BY <1>2, <2>3
  <2>8. ~style.lowLags => m[1] = low
    BY <2>2, <2>3
  <2> QED
    BY <2>3, <2>4, <2>5, <2>6, <2>7, <2>8 DEF low
<1>5. CASE arts = {} /\ style.zeros /\ m = <<0, 0>>
  BY <1>2, <1>5, Numbers
<1> QED
  BY <1>4, <1>5 DEF Marks

LEMMA ClipMarkIs ==
  ASSUME NEW m \in (0 .. ULongMax) \X (0 .. MaxArticle),
         NEW max \in 0 .. MaxArticle \cup {NoLimit}
  PROVE  /\ ClipMark(m, max) \in 0 .. ULongMax /\ m[1] <= ClipMark(m, max)
         /\ max = NoLimit => ClipMark(m, max) = m[1]
         /\ max # NoLimit => m[2] - ClipMark(m, max) + 1 <= max \/ (m[1] = 0 /\ ClipMark(m, max) = 0)
         /\ ClipMark(m, max) <= m[1] \/ ClipMark(m, max) <= m[2] + 1
<1>1. PICK l \in 0 .. ULongMax, h \in 0 .. MaxArticle : m = <<l, h>>
  OBVIOUS
<1>2. m[1] = l /\ m[2] = h
  BY <1>1
<1>3. CASE max # NoLimit /\ h >= max /\ l < h - max + 1
  <2>1. ClipMark(m, max) = h - max + 1
    BY <1>2, <1>3 DEF ClipMark
  <2>2. max \in 0 .. MaxArticle
    BY <1>3
  <2>3. h - max + 1 \in 0 .. ULongMax /\ l <= h - max + 1 /\ h - max + 1 <= h + 1
    BY <1>3, <2>2, Numbers
  <2>4. h - (h - max + 1) + 1 <= max
    BY <2>2, Numbers
  <2> QED
    BY <1>2, <1>3, <2>1, <2>3, <2>4
<1>4. CASE ~(max # NoLimit /\ h >= max /\ l < h - max + 1)
  <2>1. ClipMark(m, max) = l
    BY <1>2, <1>4 DEF ClipMark
  <2>2. max # NoLimit => h - l + 1 <= max \/ l = 0
    <3>1. max # NoLimit => max \in 0 .. MaxArticle
      OBVIOUS
    <3> QED
      BY <1>4, <3>1, Numbers
  <2>3. l <= l /\ l \in 0 .. ULongMax
    BY Numbers
  <2> QED
    BY <1>2, <2>1, <2>2, <2>3
<1> QED
  BY <1>3, <1>4

\* The headers that are left when the server's low mark has moved.
LEMMA FlushedLowIs ==
  ASSUME TypeOK, Sound(cache), NEW low \in 0 .. ULongMax, low <= Highest(used) + 1,
         NEW c, c = IF low > cache.low THEN FlushedLow(cache, low) ELSE cache
  PROVE  /\ c \in Caches /\ Sound(c) /\ c.high = cache.high
         /\ c.held = {n \in cache.held : low <= n}
         /\ c.low \in {low, cache.low} /\ low <= c.low /\ cache.low <= c.low
<1>1. cache \in Caches
  BY DEF TypeOK
<1>2. /\ cache.held \subseteq Article /\ cache.low \in 0 .. ULongMax /\ cache.high \in 0 .. MaxArticle
      /\ cache.saveit \in BOOLEAN
  BY <1>1 DEF Caches
<1>3. CASE low > cache.low
  <2> DEFINE left == cache.held \ (IF cache.low = 0 THEN {} ELSE (0 .. low - 1) \cap (cache.low .. cache.high))
  <2>1. left = {n \in cache.held : low <= n}
    BY <1>2, <1>3, Numbers DEF Sound
  <2> HIDE DEF left
  <2>2. c = [held |-> left, low |-> low, high |-> cache.high, saveit |-> cache.saveit \/ left # cache.held]
    <3>1. c = FlushedLow(cache, low)
      BY <1>3
    <3> QED
      BY <1>1, <3>1 DEF FlushedLow, Flushed, Caches, left
  <2>3. c.held = left /\ c.low = low /\ c.high = cache.high
    BY <2>2
  <2>4. c \in Caches
    <3> DEFINE save == cache.saveit \/ left # cache.held
    <3>1. left \in SUBSET Article /\ low \in 0 .. ULongMax /\ cache.high \in 0 .. MaxArticle
      BY <1>2, <2>1
    <3>2. save \in BOOLEAN
      OBVIOUS
    <3>3. c = [held |-> left, low |-> low, high |-> cache.high, saveit |-> save]
      BY <2>2
    <3> HIDE DEF save
    <3> QED
      BY <3>1, <3>2, <3>3 DEF Caches
  <2>5. Sound(c)
    BY <1>2, <1>3, <2>1, <2>3 DEF Sound
  <2> QED
    BY <1>2, <1>3, <2>1, <2>3, <2>4, <2>5
<1>4. CASE ~(low > cache.low)
  <2>1. c = cache
    BY <1>4
  <2>2. \A n \in cache.held : low <= n
    BY <1>2, <1>4 DEF Sound
  <2> QED
    BY <1>1, <1>2, <1>4, <2>1, <2>2
<1> QED
  BY <1>3, <1>4

\* Ranges that may be asked for while the cache has the headers held: they are
\* apart and have no number in held.
Askable(ranges, held) ==
  /\ ranges \subseteq (0 .. ULongMax) \X (0 .. MaxArticle)
  /\ \A r \in ranges : In(r) \cap held = {}
  /\ \A r, q \in ranges : r # q => In(r) \cap In(q) = {}

\* The numbers of ranges.
All(ranges) == UNION {In(r) : r \in ranges}

LEMMA RangesAre ==
  ASSUME NEW S \in SUBSET (0 .. MaxArticle), NEW held, S \cap held = {}
  PROVE  Askable(Ranges(S), held) /\ All(Ranges(S)) = S /\ \A r \in Ranges(S) : r[1] \in S /\ r[2] \in S
<1>1. S \in SUBSET (0 .. ULongMax) /\ 0 .. MaxArticle \subseteq 0 .. ULongMax
  BY Numbers
<1>2. /\ \A r \in Ranges(S) : r \in S \X S /\ In(r) \subseteq S
      /\ \A n \in S : \E r \in Ranges(S) : n \in In(r)
      /\ \A r, q \in Ranges(S) : r # q => In(r) \cap In(q) = {}
  BY <1>1, RangesPartition
<1>3. Ranges(S) \subseteq (0 .. ULongMax) \X (0 .. MaxArticle)
  BY <1>1, <1>2
<1>4. All(Ranges(S)) = S
  <2> DEFINE R == Ranges(S)
  <2>1. (\A r \in R : In(r) \subseteq S) /\ \A n \in S : \E r \in R : n \in In(r)
    BY <1>2
  <2> HIDE DEF R
  <2>2. UNION {In(r) : r \in R} \subseteq S
    BY ONLY <2>1
  <2>3. S \subseteq UNION {In(r) : r \in R}
    BY ONLY <2>1
  <2> QED BY <2>2, <2>3 DEF R, All
<1> QED
  BY <1>2, <1>3, <1>4 DEF Askable

LEMMA RangesOfIs ==
  ASSUME NEW low \in 0 .. ULongMax, NEW high \in 0 .. MaxArticle,
         NEW held, (low .. high) \cap held = {}
  PROVE  /\ Askable(RangesOf(low, high), held) /\ All(RangesOf(low, high)) = low .. high
         /\ \A r \in RangesOf(low, high) : r[2] <= high
<1>1. CASE low > high
  <2>1. RangesOf(low, high) = {<<low, high>>}
    BY <1>1 DEF RangesOf
  <2>2. In(<<low, high>>) = {} /\ low .. high = {}
    BY <1>1, Numbers DEF In
  <2> QED
    BY <2>1, <2>2, Numbers DEF Askable, All
<1>2. CASE ~(low > high)
  <2>1. RangesOf(low, high) = Ranges(low .. high) /\ low .. high \in SUBSET (0 .. MaxArticle)
    BY <1>2, Numbers DEF RangesOf
  <2> DEFINE S == low .. high
  <2>2. \A n \in S : n <= high
    OBVIOUS
  <2>3. S \in SUBSET (0 .. MaxArticle) /\ S \cap held = {}
    BY <2>1
  <2> HIDE DEF S
  <2>4. Askable(Ranges(S), held) /\ All(Ranges(S)) = S /\ \A r \in Ranges(S) : r[2] \in S
    BY <2>3, RangesAre
  <2> QED
    BY <2>1, <2>2, <2>4 DEF S
<1> QED
  BY <1>1, <1>2

\* getxrange() gives everything from low on that the cache does not have.
LEMMA MissingIs ==
  ASSUME NEW c \in Caches, NEW newlow \in 0 .. ULongMax, NEW newhigh \in 0 .. MaxArticle
  PROVE  /\ Askable(Missing(c, newlow, newhigh), c.held)
         /\ All(Missing(c, newlow, newhigh)) =
              ((IF newlow < c.low THEN newlow ELSE c.low) .. newhigh) \ c.held
         /\ \A r \in Missing(c, newlow, newhigh) : r[2] <= newhigh
<1> DEFINE low == IF newlow < c.low THEN newlow ELSE c.low
<1>1. low \in 0 .. ULongMax /\ c.held \subseteq Article
  BY Numbers DEF Caches
<1>2. CASE low > newhigh
  <2>1. Missing(c, newlow, newhigh) = RangesOf(low, newhigh)
    BY <1>2 DEF Missing
  <2>2. low .. newhigh = {}
    BY <1>1, <1>2, Numbers
  <2> HIDE DEF low
  <2>3. /\ Askable(RangesOf(low, newhigh), c.held) /\ All(RangesOf(low, newhigh)) = low .. newhigh
        /\ \A r \in RangesOf(low, newhigh) : r[2] <= newhigh
    BY <1>1, <2>2, RangesOfIs
  <2> QED
    BY <2>1, <2>2, <2>3 DEF low
<1>3. CASE ~(low > newhigh)
  <2>1. Missing(c, newlow, newhigh) = Ranges((low .. newhigh) \ c.held)
    BY <1>3 DEF Missing
  <2> DEFINE S == (low .. newhigh) \ c.held
  <2>2. S \in SUBSET (0 .. MaxArticle) /\ S \cap c.held = {} /\ \A n \in S : n <= newhigh
    BY <1>1, Numbers
  <2> HIDE DEF S
  <2>3. Askable(Ranges(S), c.held) /\ All(Ranges(S)) = S /\ \A r \in Ranges(S) : r[2] \in S
    BY <2>2, RangesAre
  <2> QED
    BY <2>1, <2>2, <2>3 DEF S, low
<1> QED
  BY <1>2, <1>3

\* With fullxover=0 everything is asked for but what is from low to high.
LEMMA UnseenIs ==
  ASSUME NEW c \in Caches, Sound(c), NEW newlow \in 0 .. ULongMax, NEW newhigh \in 0 .. MaxArticle
  PROVE  /\ Askable(Unseen(c, newlow, newhigh), c.held)
         /\ \A n \in newlow .. newhigh :
              (c.high = 0 \/ n > c.high \/ n < c.low) => n \in All(Unseen(c, newlow, newhigh))
         /\ \A r \in Unseen(c, newlow, newhigh) : r[2] <= newhigh \/ (c.high # 0 /\ r[2] < c.low)
         /\ \A n \in All(Unseen(c, newlow, newhigh)) : n <= newhigh \/ n < c.low
<1>1. c.held \subseteq Article /\ c.low \in 0 .. ULongMax /\ c.high \in 0 .. MaxArticle
  BY DEF Caches
<1>2. CASE c.high = 0
  <2>1. Unseen(c, newlow, newhigh) = RangesOf(newlow, newhigh)
    BY <1>2 DEF Unseen
  <2>2. c.held = {}
    BY <1>1, <1>2, Numbers DEF Sound
  <2>3. /\ Askable(RangesOf(newlow, newhigh), c.held)
        /\ All(RangesOf(newlow, newhigh)) = newlow .. newhigh
        /\ \A r \in RangesOf(newlow, newhigh) : r[2] <= newhigh
    BY <2>2, RangesOfIs
  <2>4. \A n \in newlow .. newhigh : n <= newhigh
    OBVIOUS
  <2> QED
    BY <2>1, <2>3, <2>4
<1>3. CASE c.high # 0
  <2> DEFINE S == (IF c.high < newhigh THEN c.high + 1 .. newhigh ELSE {})
                  \cup (IF c.low > newlow THEN newlow .. c.low - 1 ELSE {})
  <2>1. Unseen(c, newlow, newhigh) = Ranges(S)
    BY <1>3 DEF Unseen
  <2>2. S \cap c.held = {}
    BY <1>1, Numbers DEF Sound
  <2>3. /\ \A n \in S : n <= newhigh \/ n < c.low
        /\ \A n \in newlow .. newhigh : n > c.high \/ n < c.low => n \in S
    BY <1>1, Numbers
  <2>4. S \in SUBSET (0 .. MaxArticle)
    BY <1>1, Numbers
  <2> HIDE DEF S
  <2>5. Askable(Ranges(S), c.held) /\ All(Ranges(S)) = S /\ \A r \in Ranges(S) : r[2] \in S
    BY <2>2, <2>4, RangesAre
  <2> QED
    BY <1>3, <2>1, <2>3, <2>5
<1> QED
  BY <1>2, <1>3

-----------------------------------------------------------------------------
(* The invariant holds. *)

LEMMA InvInit == Init => IInv
<1> SUFFICES ASSUME Init PROVE IInv
  OBVIOUS
<1>1. {} \in SUBSET Article /\ Highest({}) \in 0 .. MaxArticle
  BY HighestIs
<1>2. NoCache \in Caches
  BY Numbers DEF NoCache, Caches
<1>3. TypeOK
  BY <1>2, Numbers DEF Init, TypeOK, NoCache
<1>4. Sound(cache) /\ Sound(saved)
  BY <1>1, Numbers DEF Init, NoCache, Sound
<1> QED
  BY <1>3, <1>4 DEF Init, IInv, RemovedBelow, Asking, Leaving, Coming

\* The choice of what to ask for.
LEMMA GroupAsks ==
  ASSUME IInv, NEW mode \in style.modes, NEW max \in style.limits, NEW m \in Marks,
         NEW low, low = ClipMark(m, max),
         NEW c, c = IF low > cache.low THEN FlushedLow(cache, low) ELSE cache,
         NEW ranges, ranges = IF mode = 0 THEN Unseen(c, low, m[2]) ELSE Missing(c, low, m[2])
  PROVE  /\ low \in 0 .. ULongMax /\ m[1] <= low /\ low <= Highest(used) + 1
         /\ c \in Caches /\ Sound(c) /\ c.high = cache.high /\ low <= c.low
         /\ c.held = {n \in cache.held : low <= n}
         /\ Askable(ranges, c.held)
         /\ \A r \in ranges : r[2] <= Highest(used)
         /\ c.low = 0 => \A n \in All(ranges) : n = 0
         /\ mode # 0 => All(ranges) = (low .. m[2]) \ c.held
<1>1. TypeOK /\ Sound(cache)
  BY DEF IInv
<1>2. /\ m \in (0 .. ULongMax) \X (0 .. MaxArticle) /\ m[2] <= Highest(used)
      /\ m[1] = 0 => m[2] = 0
      /\ m[1] <= Highest(used) + 1
  BY <1>1, MarksAre
<1>3. max \in 0 .. MaxArticle \cup {NoLimit} /\ used \in SUBSET Article
  BY <1>1, StyleIs
<1>4. Highest(used) \in 0 .. MaxArticle
  BY <1>3, HighestIs
<1>5. /\ low \in 0 .. ULongMax /\ m[1] <= low
      /\ low <= m[1] \/ low <= m[2] + 1
  BY <1>2, <1>3, ClipMarkIs
<1>6. m[1] \in Nat /\ m[2] \in 0 .. MaxArticle /\ low \in Nat /\ Highest(used) \in Nat
  BY <1>2, <1>4, <1>5
<1>7. low <= Highest(used) + 1
  BY <1>2, <1>5, <1>6
<1>8. /\ c \in Caches /\ Sound(c) /\ c.high = cache.high
      /\ c.held = {n \in cache.held : low <= n} /\ low <= c.low
  BY <1>1, <1>5, <1>7, FlushedLowIs
<1>9. c.low \in 0 .. ULongMax /\ c.held \subseteq Article
  BY <1>8 DEF Caches
<1>10. c.low = 0 => m[2] = 0
  BY <1>2, <1>5, <1>6, <1>8, <1>9
<1>11. CASE mode = 0
  <2>1. /\ Askable(ranges, c.held)
        /\ \A r \in ranges : r[2] <= m[2] \/ (c.high # 0 /\ r[2] < c.low)
        /\ \A n \in All(ranges) : n <= m[2] \/ n < c.low
    BY <1>5, <1>6, <1>8, <1>11, UnseenIs
  <2>2. ranges \subseteq (0 .. ULongMax) \X (0 .. MaxArticle)
    BY <2>1 DEF Askable
  <2>3. c.high # 0 => c.low <= Highest(used) + 1
    BY <1>8 DEF Sound
  <2>4. \A r \in ranges : r[2] <= Highest(used)
    <3> TAKE r \in ranges
    <3>1. r[2] \in 0 .. MaxArticle
      BY <2>2
    <3> QED
      BY <1>2, <1>6, <1>9, <2>1, <2>3, <3>1
  <2>5. All(ranges) \subseteq Nat
    BY <2>2, Numbers DEF All, In
  <2>6. c.low = 0 => \A n \in All(ranges) : n = 0
    BY <1>10, <2>1, <2>5
  <2> QED
    BY <1>5, <1>7, <1>8, <1>11, <2>1, <2>4, <2>6
<1>12. CASE mode # 0
  <2>1. /\ Askable(ranges, c.held)
        /\ All(ranges) = ((IF low < c.low THEN low ELSE c.low) .. m[2]) \ c.held
        /\ \A r \in ranges : r[2] <= m[2]
    BY <1>5, <1>6, <1>8, <1>12, MissingIs
  <2>2. (IF low < c.low THEN low ELSE c.low) = low
    BY <1>6, <1>8, <1>9
  <2>3. All(ranges) = (low .. m[2]) \ c.held
    BY <2>1, <2>2
  <2>4. ranges \subseteq (0 .. ULongMax) \X (0 .. MaxArticle)
    BY <2>1 DEF Askable
  <2>5. \A r \in ranges : r[2] <= Highest(used)
    <3> TAKE r \in ranges
    <3>1. r[2] \in 0 .. MaxArticle
      BY <2>4
    <3> QED
      BY <1>2, <1>6, <2>1, <3>1
  <2>6. c.low = 0 => \A n \in All(ranges) : n = 0
    BY <1>6, <1>10, <2>3
  <2> QED
    BY <1>5, <1>7, <1>8, <2>1, <2>3, <2>5, <2>6
<1> QED
  BY <1>11, <1>12

\* doxover() begins with ranges that the cache has nothing of.
LEMMA FetchAsks ==
  ASSUME NEW c \in Caches, NEW ranges, Fetch(c, ranges), UNCHANGED used,
         Sound(c), Askable(ranges, c.held), \A r \in ranges : r[2] <= Highest(used),
         c.low = 0 => \A n \in All(ranges) : n = 0
  PROVE  (Sound(cache) /\ Asking)'
<1>1. cache' = c /\ asked' = ranges /\ lines' = {} /\ phase' = "fetch" /\ used' = used
  BY DEF Fetch
<1>2. Sound(cache)'
  BY <1>1 DEF Sound
<1>3. \A n : Coming(n)' <=> n \in All(ranges)
  BY <1>1 DEF Coming, All
<1>4. \A n \in c.held : n \notin All(ranges)
  BY DEF Askable, All
<1>5. c.low = 0 => \A n \in Article : n \notin All(ranges)
  OBVIOUS
<1> QED
  BY <1>1, <1>2, <1>3, <1>4, <1>5 DEF Asking, Askable

LEMMA GroupInv ==
  ASSUME IInv, NEW mode \in style.modes, NEW max \in style.limits, Group(mode, max)
  PROVE  IInv'
<1>0. TypeOK /\ RemovedBelow /\ Sound(cache) /\ Sound(saved) /\ Asking /\ phase = "idle"
  BY DEF IInv, Group
<1>1. PICK m \in Marks :
        /\ marks' = m /\ limit' = max /\ alive' = arts
        /\ IF UsesListgroup(mode, m)
           THEN phase' = "list" /\ UNCHANGED <<cache, asked, lines, offer>>
           ELSE LET low == ClipMark(m, max)
                    c == IF low > cache.low THEN FlushedLow(cache, low) ELSE cache
                IN /\ Fetch(c, IF mode = 0 THEN Unseen(c, low, m[2]) ELSE Missing(c, low, m[2]))
                   /\ offer' = {n \in arts : low <= n /\ n <= m[2]}
  BY DEF Group
<1>2. UNCHANGED <<style, arts, used, saved>>
  BY DEF Group, server
<1>3. /\ m \in (0 .. ULongMax) \X (0 .. MaxArticle)
      /\ m[1] <= Highest(used) + 1
      /\ max \in style.limits \cup {NoLimit} /\ arts \subseteq Article
  BY <1>0, MarksAre, StyleIs
<1>4. Sound(saved)' /\ RemovedBelow'
  BY <1>0, <1>2 DEF Sound, RemovedBelow
<1>5. CASE UsesListgroup(mode, m)
  <2>1. phase' = "list" /\ UNCHANGED <<cache, asked, lines, offer>>
    BY <1>1, <1>5
  <2>2. TypeOK'
    BY <1>0, <1>1, <1>2, <1>3, <2>1 DEF TypeOK
  <2>3. Sound(cache)'
    BY <1>0, <1>2, <2>1 DEF Sound
  <2>4. Asking'
    BY <1>0, <1>1, <1>2, <1>3, <2>1 DEF Asking, Coming
  <2>5. Leaving'
    BY <1>1, <1>2, <2>1 DEF Leaving
  <2> QED
    BY <1>4, <2>2, <2>3, <2>4, <2>5 DEF IInv
<1>6. CASE ~UsesListgroup(mode, m)
  <2> DEFINE low == ClipMark(m, max)
             c == IF low > cache.low THEN FlushedLow(cache, low) ELSE cache
             ranges == IF mode = 0 THEN Unseen(c, low, m[2]) ELSE Missing(c, low, m[2])
  <2>1. Fetch(c, ranges) /\ offer' = {n \in arts : low <= n /\ n <= m[2]}
    BY <1>1, <1>6
  <2>2. /\ low \in 0 .. ULongMax /\ m[1] <= low /\ low <= Highest(used) + 1
        /\ c \in Caches /\ Sound(c) /\ c.high = cache.high /\ low <= c.low
        /\ c.held = {n \in cache.held : low <= n}
        /\ Askable(ranges, c.held)
        /\ \A r \in ranges : r[2] <= Highest(used)
        /\ c.low = 0 => \A n \in All(ranges) : n = 0
    BY GroupAsks
  <2> HIDE DEF low, c, ranges
  <2>3. (Sound(cache) /\ Asking)'
    BY <1>2, <2>1, <2>2, FetchAsks
  <2>4. cache' = c /\ asked' = ranges /\ lines' = {} /\ phase' = "fetch"
    BY <2>1 DEF Fetch
  <2>5. ranges \subseteq (0 .. ULongMax) \X (0 .. MaxArticle)
    BY <2>2 DEF Askable
  <2>6. TypeOK'
    BY <1>0, <1>1, <1>2, <1>3, <2>1, <2>2, <2>4, <2>5 DEF TypeOK
  <2>7. ExpiresFollowed => c.held \subseteq arts
    <3>1. cache.held \subseteq used /\ \A n \in cache.held : cache.low <= n /\ n <= cache.high
      BY <1>0 DEF Sound
    <3>2. /\ cache.held \subseteq Nat /\ cache.low \in Nat /\ cache.high \in Nat
          /\ m[1] \in Nat /\ low \in Nat /\ used \in SUBSET Article /\ arts \in SUBSET Article
          /\ Highest(used) \in Nat
      BY <1>0, <1>3, <2>2, StyleIs, HighestIs, Numbers DEF TypeOK, Caches
    <3>3. CASE style.modes = {2}
      <4>1. cache.high = 0 \/ cache.high < m[1]
        BY <1>6, <3>2, <3>3 DEF UsesListgroup
      <4>2. c.held = {}
        <5> SUFFICES ASSUME NEW n \in c.held PROVE FALSE
          OBVIOUS
        <5>1. n \in cache.held /\ low <= n /\ n <= cache.high /\ n \in Article
          BY <2>2, <3>1, <3>2
        <5> QED
          BY <2>2, <3>2, <4>1, <5>1, Numbers
      <4> QED
        BY <4>2
    <3>4. CASE style.expires = "lowest" /\ ~style.lowLags /\ ~style.zeros
      <4>1. m[1] = IF arts = {} THEN Highest(used) + 1 ELSE Lowest(arts)
        BY <1>0, <3>4, MarksAre
      <4>2. ASSUME NEW n \in c.held, n \notin arts PROVE FALSE
        <5>1. n \in used \ arts /\ low <= n /\ n \in Nat /\ n <= Highest(used)
          BY <2>2, <3>1, <3>2, <4>2, HighestIs
        <5>2. m[1] <= n
          BY <2>2, <3>2, <5>1
        <5>3. CASE arts = {}
          BY <3>2, <4>1, <5>1, <5>2, <5>3
        <5>4. CASE arts # {}
          <6>1. Lowest(arts) \in arts
            BY <3>2, <5>4, LowestAmong
          <6>2. n < Lowest(arts)
            BY <1>0, <3>4, <5>1, <6>1 DEF RemovedBelow
          <6>3. Lowest(arts) \in Nat
            <7>1. Lowest(arts) \in Article
              BY <3>2, <6>1
            <7> QED
              BY <7>1, Numbers
          <6> QED
            BY <4>1, <5>1, <5>2, <5>4, <6>2, <6>3
        <5> QED
          BY <5>3, <5>4
      <4> QED
        BY <4>2
    <3> QED
      BY <3>3, <3>4 DEF ExpiresFollowed
  <2>8. Leaving'
    BY <1>1, <1>2, <2>4, <2>7 DEF Leaving, ExpiresFollowed
  <2> QED
    BY <1>4, <2>3, <2>6, <2>8 DEF IInv
<1> QED
  BY <1>5, <1>6

\* What LISTGROUP leaves to be asked for.
Listed(existing) ==
  [Flushed(cache, Article \ existing) EXCEPT !.low = IF existing = {} THEN marks[1] ELSE Min(existing)]

LEMMA ListGroupAsks ==
  ASSUME IInv, phase = "list",
         NEW existing \in SUBSET arts,
         NEW c, c = Listed(existing),
         NEW ranges, ranges = Ranges(existing \ c.held)
  PROVE  /\ c \in Caches /\ Sound(c) /\ c.held = cache.held \cap existing
         /\ c.high = cache.high
         /\ Askable(ranges, c.held) /\ All(ranges) = existing \ c.held
         /\ \A r \in ranges : r[2] <= Highest(used)
         /\ c.low = 0 => \A n \in All(ranges) : n = 0
<1> DEFINE low == IF existing = {} THEN marks[1] ELSE Min(existing)
           gone == Article \ existing
           left == cache.held \ (IF cache.low = 0 THEN {} ELSE gone \cap (cache.low .. cache.high))
           save == cache.saveit \/ left # cache.held
<1>0. TypeOK /\ Sound(cache) /\ marks[1] <= Highest(used) + 1
  BY DEF IInv, Asking
<1>1. /\ cache \in Caches /\ marks[1] \in 0 .. ULongMax
      /\ used \in SUBSET Article /\ arts \in SUBSET used
  BY <1>0, StyleIs DEF TypeOK
<1>2. /\ cache.held \subseteq Article /\ cache.low \in 0 .. ULongMax /\ cache.high \in 0 .. MaxArticle
  BY <1>1 DEF Caches
<1>3. left = cache.held \cap existing
  <2>1. \A n \in cache.held : n \in gone <=> n \notin existing
    BY <1>2
  <2>2. \A n \in cache.held : cache.low # 0 /\ n \in cache.low .. cache.high
    BY <1>0, <1>2, Numbers DEF Sound
  <2> QED
    BY <2>1, <2>2
<1>4. /\ low \in 0 .. ULongMax /\ low <= Highest(used) + 1
      /\ existing # {} => low # 0
      /\ \A n \in existing : low <= n
  <2>1. CASE existing = {}
    BY <1>0, <1>1, <2>1
  <2>2. CASE existing # {}
    <3>1. existing \in SUBSET Nat /\ existing \in SUBSET Article
      BY <1>1, Numbers
    <3>2. low = Min(existing)
      BY <2>2
    <3>3. low \in existing /\ \A n \in existing : low <= n
      BY <2>2, <3>1, <3>2, MinIs
    <3>4. low \in used /\ low \in Article
      BY <1>1, <3>3
    <3>5. low <= Highest(used) /\ Highest(used) \in Nat
      BY <1>1, <3>4, HighestIs
    <3> HIDE DEF low
    <3> QED
      BY <3>3, <3>4, <3>5, Numbers
  <2> QED
    BY <2>1, <2>2
<1>5. c = [held |-> left, low |-> low, high |-> cache.high, saveit |-> save]
  BY <1>1 DEF Listed, Flushed, Caches
<1>6. save \in BOOLEAN
  OBVIOUS
<1> HIDE DEF left, low, save, gone
<1>7. c.held = left /\ c.low = low /\ c.high = cache.high
  BY ONLY <1>5
<1>8. c \in Caches
  <2>1. left \in SUBSET Article
    BY <1>2, <1>3
  <2> QED
    BY ONLY <1>2, <1>4, <1>5, <1>6, <2>1 DEF Caches
<1>9. Sound(c)
  <2>1. \A n \in c.held : c.low <= n /\ n <= c.high
    BY <1>0, <1>3, <1>4, <1>7 DEF Sound
  <2>2. c.low = 0 => c.held = {}
    BY <1>3, <1>4, <1>7
  <2>3. c.held \subseteq used /\ c.high <= Highest(used)
    BY <1>0, <1>3, <1>7 DEF Sound
  <2> QED
    BY <1>4, <1>7, <2>1, <2>2, <2>3 DEF Sound
<1> DEFINE S == existing \ c.held
<1>10. S \in SUBSET (0 .. MaxArticle) /\ S \cap c.held = {} /\ S \subseteq used
  <2>1. existing \subseteq used /\ used \subseteq Article /\ Article \subseteq 0 .. MaxArticle
    BY <1>1, Numbers
  <2> QED
    BY <2>1
<1>11. c.low = 0 => S = {}
  BY <1>4, <1>7
<1> HIDE DEF S
<1>12. Askable(Ranges(S), c.held) /\ All(Ranges(S)) = S /\ \A r \in Ranges(S) : r[2] \in S
  BY <1>10, RangesAre
<1>13. ranges = Ranges(S) /\ S = existing \ c.held
  BY DEF S
<1>14. \A r \in ranges : r[2] <= Highest(used)
  BY <1>1, <1>10, <1>12, <1>13, HighestIs
<1> QED
  BY <1>3, <1>7, <1>8, <1>9, <1>11, <1>12, <1>13, <1>14

LEMMA ListGroupInv ==
  ASSUME IInv, ListGroup
  PROVE  IInv'
<1> DEFINE existing == Clip(arts, limit)
           c == Listed(existing)
           ranges == Ranges(existing \ c.held)
<1>0. TypeOK /\ RemovedBelow /\ Sound(saved) /\ Leaving /\ phase = "list"
  BY DEF IInv, ListGroup
<1>1. /\ Fetch(c, ranges) /\ offer' = existing
      /\ UNCHANGED <<style, arts, used, saved, limit, marks, alive>>
  BY DEF ListGroup, server, Listed
<1>2. existing \in SUBSET arts
  BY DEF Clip
<1> HIDE DEF existing
<1>3. /\ c \in Caches /\ Sound(c) /\ c.held = cache.held \cap existing
      /\ Askable(ranges, c.held)
      /\ \A r \in ranges : r[2] <= Highest(used)
      /\ c.low = 0 => \A n \in All(ranges) : n = 0
  BY <1>0, <1>2, ListGroupAsks
<1> HIDE DEF c, ranges
<1>4. (Sound(cache) /\ Asking)'
  BY <1>1, <1>3, FetchAsks
<1>5. cache' = c /\ asked' = ranges /\ lines' = {} /\ phase' = "fetch"
  BY <1>1 DEF Fetch
<1>6. ranges \subseteq (0 .. ULongMax) \X (0 .. MaxArticle)
  BY <1>3 DEF Askable
<1>7. existing \subseteq Article
  BY <1>0, <1>2, StyleIs
<1>8. TypeOK'
  BY <1>0, <1>1, <1>3, <1>5, <1>6, <1>7 DEF TypeOK
<1>9. Leaving'
  BY <1>0, <1>1, <1>2, <1>3, <1>5 DEF Leaving, ExpiresFollowed
<1>10. Sound(saved)' /\ RemovedBelow'
  BY <1>0, <1>1 DEF Sound, RemovedBelow
<1> QED
  BY <1>4, <1>8, <1>9, <1>10 DEF IInv

LEMMA PostInv ==
  ASSUME IInv, NEW n \in Article, Post(n)
  PROVE  IInv'
<1>0. TypeOK /\ RemovedBelow /\ Sound(cache) /\ Sound(saved) /\ Asking /\ Leaving
  BY DEF IInv
<1>1. /\ n \notin used /\ n <= style.last
      /\ style.expires = "lowest" => n > Highest(used \ arts)
      /\ arts' = arts \cup {n} /\ used' = used \cup {n} /\ alive' = alive \cup {n}
      /\ UNCHANGED <<style, cache, saved, phase, limit, marks, asked, lines, offer>>
  BY DEF Post
<1>2. used \in SUBSET Article /\ arts \in SUBSET used /\ used \ arts \in SUBSET Article
  BY <1>0, StyleIs
<1>3. Highest(used) <= Highest(used') /\ Highest(used) \in Nat /\ Highest(used') \in Nat
  <2>1. used \cup {n} \in SUBSET Article
    BY <1>2
  <2> QED
    BY <1>1, <1>2, <2>1, HighestGrows, HighestIs
<1>4. TypeOK'
  BY <1>0, <1>1, <1>2, StyleIs, Numbers DEF TypeOK
<1>5. ASSUME NEW c \in Caches, Sound(c) PROVE Sound(c)'
  <2>1. c.high \in Nat /\ c.low \in Nat
    BY Numbers DEF Caches
  <2>2. c.held \subseteq used'
    BY <1>1, <1>5 DEF Sound
  <2> QED
    BY <1>3, <1>5, <2>1, <2>2 DEF Sound
<1>6. Sound(cache)' /\ Sound(saved)'
  <2>1. cache \in Caches /\ saved \in Caches
    BY <1>0 DEF TypeOK
  <2>2. cache' = cache /\ saved' = saved
    BY <1>1
  <2> QED
    BY <1>0, <1>5, <2>1, <2>2 DEF Sound
<1>7. RemovedBelow'
  <2> SUFFICES ASSUME style.expires = "lowest", NEW x \in used \ arts, x # n, NEW a \in arts \cup {n}
               PROVE  x < a
    BY <1>1 DEF RemovedBelow
  <2>1. CASE a \in arts
    BY <1>0, <2>1 DEF RemovedBelow
  <2>2. CASE a = n
    <3>1. x <= Highest(used \ arts) /\ Highest(used \ arts) \in Nat /\ x \in Nat
      BY <1>2, HighestIs
    <3> QED
      BY <1>1, <2>2, <3>1
  <2> QED
    BY <2>1, <2>2
<1>8. Asking'
  <2>1. \A r \in asked : r[2] \in Nat /\ r[2] <= Highest(used)
    BY <1>0 DEF Asking, TypeOK
  <2>2. \A r \in asked : r[2] <= Highest(used')
    BY <1>3, <2>1
  <2>3. phase = "list" => marks[1] <= Highest(used') + 1
    <3>1. marks[1] \in Nat
      BY <1>0 DEF TypeOK
    <3> QED
      BY <1>0, <1>3, <3>1 DEF Asking
  <2> QED
    BY <1>0, <1>1, <2>2, <2>3 DEF Asking, Coming
<1>9. Leaving'
  BY <1>0, <1>1 DEF Leaving, ExpiresFollowed
<1> QED
  BY <1>4, <1>6, <1>7, <1>8, <1>9 DEF IInv

LEMMA ExpireInv ==
  ASSUME IInv, NEW n \in Article, Expire(n)
  PROVE  IInv'
<1>0. TypeOK /\ RemovedBelow /\ Sound(cache) /\ Sound(saved) /\ Asking /\ Leaving
  BY DEF IInv
<1>1. /\ n \in arts
      /\ style.expires = "lowest" => n = Lowest(arts)
      /\ arts' = arts \ {n}
      /\ UNCHANGED <<style, used, cache, saved, phase, limit, marks, asked, lines, offer, alive>>
  BY DEF Expire, update
<1>2. TypeOK'
  BY <1>0, <1>1 DEF TypeOK
<1>3. RemovedBelow'
  <2> SUFFICES ASSUME style.expires = "lowest", NEW x \in used \ (arts \ {n}), NEW a \in arts, a # n
               PROVE  x < a
    BY <1>1 DEF RemovedBelow
  <2>1. CASE x = n
    <3>1. arts \in SUBSET Article
      BY <1>0, StyleIs
    <3>2. n <= a /\ n \in Nat /\ a \in Nat
      <4>1. n \in Article /\ a \in Article
        BY <3>1
      <4>2. Lowest(arts) <= a
        BY <3>1, LowestIs
      <4>3. n = Lowest(arts)
        BY <1>1
      <4> QED
        BY <4>1, <4>2, <4>3, Numbers
    <3> QED
      BY <2>1, <3>2
  <2>2. CASE x # n
    BY <1>0, <2>2 DEF RemovedBelow
  <2> QED
    BY <2>1, <2>2
<1>4. Sound(cache)' /\ Sound(saved)' /\ Asking' /\ Leaving'
  BY <1>0, <1>1 DEF Sound, Asking, Leaving, Coming, ExpiresFollowed
<1> QED
  BY <1>2, <1>3, <1>4 DEF IInv

\* The next reply is to the lowest range.
LEMMA FirstIs ==
  ASSUME TypeOK, Asking, asked # {}
  PROVE  /\ First \in asked
         /\ \A n \in In(First), q \in asked \ {First} : \A k \in In(q) : n < k
<1>1. asked \subseteq (0 .. ULongMax) \X (0 .. MaxArticle)
  BY DEF TypeOK
<1>2. \E r \in asked : \A q \in asked : r[2] <= q[2]
  <2> DEFINE S == {q[2] : q \in asked}
  <2>1. S \in SUBSET Nat /\ S # {}
    BY <1>1, Numbers
  <2>2. PICK x \in S : \A y \in S : x <= y
    BY <2>1, LeastExists
  <2> QED
    BY <2>2
<1>3. First \in asked /\ \A q \in asked : First[2] <= q[2]
  BY <1>2 DEF First
<1> HIDE DEF First
<1>4. ASSUME NEW n \in In(First), NEW q \in asked \ {First}, NEW k \in In(q) PROVE n < k
  <2>1. In(First) \cap In(q) = {}
    BY <1>3, <1>4 DEF Asking
  <2>2. /\ First[1] \in Nat /\ First[2] \in Nat /\ q[1] \in Nat /\ q[2] \in Nat
        /\ First[2] <= q[2]
    BY <1>1, <1>3, <1>4, Numbers
  <2>3. /\ n \in Nat /\ k \in Nat /\ First[1] <= n /\ n <= First[2] /\ q[1] <= k /\ k <= q[2]
    BY <1>4, <2>2 DEF In
  <2>4. ASSUME k <= n PROVE FALSE
    <3>1. n \in In(First) /\ n \in In(q)
      BY <2>2, <2>3, <2>4 DEF In
    <3> QED
      BY <2>1, <3>1
  <2> QED
    BY <2>3, <2>4
<1> QED
  BY <1>3, <1>4

LEMMA ReplyInv ==
  ASSUME IInv, Reply
  PROVE  IInv'
<1>0. /\ TypeOK /\ RemovedBelow /\ Sound(cache) /\ Sound(saved) /\ Asking /\ Leaving
      /\ phase = "fetch" /\ asked # {} /\ lines = {}
  BY DEF IInv, Reply
<1>1. /\ lines' = Holds(First) /\ asked' = asked \ {First}
      /\ UNCHANGED <<style, arts, used, cache, saved, phase, limit, marks, offer, alive>>
  BY DEF Reply, server
<1>2. /\ First \in asked
      /\ \A n \in In(First), q \in asked \ {First} : \A k \in In(q) : n < k
  BY <1>0, FirstIs
<1>3. used \in SUBSET Article /\ arts \in SUBSET used
  BY <1>0, StyleIs
<1> HIDE DEF First
<1>4. Holds(First) = In(First) \cap arts
  <2>1. First[1] \in Nat /\ First[2] \in Nat
    BY <1>0, <1>2, Numbers DEF TypeOK
  <2>2. \A n \in arts : n \in Nat
    BY <1>3, Numbers
  <2>3. \A n \in arts : n \in In(First) <=> First[1] <= n /\ n <= First[2]
    BY <2>1, <2>2 DEF In
  <2> QED
    BY <2>3 DEF Holds
<1>5. TypeOK'
  BY <1>0, <1>1, <1>3, <1>4 DEF TypeOK
<1>6. \A n : Coming(n)' => Coming(n)
  BY <1>1, <1>2, <1>4 DEF Coming
<1>7. Asking'
  BY <1>0, <1>1, <1>2, <1>3, <1>4, <1>6 DEF Asking
<1>8. Leaving'
  BY <1>0, <1>1, <1>4 DEF Leaving, ExpiresFollowed
<1>9. Sound(cache)' /\ Sound(saved)' /\ RemovedBelow'
  BY <1>0, <1>1 DEF Sound, RemovedBelow
<1> QED
  BY <1>5, <1>7, <1>8, <1>9 DEF IInv

\* The next line has the lowest article that is left of the reply.
LEMMA LineIs ==
  ASSUME TypeOK, lines # {}
  PROVE  Min(lines) \in lines /\ \A n \in lines : Min(lines) <= n
<1>1. lines \in SUBSET Nat
  BY Numbers DEF TypeOK
<1> QED
  BY <1>1, MinIs

LEMMA WithItemIs ==
  ASSUME NEW c \in Caches, NEW n \in Article
  PROVE  /\ WithItem(c, n) \in Caches
         /\ WithItem(c, n).held = c.held \cup {n}
         /\ WithItem(c, n).high = (IF n > c.high THEN n ELSE c.high)
         /\ WithItem(c, n).low = (IF n < c.low THEN n ELSE c.low)
<1> DEFINE low == IF n < c.low THEN n ELSE c.low
           high == IF n > c.high THEN n ELSE c.high
           held == c.held \cup {n}
<1>1. c.held \subseteq Article /\ c.low \in 0 .. ULongMax /\ c.high \in 0 .. MaxArticle
  BY DEF Caches
<1>2. n \in 0 .. ULongMax /\ n \in 0 .. MaxArticle
  BY Numbers
<1>3. low \in 0 .. ULongMax /\ high \in 0 .. MaxArticle /\ held \subseteq Article
  BY <1>1, <1>2
<1>4. WithItem(c, n) = [c EXCEPT !.held = held, !.saveit = TRUE, !.high = high, !.low = low]
  BY DEF WithItem
<1> HIDE DEF low, high, held
<1>5. WithItem(c, n) = [held |-> held, low |-> low, high |-> high, saveit |-> TRUE]
  BY <1>4 DEF Caches
<1>6. WithItem(c, n) \in Caches
  BY <1>3, <1>5 DEF Caches
<1>7. WithItem(c, n).held = held /\ WithItem(c, n).high = high /\ WithItem(c, n).low = low
  BY ONLY <1>5
<1> QED
  BY <1>6, <1>7 DEF low, high, held

LEMMA LineInv ==
  ASSUME IInv, Line
  PROVE  IInv'
<1> DEFINE n == Min(lines)
<1>0. /\ TypeOK /\ RemovedBelow /\ Sound(cache) /\ Sound(saved) /\ Asking /\ Leaving
      /\ phase = "fetch" /\ lines # {}
  BY DEF IInv, Line
<1>1. /\ cache' = WithItem(cache, n) /\ lines' = lines \ {n}
      /\ UNCHANGED <<style, arts, used, saved, phase, limit, marks, asked, offer, alive>>
  BY DEF Line, server
<1>2. n \in lines /\ \A k \in lines : n <= k
  BY <1>0, LineIs
<1> HIDE DEF n
<1>3. n \in used /\ n \in Article /\ used \in SUBSET Article /\ cache \in Caches
  BY <1>0, <1>2, StyleIs DEF Asking, TypeOK
<1>4. /\ cache' \in Caches
      /\ cache'.held = cache.held \cup {n}
      /\ cache'.high = (IF n > cache.high THEN n ELSE cache.high)
      /\ cache'.low = (IF n < cache.low THEN n ELSE cache.low)
  BY <1>1, <1>3, WithItemIs
<1>5. TypeOK'
  BY <1>0, <1>1, <1>4 DEF TypeOK
<1>6. /\ cache.held \subseteq Article /\ cache.low \in Nat /\ cache.high \in Nat
      /\ n \in Nat /\ n # 0 /\ n <= Highest(used) /\ Highest(used) \in Nat
  BY <1>3, Numbers, HighestIs DEF Caches
<1>7. cache.low # 0
  BY <1>0, <1>2, <1>3 DEF Asking, Coming
<1>8. Sound(cache)'
  <2>1. \A k \in cache'.held : cache'.low <= k /\ k <= cache'.high
    <3> TAKE k \in cache'.held
    <3>1. CASE k = n
      BY <1>4, <1>6, <3>1
    <3>2. CASE k \in cache.held
      <4>1. cache.low <= k /\ k <= cache.high /\ k \in Nat
        BY <1>0, <1>6, <3>2, Numbers DEF Sound
      <4> QED
        BY <1>4, <1>6, <4>1
    <3> QED
      BY <1>4, <3>1, <3>2
  <2>2. cache'.low # 0
    BY <1>4, <1>6, <1>7
  <2>3. cache'.held \subseteq used
    BY <1>0, <1>3, <1>4 DEF Sound
  <2>4. cache'.high <= Highest(used)
    BY <1>0, <1>4, <1>6 DEF Sound
  <2>5. cache'.low <= Highest(used) + 1
    BY <1>4, <1>6
  <2> QED
    BY <1>1, <2>1, <2>2, <2>3, <2>4, <2>5 DEF Sound
<1>9. Asking'
  <2>1. \A k \in Article : Coming(k)' => Coming(k) /\ k # n
    <3>1. \A r \in asked : n \notin In(r)
      BY <1>0, <1>2, <1>6 DEF Asking
    <3> QED
      BY <1>1, <3>1 DEF Coming
  <2>2. \A k \in cache'.held : ~Coming(k)'
    <3>1. cache'.held \subseteq Article
      BY <1>3, <1>4, <1>6
    <3> QED
      BY <1>0, <1>4, <2>1, <3>1 DEF Asking
  <2>3. cache'.low # 0
    BY <1>4, <1>6, <1>7
  <2> QED
    BY <1>0, <1>1, <2>2, <2>3 DEF Asking
<1>10. Leaving'
  BY <1>0, <1>1, <1>2, <1>4 DEF Leaving, ExpiresFollowed
<1>11. Sound(saved)' /\ RemovedBelow'
  BY <1>0, <1>1 DEF Sound, RemovedBelow
<1> QED
  BY <1>5, <1>8, <1>9, <1>10, <1>11 DEF IInv

\* An update that ends, in whatever way.
LEMMA EndInv ==
  ASSUME IInv, phase' = "idle", asked' = {}, lines' = {},
         UNCHANGED <<server, saved, limit, marks, offer, alive>>,
         cache' = cache \/ cache' = saved
  PROVE  IInv'
<1>0. TypeOK /\ RemovedBelow /\ Sound(cache) /\ Sound(saved) /\ Asking /\ Leaving
  BY DEF IInv
<1>1. TypeOK'
  BY <1>0 DEF TypeOK, server
<1>2. Sound(cache)' /\ Sound(saved)' /\ RemovedBelow'
  <2>1. UNCHANGED <<style, arts, used, saved>>
    BY DEF server
  <2>2. CASE cache' = cache
    BY <1>0, <2>1, <2>2 DEF Sound, RemovedBelow
  <2>3. CASE cache' = saved
    BY <1>0, <2>1, <2>3 DEF Sound, RemovedBelow
  <2> QED
    BY <2>2, <2>3
<1>3. Asking' /\ Leaving'
  BY <1>0 DEF Asking, Leaving, Coming
<1> QED
  BY <1>1, <1>2, <1>3 DEF IInv

LEMMA FlushServerInv ==
  ASSUME IInv, FlushServer
  PROVE  IInv'
<1>0. TypeOK /\ RemovedBelow /\ Sound(cache) /\ Sound(saved) /\ Asking /\ Leaving /\ phase = "idle"
  BY DEF IInv, FlushServer
<1>1. /\ cache' = [Flushed(cache, Article) EXCEPT !.low = ULongMax, !.high = 0]
      /\ UNCHANGED <<style, arts, used, saved, phase, limit, marks, asked, lines, offer, alive>>
  BY DEF FlushServer, server, update
<1> DEFINE left == cache.held \ (IF cache.low = 0 THEN {} ELSE Article \cap (cache.low .. cache.high))
           save == cache.saveit \/ left # cache.held
<1>2. cache \in Caches
  BY <1>0 DEF TypeOK
<1>3. /\ cache.held \subseteq Article /\ cache.low \in 0 .. ULongMax /\ cache.high \in 0 .. MaxArticle
  BY <1>2 DEF Caches
<1>4. left = {}
  <2>1. \A n \in cache.held : cache.low # 0 /\ n \in cache.low .. cache.high
    BY <1>0, <1>3, Numbers DEF Sound
  <2> QED
    BY <1>3, <2>1
<1>5. cache' = [held |-> left, low |-> ULongMax, high |-> 0, saveit |-> save]
  BY <1>1, <1>2 DEF Flushed, Caches
<1>6. save \in BOOLEAN
  OBVIOUS
<1> HIDE DEF left, save
<1>7. cache'.held = {} /\ cache'.low = ULongMax /\ cache'.high = 0 /\ cache' \in Caches
  BY <1>4, <1>5, <1>6, Numbers DEF Caches
<1>8. used' = used /\ Highest(used) \in Nat
  BY <1>0, <1>1, StyleIs, HighestIs
<1>9. Sound(cache)'
  BY <1>7, <1>8, Numbers DEF Sound
<1>10. TypeOK'
  BY <1>0, <1>1, <1>7 DEF TypeOK
<1>11. Asking'
  BY <1>0, <1>1, <1>7 DEF Asking, Coming
<1>12. Leaving' /\ Sound(saved)' /\ RemovedBelow'
  BY <1>0, <1>1 DEF Leaving, Sound, RemovedBelow
<1> QED
  BY <1>9, <1>10, <1>11, <1>12 DEF IInv

LEMMA CloseInv ==
  ASSUME IInv, Close
  PROVE  IInv'
<1>0. TypeOK /\ RemovedBelow /\ Sound(cache) /\ Sound(saved) /\ Asking /\ Leaving /\ phase = "idle"
  BY DEF IInv, Close
<1>1. UNCHANGED <<style, arts, used, phase, limit, marks, asked, lines, offer, alive>> /\ cache' = saved'
  BY DEF Close, server, update
<1>2. saved' = saved \/ saved' = [cache EXCEPT !.saveit = FALSE]
  BY DEF Close
<1>3. saved' \in Caches /\ ~saved'.saveit /\ Sound(saved)'
  <2>1. CASE saved' = saved
    BY <1>0, <1>1, <2>1 DEF TypeOK, Sound
  <2>2. CASE saved' = [cache EXCEPT !.saveit = FALSE]
    <3>1. cache \in Caches
      BY <1>0 DEF TypeOK
    <3>2. /\ saved' \in Caches /\ ~saved'.saveit
          /\ saved'.held = cache.held /\ saved'.low = cache.low /\ saved'.high = cache.high
      BY <2>2, <3>1 DEF Caches
    <3> QED
      BY <1>0, <1>1, <3>2 DEF Sound
  <2> QED
    BY <1>2, <2>1, <2>2
<1>4. Sound(cache)'
  BY <1>1, <1>3 DEF Sound
<1>5. TypeOK'
  BY <1>0, <1>1, <1>3 DEF TypeOK
<1>6. Asking' /\ Leaving' /\ RemovedBelow'
  BY <1>0, <1>1 DEF Asking, Coming, Leaving, RemovedBelow
<1> QED
  BY <1>3, <1>4, <1>5, <1>6 DEF IInv

LEMMA InvNext == IInv /\ [Next]_vars => IInv'
<1> SUFFICES ASSUME IInv, [Next]_vars PROVE IInv'
  OBVIOUS
<1>1. ASSUME NEW n \in Article, Post(n) PROVE IInv'
  BY <1>1, PostInv
<1>2. ASSUME NEW n \in Article, Expire(n) PROVE IInv'
  BY <1>2, ExpireInv
<1>3. ASSUME NEW mode \in style.modes, NEW max \in style.limits, Group(mode, max) PROVE IInv'
  BY <1>3, GroupInv
<1>4. CASE ListGroup
  BY <1>4, ListGroupInv
<1>5. CASE Reply
  BY <1>5, ReplyInv
<1>6. CASE Line
  BY <1>6, LineInv
<1>7. CASE Finish
  <2>1. asked' = {} /\ lines' = {}
    BY <1>7 DEF Finish
  <2> QED
    BY <1>7, <2>1, EndInv DEF Finish
<1>8. CASE Refused
  BY <1>8, EndInv DEF Refused, GiveUp
<1>9. CASE Drop
  BY <1>9, EndInv DEF Drop, GiveUp
<1>10. CASE FlushServer
  BY <1>10, FlushServerInv
<1>11. CASE Close
  BY <1>11, CloseInv
<1>12. CASE Kill
  BY <1>12, EndInv DEF Kill, GiveUp
<1>13. CASE UNCHANGED vars
  BY <1>13 DEF vars, server, update, IInv, TypeOK, RemovedBelow, Sound, Asking, Leaving, Coming, ExpiresFollowed
<1> QED
  BY <1>1, <1>2, <1>3, <1>4, <1>5, <1>6, <1>7, <1>8, <1>9, <1>10, <1>11, <1>12, <1>13 DEF Next

\* What the other proofs rest on.
THEOREM Invariance == Spec => []IInv
  BY InvInit, InvNext, PTL DEF Spec

\* getxrange() and the flushing before it: no header is asked for, or about to
\* be filed, that the cache has, so that additem() counts none twice.
THEOREM NeverAskedTwice == Spec => []AsksOnce
<1>1. IInv => AsksOnce
  <2> SUFFICES ASSUME IInv PROVE AsksOnce
    OBVIOUS
  <2>1. \A n \in cache.held : ~Coming(n)
    BY DEF IInv, Asking
  <2> QED
    BY <2>1 DEF AsksOnce, Coming, In
<1> QED
  BY <1>1, Invariance, PTL

\* low and high enclose the headers, through every flush, save and kill: flush()
\* and fullxover=0, which look nowhere else, miss none.
THEOREM LowAndHighEnclose == Spec => []HeldInside
<1>1. IInv => HeldInside
  BY DEF IInv, Sound, HeldInside
<1> QED
  BY <1>1, Invariance, PTL

-----------------------------------------------------------------------------
(* An update brings everything. *)

Ordered == UpToHigh(cache) /\ UpToHigh(saved) /\ Bringing

LEMMA OrderedInit == Init => Ordered
  BY DEF Init, Ordered, UpToHigh, Bringing

LEMMA SettingsIs ==
  ASSUME InOrderSettings, TypeOK, 0 \in style.modes
  PROVE  style.adds = "above" /\ style.limits \subseteq {NoLimit} /\ limit = NoLimit
<1>1. style \in Styles /\ limit \in style.limits \cup {NoLimit}
  BY DEF TypeOK
<1> QED
  BY <1>1 DEF InOrderSettings

LEMMA PostOrdered ==
  ASSUME InOrderSettings, IInv, Ordered, NEW n \in Article, Post(n)
  PROVE  Ordered'
<1>0. TypeOK /\ Sound(cache) /\ Sound(saved) /\ Asking
  BY DEF IInv
<1>1. /\ n \notin used
      /\ style.adds = "above" => n > Highest(used)
      /\ arts' = arts \cup {n} /\ used' = used \cup {n}
      /\ UNCHANGED <<style, cache, saved, phase, asked, lines, offer>>
  BY DEF Post
<1>2. used \in SUBSET Article /\ Highest(used) \in Nat /\ n \in Nat
  BY <1>0, StyleIs, HighestIs, Numbers
<1>3. ASSUME NEW c \in Caches, Sound(c), 0 \in style.modes PROVE ~(n <= c.high)
  <2>1. c.high \in Nat /\ c.high <= Highest(used)
    BY <1>3, Numbers DEF Sound, Caches
  <2> QED
    BY <1>0, <1>1, <1>2, <1>3, <2>1, SettingsIs
<1>4. cache \in Caches /\ saved \in Caches
  BY <1>0 DEF TypeOK
<1>5. UpToHigh(cache)' /\ UpToHigh(saved)'
  BY <1>0, <1>1, <1>3, <1>4 DEF Ordered, UpToHigh
<1>6. 0 \in style.modes => (\A k \in lines : k < n) /\ (\A r \in asked : r[2] < n)
  <2> SUFFICES ASSUME 0 \in style.modes PROVE (\A k \in lines : k < n) /\ (\A r \in asked : r[2] < n)
    OBVIOUS
  <2>1. n > Highest(used)
    BY <1>0, <1>1, SettingsIs
  <2>2. \A k \in lines : k \in Nat /\ k <= Highest(used)
    BY <1>0, <1>2, HighestIs, Numbers DEF Asking
  <2>3. \A r \in asked : r[2] \in Nat /\ r[2] <= Highest(used)
    BY <1>0, Numbers DEF Asking, TypeOK
  <2> QED
    BY <1>2, <2>1, <2>2, <2>3
<1>7. Bringing'
  BY <1>1, <1>6 DEF Ordered, Bringing, Coming
<1> QED
  BY <1>5, <1>7 DEF Ordered

LEMMA GroupOrdered ==
  ASSUME InOrderSettings, IInv, Ordered,
         NEW mode \in style.modes, NEW max \in style.limits, Group(mode, max)
  PROVE  Ordered'
<1>0. TypeOK /\ phase = "idle" /\ asked = {} /\ lines = {}
  BY DEF IInv, Group, Asking
<1>1. PICK m \in Marks :
        /\ marks' = m /\ limit' = max /\ alive' = arts
        /\ IF UsesListgroup(mode, m)
           THEN phase' = "list" /\ UNCHANGED <<cache, asked, lines, offer>>
           ELSE LET low == ClipMark(m, max)
                    c == IF low > cache.low THEN FlushedLow(cache, low) ELSE cache
                IN /\ Fetch(c, IF mode = 0 THEN Unseen(c, low, m[2]) ELSE Missing(c, low, m[2]))
                   /\ offer' = {n \in arts : low <= n /\ n <= m[2]}
  BY DEF Group
<1>2. UNCHANGED <<style, arts, used, saved>>
  BY DEF Group, server
<1>3. UpToHigh(saved)'
  BY <1>2 DEF Ordered, UpToHigh
<1>4. CASE UsesListgroup(mode, m)
  <2>1. phase' = "list" /\ UNCHANGED <<cache, asked, lines, offer>>
    BY <1>1, <1>4
  <2> QED
    BY <1>0, <1>2, <1>3, <2>1 DEF Ordered, UpToHigh, Bringing
<1>5. CASE ~UsesListgroup(mode, m)
  <2> DEFINE low == ClipMark(m, max)
             c == IF low > cache.low THEN FlushedLow(cache, low) ELSE cache
             ranges == IF mode = 0 THEN Unseen(c, low, m[2]) ELSE Missing(c, low, m[2])
  <2>1. Fetch(c, ranges) /\ offer' = {n \in arts : low <= n /\ n <= m[2]}
    BY <1>1, <1>5
  <2>2. /\ low \in 0 .. ULongMax /\ c \in Caches /\ Sound(c) /\ c.high = cache.high
        /\ c.held = {n \in cache.held : low <= n}
        /\ mode # 0 => All(ranges) = (low .. m[2]) \ c.held
    BY GroupAsks
  <2>3. mode = 0 => ranges = Unseen(c, low, m[2])
    OBVIOUS
  <2>4. max \in 0 .. MaxArticle \cup {NoLimit} /\ arts \in SUBSET Article /\ arts \in SUBSET used
    BY <1>0, StyleIs
  <2>5. /\ m \in (0 .. ULongMax) \X (0 .. MaxArticle)
        /\ \A n \in arts : m[1] <= n /\ n <= m[2]
    BY <1>0, MarksAre
  <2>6. 0 \in style.modes => low = m[1]
    BY <1>0, <2>4, <2>5, SettingsIs, ClipMarkIs
  <2> HIDE DEF low, c, ranges
  <2>7. cache' = c /\ asked' = ranges /\ lines' = {} /\ phase' = "fetch"
    BY <2>1 DEF Fetch
  <2>8. 0 \in style.modes => \A n \in arts : n <= c.high => n \in c.held
    BY <2>2, <2>5, <2>6 DEF Ordered, UpToHigh
  <2>9. UpToHigh(cache)'
    BY <1>2, <2>7, <2>8 DEF UpToHigh
  <2>10. ASSUME NEW n \in arts, low <= n, n <= m[2] PROVE n \in c.held \/ n \in All(ranges)
    <3>1. n \in low .. m[2] /\ n \in Nat
      BY <2>2, <2>4, <2>5, <2>10, Numbers
    <3>2. CASE mode = 0
      <4>1. (c.high = 0 \/ n > c.high \/ n < c.low) => n \in All(ranges)
        BY <2>2, <2>3, <2>5, <3>1, <3>2, UnseenIs
      <4>2. n <= c.high => n \in c.held
        BY <2>8, <3>2
      <4>3. c.high \in Nat
        BY <2>2, Numbers DEF Caches
      <4> QED
        BY <3>1, <4>1, <4>2, <4>3
    <3>3. CASE mode # 0
      BY <2>2, <3>1, <3>3
    <3> QED
      BY <3>2, <3>3
  <2>11. \A n : Coming(n)' <=> n \in All(ranges)
    BY <2>7 DEF Coming, All
  <2>12. 0 \in style.modes => arts \ offer' = {}
    BY <2>1, <2>5, <2>6
  <2>13. Bringing'
    BY <1>2, <2>1, <2>4, <2>7, <2>10, <2>11, <2>12 DEF Bringing
  <2> QED
    BY <1>3, <2>9, <2>13 DEF Ordered
<1> QED
  BY <1>4, <1>5

LEMMA ListGroupOrdered ==
  ASSUME InOrderSettings, IInv, Ordered, ListGroup
  PROVE  Ordered'
<1> DEFINE existing == Clip(arts, limit)
           c == Listed(existing)
           ranges == Ranges(existing \ c.held)
<1>0. TypeOK /\ phase = "list"
  BY DEF IInv, ListGroup
<1>1. /\ Fetch(c, ranges) /\ offer' = existing
      /\ UNCHANGED <<style, arts, used, saved>>
  BY DEF ListGroup, server, Listed
<1>2. existing \in SUBSET arts
  BY DEF Clip
<1>3. 0 \in style.modes => existing = arts
  BY <1>0, SettingsIs DEF Clip
<1> HIDE DEF existing
<1>4. /\ c.held = cache.held \cap existing /\ c.high = cache.high
      /\ All(ranges) = existing \ c.held
  BY <1>0, <1>2, ListGroupAsks
<1> HIDE DEF c, ranges
<1>5. cache' = c /\ asked' = ranges /\ lines' = {} /\ phase' = "fetch"
  BY <1>1 DEF Fetch
<1>6. UpToHigh(cache)' /\ UpToHigh(saved)'
  BY <1>1, <1>3, <1>4, <1>5 DEF Ordered, UpToHigh
<1>7. \A n : Coming(n)' <=> n \in All(ranges)
  BY <1>5 DEF Coming, All
<1>8. existing \subseteq used
  BY <1>0, <1>2, StyleIs
<1>9. Bringing'
  BY <1>1, <1>3, <1>4, <1>5, <1>7, <1>8 DEF Bringing
<1> QED
  BY <1>6, <1>9 DEF Ordered

LEMMA ReplyOrdered ==
  ASSUME IInv, Ordered, Reply
  PROVE  Ordered'
<1>0. TypeOK /\ Asking /\ phase = "fetch" /\ asked # {} /\ lines = {}
  BY DEF IInv, Reply
<1>1. /\ lines' = Holds(First) /\ asked' = asked \ {First}
      /\ UNCHANGED <<style, arts, used, cache, saved, phase, offer>>
  BY DEF Reply, server
<1>2. First \in asked
  BY <1>0, FirstIs
<1>3. /\ First[1] \in Nat /\ First[2] \in Nat
      /\ \A n \in arts : n \in Nat
  BY <1>0, <1>2, StyleIs, Numbers DEF TypeOK
<1>4. \A n \in arts : n \in Holds(First) <=> n \in In(First)
  BY <1>3 DEF In, Holds
<1>5. \A n \in Holds(First) : n \in arts /\ n \in Nat /\ n <= First[2]
  BY <1>3 DEF Holds
<1>6. UpToHigh(cache)' /\ UpToHigh(saved)'
  BY <1>1 DEF Ordered, UpToHigh
<1>7. \A n \in arts : Coming(n) => Coming(n)'
  BY <1>0, <1>1, <1>4 DEF Coming
<1>8. ASSUME 0 \in style.modes, NEW k \in arts \ offer
      PROVE  (\A n \in Holds(First) : n < k) /\ (\A r \in asked \ {First} : r[2] < k)
  <2>1. \A r \in asked : r[2] < k
    BY <1>8 DEF Ordered, Bringing
  <2>2. First[2] < k /\ k \in Nat
    BY <1>2, <1>3, <2>1
  <2> QED
    BY <1>3, <1>5, <2>1, <2>2
<1>9. Bringing'
  BY <1>0, <1>1, <1>7, <1>8 DEF Ordered, Bringing
<1> QED
  BY <1>6, <1>9 DEF Ordered

LEMMA LineOrdered ==
  ASSUME IInv, Ordered, Line
  PROVE  Ordered'
<1> DEFINE n == Min(lines)
<1>0. TypeOK /\ Sound(cache) /\ Asking /\ phase = "fetch" /\ lines # {}
  BY DEF IInv, Line
<1>1. /\ cache' = WithItem(cache, n) /\ lines' = lines \ {n}
      /\ UNCHANGED <<style, arts, used, saved, phase, asked, offer>>
  BY DEF Line, server
<1>2. n \in lines /\ \A k \in lines : n <= k
  BY <1>0, LineIs
<1> HIDE DEF n
<1>3. n \in Article /\ lines \subseteq Article /\ arts \subseteq Article /\ cache \in Caches
  BY <1>0, <1>2, StyleIs DEF TypeOK
<1>4. /\ cache'.held = cache.held \cup {n}
      /\ cache'.high = (IF n > cache.high THEN n ELSE cache.high)
  BY <1>1, <1>3, WithItemIs
<1>5. cache.high \in Nat /\ n \in Nat /\ \A k \in arts : k \in Nat
  BY <1>3, Numbers DEF Caches
<1>6. ASSUME 0 \in style.modes, NEW k \in arts, k <= cache'.high PROVE k \in cache'.held
  <2>1. CASE k <= cache.high
    BY <1>4, <1>6, <2>1 DEF Ordered, UpToHigh
  <2>2. CASE ~(k <= cache.high)
    <3>1. k <= n
      BY <1>4, <1>5, <1>6, <2>2
    <3>2. k \in offer
      <4> SUFFICES ASSUME k \notin offer PROVE FALSE
        OBVIOUS
      <4>1. n < k
        BY <1>2, <1>6 DEF Ordered, Bringing
      <4> QED
        BY <1>5, <3>1, <4>1
    <3>3. k \in cache.held \/ Coming(k)
      BY <1>0, <3>2 DEF Ordered, Bringing
    <3>4. \A r \in asked : k \notin In(r)
      <4> SUFFICES ASSUME NEW r \in asked, k \in In(r) PROVE FALSE
        OBVIOUS
      <4>1. n < k
        BY <1>0, <1>2 DEF Asking
      <4> QED
        BY <1>5, <3>1, <4>1
    <3>5. k \in lines => k = n
      <4> SUFFICES ASSUME k \in lines PROVE k = n
        OBVIOUS
      <4>1. n <= k
        BY <1>2
      <4> QED
        BY <1>5, <3>1, <4>1
    <3> QED
      BY <1>4, <3>3, <3>4, <3>5 DEF Coming
  <2> QED
    BY <2>1, <2>2
<1>7. UpToHigh(cache)' /\ UpToHigh(saved)'
  BY <1>1, <1>6 DEF Ordered, UpToHigh
<1>8. \A k : Coming(k) => Coming(k)' \/ k = n
  BY <1>1 DEF Coming
<1>9. Bringing'
  BY <1>0, <1>1, <1>4, <1>8 DEF Ordered, Bringing
<1> QED
  BY <1>7, <1>9 DEF Ordered

LEMMA EndOrdered ==
  ASSUME Ordered, phase' = "idle", asked' = {}, lines' = {}, UNCHANGED <<server, saved, offer>>,
         cache' = cache \/ cache' = saved
  PROVE  Ordered'
<1>1. UNCHANGED <<style, arts, used, saved>>
  BY DEF server
<1>2. UpToHigh(cache)' /\ UpToHigh(saved)'
  <2>1. CASE cache' = cache
    BY <1>1, <2>1 DEF Ordered, UpToHigh
  <2>2. CASE cache' = saved
    BY <1>1, <2>2 DEF Ordered, UpToHigh
  <2> QED
    BY <2>1, <2>2
<1>3. Bringing'
  BY <1>1 DEF Ordered, Bringing
<1> QED
  BY <1>2, <1>3 DEF Ordered

LEMMA OrderedNext ==
  ASSUME InOrderSettings, IInv, Ordered, [Next]_vars
  PROVE  Ordered'
<1>0. TypeOK
  BY DEF IInv
<1>1. ASSUME NEW n \in Article, Post(n) PROVE Ordered'
  BY <1>1, PostOrdered
<1>2. ASSUME NEW n \in Article, Expire(n) PROVE Ordered'
  <2>1. /\ arts' = arts \ {n}
        /\ UNCHANGED <<style, used, cache, saved, phase, asked, lines, offer>>
    BY <1>2 DEF Expire, update
  <2> QED
    BY <2>1 DEF Ordered, UpToHigh, Bringing, Coming
<1>3. ASSUME NEW mode \in style.modes, NEW max \in style.limits, Group(mode, max) PROVE Ordered'
  BY <1>3, GroupOrdered
<1>4. CASE ListGroup
  BY <1>4, ListGroupOrdered
<1>5. CASE Reply
  BY <1>5, ReplyOrdered
<1>6. CASE Line
  BY <1>6, LineOrdered
<1>7. CASE Finish
  <2>1. asked' = {} /\ lines' = {}
    BY <1>7 DEF Finish
  <2> QED
    BY <1>7, <2>1, EndOrdered DEF Finish
<1>8. CASE Refused
  BY <1>8, EndOrdered DEF Refused, GiveUp
<1>9. CASE Drop
  BY <1>9, EndOrdered DEF Drop, GiveUp
<1>10. CASE FlushServer
  <2>1. cache \in Caches
    BY <1>0 DEF TypeOK
  <2>2. UNCHANGED <<style, arts, used, saved, phase, asked, lines, offer>> /\ phase = "idle"
    BY <1>10 DEF FlushServer, server, update
  <2>3. cache'.high = 0
    BY <1>10, <2>1 DEF FlushServer, Flushed, Caches
  <2>4. \A n \in arts : ~(n <= 0)
    BY <1>0, StyleIs, Numbers
  <2>5. UpToHigh(cache)' /\ UpToHigh(saved)'
    BY <2>2, <2>3, <2>4 DEF Ordered, UpToHigh
  <2>6. Bringing'
    BY <2>2 DEF Ordered, Bringing
  <2> QED
    BY <2>5, <2>6 DEF Ordered
<1>11. CASE Close
  <2>1. cache \in Caches
    BY <1>0 DEF TypeOK
  <2>2. /\ UNCHANGED <<style, arts, used, phase, asked, lines, offer>> /\ cache' = saved' /\ phase = "idle"
        /\ saved' = saved \/ saved' = [cache EXCEPT !.saveit = FALSE]
    BY <1>11 DEF Close, server, update
  <2>3. saved' = saved \/ (saved'.held = cache.held /\ saved'.high = cache.high)
    BY <2>1, <2>2 DEF Caches
  <2>4. UpToHigh(saved)' /\ UpToHigh(cache)'
    BY <2>2, <2>3 DEF Ordered, UpToHigh
  <2>5. Bringing'
    BY <2>2 DEF Ordered, Bringing
  <2> QED
    BY <2>4, <2>5 DEF Ordered
<1>12. CASE Kill
  BY <1>12, EndOrdered DEF Kill, GiveUp
<1>13. CASE UNCHANGED vars
  BY <1>13 DEF vars, server, update, Ordered, UpToHigh, Bringing, Coming
<1> QED
  BY <1>1, <1>2, <1>3, <1>4, <1>5, <1>6, <1>7, <1>8, <1>9, <1>10, <1>11, <1>12, <1>13 DEF Next

\* getxrange(), or what fullxover=0 does instead, and additem(): an update that
\* ends brings every article that the server had when it began and still has,
\* after any breaks, kills, flushes and changes of fullxover before it.
THEOREM UpdateBringsAll ==
  ASSUME InOrderSettings
  PROVE  Spec => Complete
<1>1. IInv /\ Ordered /\ [Next]_vars => Ordered'
  BY OrderedNext
<1>2. IInv /\ Ordered /\ [Next]_vars => [Finish => offer \cap arts \subseteq cache.held]_vars
  <2> SUFFICES ASSUME IInv, Ordered, Finish PROVE offer \cap arts \subseteq cache.held
    OBVIOUS
  <2>1. \A n : ~Coming(n)
    BY DEF Finish, Coming
  <2> QED
    BY <2>1 DEF Finish, Ordered, Bringing
<1> QED
  BY <1>1, <1>2, Invariance, OrderedInit, PTL DEF Spec, Complete

-----------------------------------------------------------------------------
(* An update leaves nothing else. *)

LEMMA ArticlesFinite ==
  ASSUME NEW S \in SUBSET Article
  PROVE  IsFiniteSet(S) /\ Cardinality(S) \in Nat
<1>1. IsFiniteSet(Article)
  BY FS_Interval, Numbers
<1> QED
  BY <1>1, FS_Subset, FS_CardinalityType

\* clip_to_max_total() leaves no more than max.
LEMMA ClipBounds ==
  ASSUME NEW S \in SUBSET Article, NEW max \in Nat, max # NoLimit
  PROVE  Clip(S, max) \subseteq S /\ Cardinality(Clip(S, max)) <= max
<1> DEFINE T == Clip(S, max)
           Above(n) == {m \in S : m > n}
<1>1. T = {n \in S : Cardinality(Above(n)) < max}
  BY DEF Clip
<1>2. CASE T = {}
  BY <1>2, FS_EmptySet
<1>3. CASE T # {}
  <2>1. T \in SUBSET Nat /\ T \subseteq S
    <3>1. \A n \in S : n \in Nat
      BY Numbers
    <3> QED
      BY <1>1, <3>1
  <2> HIDE DEF T
  <2>2. PICK t \in T : \A n \in T : t <= n
    BY <1>3, <2>1, LeastExists
  <2>3. T \subseteq Above(t) \cup {t}
    BY <2>1, <2>2
  <2>4. IsFiniteSet(Above(t)) /\ Cardinality(Above(t)) \in Nat
    BY ArticlesFinite
  <2>5. Cardinality(Above(t)) < max
    BY <1>1, <2>2
  <2>6. t \notin Above(t)
    BY <2>1, <2>2
  <2> HIDE DEF Above
  <2>7. IsFiniteSet(Above(t) \cup {t}) /\ Cardinality(Above(t) \cup {t}) = Cardinality(Above(t)) + 1
    BY <2>4, <2>6, FS_AddElement
  <2>8. Cardinality(T) <= Cardinality(Above(t) \cup {t}) /\ Cardinality(T) \in Nat
    BY <2>3, <2>7, FS_Subset, FS_CardinalityType
  <2> QED
    BY <2>1, <2>4, <2>5, <2>7, <2>8 DEF T
<1> QED
  BY <1>1, <1>2, <1>3

LEMMA GroupWithin ==
  ASSUME LimitedSettings, IInv,
         NEW mode \in style.modes, NEW max \in style.limits, Group(mode, max)
  PROVE  Within'
<1> SUFFICES ASSUME phase' = "fetch", limit' # NoLimit, (0 \notin style.modes)'
             PROVE  (\E W \in SUBSET Article :
                       /\ Cardinality(W) <= limit /\ cache.held \subseteq W
                       /\ \A n \in Article : Coming(n) => n \in W)'
  BY DEF Within
<1>0. TypeOK /\ Sound(cache)
  BY DEF IInv
<1>1. PICK m \in Marks :
        /\ marks' = m /\ limit' = max /\ alive' = arts
        /\ IF UsesListgroup(mode, m)
           THEN phase' = "list" /\ UNCHANGED <<cache, asked, lines, offer>>
           ELSE LET low == ClipMark(m, max)
                    c == IF low > cache.low THEN FlushedLow(cache, low) ELSE cache
                IN /\ Fetch(c, IF mode = 0 THEN Unseen(c, low, m[2]) ELSE Missing(c, low, m[2]))
                   /\ offer' = {n \in arts : low <= n /\ n <= m[2]}
  BY DEF Group
<1>2. UNCHANGED <<style, arts, used, saved>>
  BY DEF Group, server
<1>3. ~UsesListgroup(mode, m) /\ max # NoLimit /\ 0 \notin style.modes /\ mode # 0
  BY <1>1, <1>2
<1> DEFINE low == ClipMark(m, max)
           c == IF low > cache.low THEN FlushedLow(cache, low) ELSE cache
           ranges == IF mode = 0 THEN Unseen(c, low, m[2]) ELSE Missing(c, low, m[2])
<1>4. Fetch(c, ranges)
  BY <1>1, <1>3
<1>5. /\ low \in 0 .. ULongMax /\ c.held = {n \in cache.held : low <= n}
      /\ c \in Caches /\ All(ranges) = (low .. m[2]) \ c.held
  BY <1>3, GroupAsks
<1>6. /\ max \in 0 .. MaxArticle /\ max \in 0 .. MaxArticle \cup {NoLimit}
      /\ used \in SUBSET Article
  BY <1>0, <1>3, StyleIs
<1>7. /\ m \in (0 .. ULongMax) \X (0 .. MaxArticle) /\ m[2] <= Highest(used)
      /\ m[1] = 0 => m[2] = 0
      /\ (m = <<0, 0>> /\ style.zeros) \/ m[2] = Highest(used)
  BY <1>0, MarksAre
<1>8. m[2] - low + 1 <= max \/ (m[1] = 0 /\ low = 0)
  BY <1>3, <1>6, <1>7, ClipMarkIs
<1> HIDE DEF low, c, ranges
<1>9. cache' = c /\ asked' = ranges /\ lines' = {}
  BY <1>4 DEF Fetch
<1> DEFINE W == Article \cap (low .. m[2])
<1>10. Cardinality(W) <= max
  <2>1. CASE low > m[2]
    <3>1. W = {}
      BY <1>5, <1>7, <2>1
    <3> QED
      BY <1>6, <3>1, FS_EmptySet
  <2>2. CASE ~(low > m[2]) /\ m[2] - low + 1 <= max
    <3>1. low \in Int /\ m[2] \in Int
      BY <1>5, <1>7
    <3>2. IsFiniteSet(low .. m[2]) /\ Cardinality(low .. m[2]) = m[2] - low + 1
      BY <2>2, <3>1, FS_Interval
    <3>3. Cardinality(W) <= Cardinality(low .. m[2])
      BY <3>2, FS_Subset
    <3>4. Cardinality(W) \in Nat
      BY ArticlesFinite
    <3> QED
      BY <1>6, <2>2, <3>1, <3>2, <3>3, <3>4
  <2>3. CASE m[1] = 0 /\ low = 0
    <3>1. W = {}
      BY <1>7, <2>3
    <3> QED
      BY <1>6, <3>1, FS_EmptySet
  <2> QED
    BY <1>8, <2>1, <2>2, <2>3
<1>11. c.held \subseteq W
  <2>1. /\ cache.held \subseteq Article /\ cache.held \subseteq used /\ cache.high \in Nat
        /\ \A n \in cache.held : n <= cache.high
    BY <1>0, Numbers DEF TypeOK, Caches, Sound
  <2>2. CASE m[2] = Highest(used)
    <3>1. ASSUME NEW n \in c.held PROVE n \in W
      <4>1. n \in Article /\ n \in Nat /\ low <= n /\ n <= Highest(used)
        BY <1>5, <1>6, <2>1, HighestIs, Numbers
      <4> QED
        BY <1>5, <1>7, <2>2, <4>1
    <3> QED
      BY <3>1
  <2>3. CASE m = <<0, 0>> /\ style.zeros
    <3>1. style.modes \subseteq {2}
      <4>1. style \in Styles /\ ~(style.limits \subseteq {NoLimit})
        BY <1>0, <1>3 DEF TypeOK
      <4> QED
        BY <1>3, <2>3, <4>1 DEF LimitedSettings
    <3>2. mode = 2
      BY <3>1
    <3>3. m[1] = 0
      BY <2>3
    <3>4. cache.high = 0
      BY <1>3, <2>1, <3>2, <3>3 DEF UsesListgroup
    <3>5. cache.held = {}
      BY <2>1, <3>4, Numbers
    <3> QED
      BY <1>5, <3>5
  <2> QED
    BY <1>7, <2>2, <2>3
<1>12. \A n \in Article : Coming(n)' => n \in W
  <2>1. \A n : Coming(n)' => n \in All(ranges)
    BY <1>9 DEF Coming, All
  <2> QED
    BY <1>5, <2>1
<1>13. W \in SUBSET Article
  OBVIOUS
<1> HIDE DEF W
<1> QED
  BY <1>1, <1>9, <1>10, <1>11, <1>12, <1>13

LEMMA ListGroupWithin ==
  ASSUME IInv, ListGroup
  PROVE  Within'
<1> SUFFICES ASSUME limit' # NoLimit
             PROVE  (\E W \in SUBSET Article :
                       /\ Cardinality(W) <= limit /\ cache.held \subseteq W
                       /\ \A n \in Article : Coming(n) => n \in W)'
  BY DEF Within
<1> DEFINE existing == Clip(arts, limit)
           c == Listed(existing)
           ranges == Ranges(existing \ c.held)
<1>0. TypeOK /\ phase = "list"
  BY DEF IInv, ListGroup
<1>1. Fetch(c, ranges) /\ UNCHANGED limit
  BY DEF ListGroup, Listed
<1>2. existing \in SUBSET arts
  BY DEF Clip
<1>3. limit \in 0 .. MaxArticle /\ limit # NoLimit /\ arts \in SUBSET Article
  <2>1. limit \in style.limits \cup {NoLimit} /\ limit # NoLimit
    BY <1>0, <1>1 DEF TypeOK
  <2> QED
    BY <1>0, <2>1, StyleIs
<1>4. Cardinality(existing) <= limit
  BY <1>3, ClipBounds
<1> HIDE DEF existing
<1>5. /\ c.held = cache.held \cap existing
      /\ All(ranges) = existing \ c.held
  BY <1>0, <1>2, ListGroupAsks
<1> HIDE DEF c, ranges
<1>6. cache' = c /\ asked' = ranges /\ lines' = {}
  BY <1>1 DEF Fetch
<1>7. \A n : Coming(n)' => n \in existing
  BY <1>5, <1>6 DEF Coming, All
<1>8. existing \in SUBSET Article
  BY <1>2, <1>3
<1> QED
  BY <1>1, <1>4, <1>5, <1>6, <1>7, <1>8

\* A step that files only what was coming.
LEMMA KeepsWithin ==
  ASSUME Within, phase' = "fetch" => phase = "fetch",
         UNCHANGED <<style, limit>>,
         \A n \in cache'.held : n \in cache.held \/ Coming(n),
         cache'.held \subseteq Article,
         \A n : Coming(n)' => Coming(n)
  PROVE  Within'
<1> SUFFICES ASSUME phase = "fetch", limit # NoLimit, 0 \notin style.modes
             PROVE  (\E W \in SUBSET Article :
                       /\ Cardinality(W) <= limit /\ cache.held \subseteq W
                       /\ \A n \in Article : Coming(n) => n \in W)'
  BY DEF Within
<1>1. PICK W \in SUBSET Article :
        /\ Cardinality(W) <= limit /\ cache.held \subseteq W
        /\ \A n \in Article : Coming(n) => n \in W
  BY DEF Within
<1>2. Cardinality(W) <= limit' /\ cache'.held \subseteq W
  BY <1>1
<1>3. \A n \in Article : Coming(n)' => n \in W
  BY <1>1
<1> QED
  BY <1>2, <1>3

LEMMA WithinNext ==
  ASSUME LimitedSettings, IInv, IInv', Within, [Next]_vars
  PROVE  Within'
<1>0. TypeOK /\ Asking /\ cache'.held \subseteq Article
  BY DEF IInv, TypeOK, Caches
<1>1. ASSUME NEW n \in Article, Post(n) \/ Expire(n) PROVE Within'
  <2>1. UNCHANGED <<style, limit, cache, phase, asked, lines>>
    BY <1>1 DEF Post, Expire, update
  <2> QED
    BY <1>0, <2>1, KeepsWithin DEF Coming
<1>2. ASSUME NEW mode \in style.modes, NEW max \in style.limits, Group(mode, max) PROVE Within'
  BY <1>2, GroupWithin
<1>3. CASE ListGroup
  BY <1>3, ListGroupWithin
<1>4. CASE Reply
  <2>1. /\ lines' = Holds(First) /\ asked' = asked \ {First} /\ asked # {}
        /\ UNCHANGED <<style, limit, cache, phase>>
    BY <1>4 DEF Reply, server
  <2>2. First \in asked
    BY <1>0, <2>1, FirstIs
  <2>3. \A n \in Holds(First) : n \in In(First)
    <3>1. First[1] \in Nat /\ First[2] \in Nat /\ \A n \in arts : n \in Nat
      BY <1>0, <2>2, StyleIs, Numbers DEF TypeOK
    <3> QED
      BY <3>1 DEF Holds, In
  <2>4. \A n : Coming(n)' => Coming(n)
    BY <2>1, <2>2, <2>3 DEF Coming
  <2> QED
    BY <1>0, <2>1, <2>4, KeepsWithin
<1>5. CASE Line
  <2>1. /\ cache' = WithItem(cache, Min(lines)) /\ lines' = lines \ {Min(lines)}
        /\ UNCHANGED <<style, limit, phase, asked>> /\ lines # {}
    BY <1>5 DEF Line, server
  <2>2. Min(lines) \in lines /\ Min(lines) \in Article /\ cache \in Caches
    BY <1>0, <2>1, LineIs DEF TypeOK
  <2>3. cache'.held = cache.held \cup {Min(lines)}
    BY <2>1, <2>2, WithItemIs
  <2>4. \A n \in cache'.held : n \in cache.held \/ Coming(n)
    BY <2>2, <2>3 DEF Coming
  <2>5. \A n : Coming(n)' => Coming(n)
    BY <2>1 DEF Coming
  <2> QED
    BY <1>0, <2>1, <2>4, <2>5, KeepsWithin
<1>6. CASE Finish \/ Refused \/ Drop \/ FlushServer \/ Close \/ Kill
  <2>1. phase' # "fetch"
    BY <1>6 DEF Finish, Refused, Drop, FlushServer, Close, Kill, GiveUp, update
  <2> QED
    BY <2>1 DEF Within
<1>7. CASE UNCHANGED vars
  BY <1>7 DEF vars, server, update, Within, Coming
<1> QED
  BY <1>1, <1>2, <1>3, <1>4, <1>5, <1>6, <1>7 DEF Next

\* flushlow(), flush() and the numbers asked for: an update that ends leaves no
\* header whose article was gone before it began, with LISTGROUP or when the
\* low mark follows what is removed; and no more than maxheaders.
THEOREM UpdateBringsNothingElse ==
  ASSUME LimitedSettings
  PROVE  Spec => NothingExtra
<1> DEFINE NoMore ==
      /\ \/ style.modes = {2}
         \/ style.expires = "lowest" /\ ~style.lowLags /\ ~style.zeros
         => cache.held \subseteq alive
      /\ limit # NoLimit /\ 0 \notin style.modes => Cardinality(cache.held) <= limit
<1>1. Init => Within
  BY DEF Init, Within
<1>2. IInv /\ IInv' /\ Within /\ [Next]_vars => Within'
  BY WithinNext
<1>3. IInv /\ Within => [Finish => NoMore]_vars
  <2> SUFFICES ASSUME IInv, Within, Finish PROVE NoMore
    OBVIOUS
  <2>1. phase = "fetch" /\ TypeOK /\ Leaving
    BY DEF Finish, IInv
  <2>2. ExpiresFollowed => cache.held \subseteq alive
    BY <2>1 DEF Leaving
  <2>3. ASSUME limit # NoLimit, 0 \notin style.modes PROVE Cardinality(cache.held) <= limit
    <3>1. PICK W \in SUBSET Article : Cardinality(W) <= limit /\ cache.held \subseteq W
      BY <2>1, <2>3 DEF Within
    <3>2. IsFiniteSet(W) /\ Cardinality(W) \in Nat
      BY ArticlesFinite
    <3>3. Cardinality(cache.held) <= Cardinality(W)
      BY <3>1, <3>2, FS_Subset
    <3>4. Cardinality(cache.held) \in Nat
      BY <3>1, ArticlesFinite
    <3>5. limit \in Nat
      <4>1. limit \in style.limits
        BY <2>1, <2>3 DEF TypeOK
      <4> QED
        BY <2>1, <2>3, <4>1, StyleIs
    <3> QED
      BY <3>1, <3>2, <3>3, <3>4, <3>5
  <2> QED
    BY <2>2, <2>3 DEF ExpiresFollowed
<1> QED
  BY <1>1, <1>2, <1>3, Invariance, PTL DEF Spec, NothingExtra
=============================================================================
