--------------------------- MODULE RetrieveProofs ---------------------------
(***************************************************************************)
(* Theorems about Retrieve for any posts, servers, options and parity set: *)
(* a post is marked only when it was decoded, found or marked by the user; *)
(* when nget ends without an error everything it was to get is there, and  *)
(* what is damaged can be repaired; and no more volumes are downloaded than *)
(* that takes, for which the knapsack is shown to be right for any items.  *)
(***************************************************************************)
EXTENDS Retrieve, FiniteSetTheorems, WellFoundedInduction, TLAPS

-----------------------------------------------------------------------------
(* Induction, and sums over finite sets.  SumFunctionOnSet takes the        *)
(* members of a set one by one, each time one that CHOOSE names.            *)

LEMMA LeastExists ==
  ASSUME NEW S \in SUBSET Nat, S # {}
  PROVE  \E x \in S : \A y \in S : x <= y
<1> DEFINE Less == {ss \in Nat \X Nat : ss[1] < ss[2]}
<1>1. IsWellFoundedOn(Less, Nat)
  BY NatLessThanWellFounded DEF OpToRel
<1> HIDE DEF Less
<1>2. PICK x \in S : \A y \in S : ~(<<y, x>> \in Less)
  BY <1>1, WFMin
<1>3. ASSUME NEW y \in S PROVE x <= y
  <2>1. x \in Nat /\ y \in Nat /\ ~(<<y, x>> \in Less)
    BY <1>2
  <2>2. <<y, x>> \in Nat \X Nat /\ <<y, x>>[1] = y /\ <<y, x>>[2] = x
    BY <2>1
  <2>3. ~(y < x)
    BY <2>1, <2>2 DEF Less
  <2> QED
    BY <2>1, <2>3
<1> QED
  BY <1>3

\* Induction over the numbers.
LEMMA Induction ==
  ASSUME NEW T, 0 \in T, \A n \in Nat : n \in T => n + 1 \in T
  PROVE  \A n \in Nat : n \in T
<1> SUFFICES ASSUME Nat \ T # {} PROVE FALSE
  OBVIOUS
<1>1. PICK x \in Nat \ T : \A y \in Nat \ T : x <= y
  BY LeastExists
<1>2. x # 0
  OBVIOUS
<1>3. x - 1 \in Nat /\ x - 1 \in T
  BY <1>1, <1>2
<1> QED
  BY <1>1, <1>3

Chosen(s) == CHOOSE x \in s : TRUE
Rest(s) == s \ {Chosen(s)}

IsSumTable(f, S, h) == h = [s \in SUBSET S |-> IF s = {} THEN 0 ELSE f[Chosen(s)] + h[Rest(s)]]

LEMMA SumIs ==
  ASSUME NEW f, NEW S
  PROVE  SumFunctionOnSet(f, S) = (CHOOSE h : IsSumTable(f, S, h))[S]
BY DEF SumFunctionOnSet, FoldFunctionOnSet, MapThenFoldSet, IsSumTable, Chosen, Rest

LEMMA RestIs ==
  ASSUME NEW S, IsFiniteSet(S), NEW s \in SUBSET S, s # {}
  PROVE  /\ Chosen(s) \in s /\ Chosen(s) \in S /\ Rest(s) \in SUBSET S
         /\ IsFiniteSet(s) /\ IsFiniteSet(Rest(s))
         /\ Cardinality(s) \in Nat /\ Cardinality(Rest(s)) \in Nat 
         /\ Cardinality(Rest(s)) = Cardinality(s) - 1
<1>1. Chosen(s) \in s
  BY DEF Chosen
<1>2. IsFiniteSet(s) /\ Cardinality(s) \in Nat
  BY FS_Subset, FS_CardinalityType
<1> QED
  BY <1>1, <1>2, FS_RemoveElement, FS_CardinalityType DEF Rest

LEMMA SumTableExists ==
  ASSUME NEW f, NEW S, IsFiniteSet(S), \A x \in S : f[x] \in Nat
  PROVE  \E h \in [SUBSET S -> Nat] : IsSumTable(f, S, h)
<1> DEFINE Upto(n) == {s \in SUBSET S : Cardinality(s) <= n}
           Entry(h, s) == IF s = {} THEN 0 ELSE f[Chosen(s)] + h[Rest(s)]
           T == {n \in Nat : \E h \in [Upto(n) -> Nat] : \A s \in Upto(n) : h[s] = Entry(h, s)}
<1>1. 0 \in T
  <2> DEFINE h == [s \in Upto(0) |-> 0]
  <2>1. ASSUME NEW s \in Upto(0) PROVE s = {}
    BY FS_EmptySet, FS_Subset, FS_CardinalityType
  <2>2. h \in [Upto(0) -> Nat] /\ \A s \in Upto(0) : h[s] = Entry(h, s)
    BY <2>1
  <2> HIDE DEF h
  <2> QED
    BY <2>2
<1>2. ASSUME NEW n \in Nat, n \in T PROVE n + 1 \in T
  <2>1. PICK h \in [Upto(n) -> Nat] : \A s \in Upto(n) : h[s] = Entry(h, s)
    BY <1>2
  <2> DEFINE g == [s \in Upto(n + 1) |-> Entry(h, s)]
  <2>2. ASSUME NEW s \in Upto(n + 1), s # {} PROVE Rest(s) \in Upto(n)
    BY <2>2, RestIs
  <2>3. ASSUME NEW s \in Upto(n + 1) PROVE Entry(h, s) \in Nat
    <3>1. CASE s = {}
      BY <3>1
    <3>2. CASE s # {}
      <4>1. h[Rest(s)] \in Nat /\ f[Chosen(s)] \in Nat
        BY <3>2, <2>2, <2>1, RestIs
      <4> QED
        BY <4>1, <3>2
    <3> QED
      BY <3>1, <3>2
  <2>4. ASSUME NEW s \in Upto(n) PROVE g[s] = h[s]
    <3>1. s \in Upto(n + 1)
      BY FS_CardinalityType, FS_Subset
    <3> QED
      BY <3>1, <2>1
  <2>5. ASSUME NEW s \in Upto(n + 1) PROVE g[s] = Entry(g, s)
    <3>1. CASE s = {}
      BY <3>1
    <3>2. CASE s # {}
      <4>1. g[Rest(s)] = h[Rest(s)]
        BY <3>2, <2>2, <2>4
      <4> QED
        BY <4>1
    <3> QED
      BY <3>1, <3>2
  <2>6. g \in [Upto(n + 1) -> Nat]
    BY <2>3
  <2>7. \A s \in Upto(n + 1) : g[s] = Entry(g, s)
    BY <2>5
  <2> HIDE DEF g, Entry, Upto
  <2>8. \E q \in [Upto(n + 1) -> Nat] : \A s \in Upto(n + 1) : q[s] = Entry(q, s)
    BY <2>6, <2>7
  <2> QED
    BY <2>8
<1> HIDE DEF T
<1>3. \A n \in Nat : n \in T
  BY <1>1, <1>2, Induction
<1> USE DEF T
<1>4. Cardinality(S) \in Nat /\ \A s \in SUBSET S : Cardinality(s) <= Cardinality(S)
  BY FS_CardinalityType, FS_Subset
<1>5. Upto(Cardinality(S)) = SUBSET S
  BY <1>4
<1>6. PICK h \in [SUBSET S -> Nat] : \A s \in SUBSET S : h[s] = Entry(h, s)
  BY <1>3, <1>4, <1>5
<1>7. h = [s \in SUBSET S |-> Entry(h, s)]
  BY <1>6
<1> QED
  BY <1>7 DEF IsSumTable

LEMMA SubsetInduction ==
  ASSUME NEW S, IsFiniteSet(S), NEW T,
         \A s \in SUBSET S : (\A r \in SUBSET s : r # s => r \in T) => s \in T
  PROVE  \A s \in SUBSET S : s \in T
<1> SUFFICES ASSUME NEW b \in SUBSET S, b \notin T PROVE FALSE
  OBVIOUS
<1> DEFINE Counts == {Cardinality(s) : s \in {s \in SUBSET S : s \notin T}}
<1>1. \A s \in SUBSET S : IsFiniteSet(s) /\ Cardinality(s) \in Nat
  BY FS_Subset, FS_CardinalityType
<1>2. Counts \in SUBSET Nat /\ Counts # {}
  BY <1>1
<1>3. PICK n \in Counts : \A m \in Counts : n <= m
  BY <1>2, LeastExists
<1>4. PICK s \in SUBSET S : s \notin T /\ Cardinality(s) = n
  BY <1>3
<1>5. ASSUME NEW r \in SUBSET s, r # s PROVE r \in T
  <2>1. Cardinality(r) < Cardinality(s) /\ Cardinality(r) \in Nat
    BY <1>1, <1>5, FS_Subset, FS_CardinalityType
  <2>2. r \notin T => n <= Cardinality(r)
    BY <1>3
  <2>3. n \in Nat
    BY <1>2
  <2> QED
    BY <2>1, <2>2, <2>3, <1>4
<1> QED
  BY <1>4, <1>5

LEMMA SumTableUnique ==
  ASSUME NEW f, NEW S, IsFiniteSet(S), NEW R \in SUBSET S, NEW g, NEW h,
         IsSumTable(f, S, g), IsSumTable(f, R, h)
  PROVE  \A s \in SUBSET R : g[s] = h[s]
<1> DEFINE T == {s \in SUBSET R : g[s] = h[s]}
<1>1. IsFiniteSet(R)
  BY FS_Subset
<1>2. ASSUME NEW s \in SUBSET R, \A r \in SUBSET s : r # s => r \in T PROVE s \in T
  <2>1. /\ g[s] = IF s = {} THEN 0 ELSE f[Chosen(s)] + g[Rest(s)]
        /\ h[s] = IF s = {} THEN 0 ELSE f[Chosen(s)] + h[Rest(s)]
    BY DEF IsSumTable
  <2>2. CASE s = {}
    BY <2>1, <2>2
  <2>3. CASE s # {}
    <3>1. Rest(s) \in SUBSET s /\ Rest(s) # s
      BY <2>3 DEF Rest, Chosen
    <3>2. g[Rest(s)] = h[Rest(s)]
      BY <3>1, <1>2
    <3> QED
      BY <2>1, <2>3, <3>2
  <2> QED
    BY <2>2, <2>3
<1> HIDE DEF T
<1>3. \A s \in SUBSET R : s \in T
  BY <1>1, <1>2, SubsetInduction
<1> QED
  BY <1>3 DEF T

LEMMA SumOfTable ==
  ASSUME NEW f, NEW S, IsFiniteSet(S), \A x \in S : f[x] \in Nat
  PROVE  \E h \in [SUBSET S -> Nat] : IsSumTable(f, S, h) /\ \A s \in SUBSET S : SumFunctionOnSet(f, s) = h[s]
<1>1. PICK h \in [SUBSET S -> Nat] : IsSumTable(f, S, h)
  BY SumTableExists
<1>2. ASSUME NEW s \in SUBSET S PROVE SumFunctionOnSet(f, s) = h[s]
  <2> DEFINE k == CHOOSE k : IsSumTable(f, s, k)
  <2>1. IsSumTable(f, s, k)
    BY FS_Subset, SumTableExists
  <2> HIDE DEF k
  <2>2. k[s] = h[s]
    BY <1>1, <2>1, SumTableUnique
  <2> QED
    BY <2>2, SumIs DEF k
<1> QED
  BY <1>1, <1>2

LEMMA SumType ==
  ASSUME NEW f, NEW S, IsFiniteSet(S), \A x \in S : f[x] \in Nat
  PROVE  SumFunctionOnSet(f, S) \in Nat /\ SumFunctionOnSet(f, {}) = 0
<1>1. PICK h \in [SUBSET S -> Nat] :
        IsSumTable(f, S, h) /\ \A s \in SUBSET S : SumFunctionOnSet(f, s) = h[s]
  BY SumOfTable
<1> QED
  BY <1>1 DEF IsSumTable

LEMMA SumOfRest ==
  ASSUME NEW f, NEW S, IsFiniteSet(S), S # {}, \A x \in S : f[x] \in Nat
  PROVE  SumFunctionOnSet(f, S) = f[Chosen(S)] + SumFunctionOnSet(f, Rest(S))
<1>1. PICK h \in [SUBSET S -> Nat] :
        IsSumTable(f, S, h) /\ \A s \in SUBSET S : SumFunctionOnSet(f, s) = h[s]
  BY SumOfTable
<1>2. h[S] = f[Chosen(S)] + h[Rest(S)]
  BY <1>1 DEF IsSumTable
<1> QED
  BY <1>1, <1>2 DEF Rest

\* It does not matter which member is taken first.
LEMMA SumOfOthers ==
  ASSUME NEW f, NEW S, IsFiniteSet(S), \A x \in S : f[x] \in Nat
  PROVE  \A x \in S : SumFunctionOnSet(f, S) = f[x] + SumFunctionOnSet(f, S \ {x})
<1> DEFINE sum(s) == SumFunctionOnSet(f, s)
           T == {s \in SUBSET S : \A x \in s : sum(s) = f[x] + sum(s \ {x})}
<1>1. \A s \in SUBSET S : IsFiniteSet(s) /\ sum(s) \in Nat
  BY FS_Subset, SumType
<1>2. \A s \in SUBSET S : s # {} => Chosen(s) \in s /\ sum(s) = f[Chosen(s)] + sum(s \ {Chosen(s)})
  BY <1>1, SumOfRest DEF Chosen, Rest
<1>3. ASSUME NEW s \in SUBSET S, \A r \in SUBSET s : r # s => r \in T PROVE s \in T
  <2> SUFFICES ASSUME NEW x \in s PROVE sum(s) = f[x] + sum(s \ {x})
    OBVIOUS
  <2> DEFINE c == Chosen(s)
  <2>1. c \in s /\ sum(s) = f[c] + sum(s \ {c})
    BY <1>2
  <2> HIDE DEF c, sum
  <2>2. CASE c = x
    BY <2>1, <2>2
  <2>3. CASE c # x
    <3>1. s \ {c} \in T /\ x \in s \ {c} /\ s \ {x} \in T /\ c \in s \ {x}
      BY <2>1, <2>3, <1>3
    <3>2. /\ sum(s \ {c}) = f[x] + sum((s \ {c}) \ {x})
          /\ sum(s \ {x}) = f[c] + sum((s \ {x}) \ {c})
      BY <3>1
    <3> DEFINE z == (s \ {c}) \ {x}
    <3>3. (s \ {x}) \ {c} = z
      OBVIOUS
    <3>4. f[c] \in Nat /\ f[x] \in Nat /\ sum(z) \in Nat
      BY <1>1, <2>1
    <3>5. sum(s \ {c}) = f[x] + sum(z) /\ sum(s \ {x}) = f[c] + sum(z)
      BY <3>2, <3>3
    <3> HIDE DEF z
    <3> QED
      BY <2>1, <3>4, <3>5
  <2> QED
    BY <2>2, <2>3
<1> HIDE DEF T
<1>4. \A s \in SUBSET S : s \in T
  BY <1>3, SubsetInduction
<1> QED
  BY <1>4 DEF T

LEMMA SumMonotone ==
  ASSUME NEW f, NEW g, NEW S, IsFiniteSet(S),
         \A x \in S : f[x] \in Nat /\ g[x] \in Nat /\ f[x] <= g[x]
  PROVE  SumFunctionOnSet(f, S) <= SumFunctionOnSet(g, S)
<1> DEFINE T == {s \in SUBSET S : SumFunctionOnSet(f, s) <= SumFunctionOnSet(g, s)}
<1>1. \A s \in SUBSET S : IsFiniteSet(s) /\ SumFunctionOnSet(f, s) \in Nat /\ SumFunctionOnSet(g, s) \in Nat
  BY FS_Subset, SumType
<1>2. ASSUME NEW s \in SUBSET S, \A r \in SUBSET s : r # s => r \in T PROVE s \in T
  <2>1. CASE s = {}
    BY <1>1, <2>1, SumType
  <2>2. CASE s # {}
    <3>1. PICK x \in s : TRUE
      BY <2>2
    <3>2. s \ {x} \in T
      BY <1>2, <3>1
    <3>3. /\ SumFunctionOnSet(f, s) = f[x] + SumFunctionOnSet(f, s \ {x})
          /\ SumFunctionOnSet(g, s) = g[x] + SumFunctionOnSet(g, s \ {x})
      BY <1>1, SumOfOthers
    <3> QED
      BY <3>2, <3>3, <1>1
  <2> QED
    BY <2>1, <2>2
<1> HIDE DEF T
<1>3. S \in T
  BY <1>2, SubsetInduction
<1> QED
  BY <1>3 DEF T

-----------------------------------------------------------------------------
(* The inductive invariant. *)

Busy == {"part", "try", "write", "clean", "next"}

\* There is a post while one is worked on, and a part while one is fetched; and
\* none is fetched after one could not be had.
Working ==
  /\ pc \in Busy => cur \in Dates(job.posts)
  /\ pc \in {"try", "write"} => left # {} /\ ~dlerr

\* Each part of the post is had or still to come, unless one could not be had:
\* then there was an error, and without -i the post is not decoded.
Accounted ==
  pc \in {"part", "try", "write"} =>
    /\ got \cup left = Cur.parts \/ ((job.incomplete \/ dlerr) /\ (status # {} \/ job.noconnect))
    /\ dlerr => status # {} \/ job.noconnect

OnDisk(name) == \E f \in disk : f.name = name

\* What is known of a post before its temp files are deleted.
Decoded == pc = "clean" => cur \in earned /\ OnDisk(Cur.name)

\* What nget was started to get, and what has become of a post.
Wanted == Plain(Matched(Marked, job.autopar))
Settled(p) == p.date \in earned \/ OnDisk(p.name)
ToCome(p) == p \in files /\ pc # "done" /\ (pc = "next" => p # Cur)
NoErrors == status = {} /\ ~job.noconnect /\ ~job.nodecode

Pending == pc # "idle" /\ NoErrors => \A p \in Wanted : Settled(p) \/ ToCome(p)

IInv == TypeOK /\ Working /\ Accounted /\ Decoded /\ CompleteMarkedDecoded /\ Pending

-----------------------------------------------------------------------------
(* Jobs and posts. *)

LEMMA MinIs ==
  ASSUME NEW S \in SUBSET Nat, S # {}
  PROVE  Min(S) \in S
BY LeastExists DEF Min

\* What a job is made of.
LEMMA JobIs ==
  ASSUME NEW j \in Job
  PROVE  /\ j.posts \subseteq Post /\ j.incomplete \in BOOLEAN /\ j.noconnect \in BOOLEAN
         /\ j.maxretry \in 1 .. 2 /\ \A d \in Date : j.at[d] \in SUBSET Server
BY DEF Job

LEMMA PostIs ==
  ASSUME NEW p \in Post
  PROVE  /\ p.date \in Date /\ p.name \in Name
         /\ p.parts \subseteq Part /\ p.parts # {}
BY DEF Post, Part

LEMMA DateIs == Date \subseteq Nat /\ 0 \notin Date
BY RetrieveAssumption DEF RetrieveAssumption, Date

LEMMA PostOfIs ==
  ASSUME job \in Job, NEW d \in Dates(job.posts)
  PROVE  /\ PostOf(d) \in job.posts /\ PostOf(d).date = d /\ d \in Date
         /\ PostOf(d).name \in Name /\ PostOf(d).parts \subseteq Part /\ PostOf(d).parts # {}
<1>1. PostOf(d) \in job.posts /\ PostOf(d).date = d
  BY DEF PostOf, Dates
<1>2. PostOf(d) \in Post
  BY <1>1, JobIs
<1> QED
  BY <1>1, <1>2, PostIs

-----------------------------------------------------------------------------
(* Autopar queues posts of the job. *)

LEMMA KnownIs == Known \in BOOLEAN
BY DEF Known

LEMMA ParInfoIs ==
  ASSUME NEW s
  PROVE  s \in ParInfos <=>
           /\ s = [known |-> s.known, pars |-> s.pars, loose |-> s.loose, vols |-> s.vols,
                   extra |-> s.extra, finished |-> s.finished]
           /\ s.known \in BOOLEAN /\ s.pars \subseteq job.posts /\ s.loose \subseteq job.posts
           /\ s.vols \subseteq job.posts /\ s.extra \subseteq job.posts
           /\ s.finished \in {"no", "ok", "failed"}
BY DEF ParInfos

LEMMA NoSetIs == NoSet \in ParInfos
BY DEF NoSet, ParInfos

LEMMA PutAsideIs ==
  ASSUME NEW S \in SUBSET job.posts
  PROVE  PutAside(S) \in ParInfos /\ PutAside(S).finished = "no"
<1> DEFINE wanted(p) == p.role # "data" /\ (job.ver = 2 \/ job.incomplete \/ Complete(p))
           vols == {p \in S : wanted(p) /\ p.role = "vol"}
           pars == {p \in S : wanted(p) /\ p.role = "par"}
           extra == {p \in S : Takes(p) /\ ~wanted(p)}
           claimed == IF Known THEN vols ELSE {}
           loose == IF Known THEN {} ELSE vols
           s == PutAside(S)
<1>1. s = [NoSet EXCEPT !.known = Known, !.pars = pars, !.vols = claimed, !.loose = loose, !.extra = extra]
  BY DEF PutAside
<1>2. pars \subseteq job.posts /\ claimed \subseteq job.posts /\ loose \subseteq job.posts /\ extra \subseteq job.posts
  OBVIOUS
<1> HIDE DEF vols, pars, extra, claimed, loose, s
<1>3. s = [known |-> Known, pars |-> pars, loose |-> loose, vols |-> claimed, extra |-> extra, finished |-> "no"]
  BY <1>1 DEF NoSet
<1>4. s \in ParInfos /\ s.finished = "no"
  BY <1>2, <1>3, KnownIs DEF ParInfos
<1> QED
  BY <1>4 DEF s

LEMMA ClaimedIs ==
  ASSUME NEW s \in ParInfos
  PROVE  Claimed(s) \in ParInfos /\ Claimed(s).finished = s.finished /\ Claimed(s).known = Known
<1> DEFINE vols == s.vols \cup IF Known THEN s.loose ELSE {}
           loose == IF Known THEN {} ELSE s.loose
           t == Claimed(s)
<1>1. /\ s = [known |-> s.known, pars |-> s.pars, loose |-> s.loose, vols |-> s.vols,
              extra |-> s.extra, finished |-> s.finished]
      /\ s.known \in BOOLEAN /\ s.pars \subseteq job.posts /\ s.loose \subseteq job.posts
      /\ s.vols \subseteq job.posts /\ s.extra \subseteq job.posts
      /\ s.finished \in {"no", "ok", "failed"}
  BY ParInfoIs
<1>2. t = [s EXCEPT !.known = Known, !.vols = vols, !.loose = loose]
  BY DEF Claimed
<1>3. vols \subseteq job.posts /\ loose \subseteq job.posts
  BY <1>1
<1> HIDE DEF vols, loose, t
<1>4. t = [known |-> Known, pars |-> s.pars, loose |-> loose, vols |-> vols,
           extra |-> s.extra, finished |-> s.finished]
  BY <1>1, <1>2
<1>5. t \in ParInfos /\ t.finished = s.finished /\ t.known = Known
  BY <1>1, <1>3, <1>4, KnownIs DEF ParInfos
<1> QED
  BY <1>5 DEF t

LEMMA InitialParsIs ==
  ASSUME NEW s \in ParInfos
  PROVE  InitialPars(s) \subseteq job.posts
<1>1. s.pars \subseteq job.posts /\ s.loose \subseteq job.posts
  BY ParInfoIs
<1>2. Smallest(s.loose) \subseteq s.loose
  BY DEF Smallest
<1> QED
  BY <1>1, <1>2 DEF InitialPars

LEMMA VolumesIs ==
  ASSUME NEW s \in ParInfos
  PROVE  Volumes(s) \subseteq job.posts
<1>1. s.vols \subseteq job.posts /\ s.extra \subseteq job.posts
  BY ParInfoIs
<1>2. \A num, have : FirstVols(s, num, have) \subseteq s.vols
  BY DEF FirstVols
<1>3. \A num : Extra(s, num) \subseteq s.extra
  BY DEF Extra
<1>4. \A num, have : CheapestVols(s, num, have) \subseteq s.vols \cup s.extra
  BY <1>3 DEF CheapestVols
<1> QED
  BY <1>1, <1>2, <1>4 DEF Volumes

LEMMA MoreParsIs ==
  ASSUME NEW s \in ParInfos
  PROVE  /\ MorePars(s) \subseteq job.posts /\ AfterMorePars(s) \in ParInfos
         /\ AfterMorePars(s).known = Known
         /\ AfterMorePars(s).finished =
              IF ~Known \/ s.finished # "no" THEN s.finished
              ELSE IF Needed = 0 THEN "ok"
              ELSE IF Volumes(Claimed(s)) = {} THEN "failed" ELSE "no"
<1> DEFINE c == Claimed(s)
           more == MorePars(s)
           fin == IF ~Known \/ c.finished # "no" THEN c.finished
                  ELSE IF Needed = 0 THEN "ok"
                  ELSE IF Volumes(c) = {} THEN "failed" ELSE "no"
           t == AfterMorePars(s)
<1>1. c \in ParInfos
  BY ClaimedIs
<1>2. more \subseteq job.posts
  BY <1>1, InitialParsIs, VolumesIs DEF MorePars
<1>3. t = [c EXCEPT !.pars = {}, !.loose = c.loose \ more, !.vols = c.vols \ more, !.extra = c.extra \ more,
                    !.finished = fin]
  BY DEF AfterMorePars
<1> HIDE DEF c, more, t
<1>4. /\ c = [known |-> c.known, pars |-> c.pars, loose |-> c.loose, vols |-> c.vols,
              extra |-> c.extra, finished |-> c.finished]
      /\ c.known \in BOOLEAN /\ c.pars \subseteq job.posts /\ c.loose \subseteq job.posts
      /\ c.vols \subseteq job.posts /\ c.extra \subseteq job.posts
      /\ c.finished \in {"no", "ok", "failed"}
  BY <1>1, ParInfoIs
<1>5. fin \in {"no", "ok", "failed"}
  BY <1>4
<1> HIDE DEF fin
<1>6. t = [known |-> c.known, pars |-> {}, loose |-> c.loose \ more, vols |-> c.vols \ more,
           extra |-> c.extra \ more, finished |-> fin]
  BY <1>3, <1>4
<1>7. t \in ParInfos
  BY <1>4, <1>5, <1>6 DEF ParInfos
<1>8. t.known = Known /\ t.finished = fin
  BY <1>6, ClaimedIs DEF c
<1>9. c.finished = s.finished
  BY ClaimedIs DEF c
<1> QED
  BY <1>2, <1>7, <1>8, <1>9 DEF more, t, fin, c

-----------------------------------------------------------------------------
(* What steps have in common. *)

LEMMA WantedKept ==
  ASSUME job' = job, midfile' = midfile
  PROVE  Wanted' = Wanted
BY DEF Wanted, Plain, Matched, Marked, Takes, Complete

\* Once settled, always settled; so it is enough to look at what leaves files.
LEMMA PendingKept ==
  ASSUME IInv, job' = job, midfile' = midfile, pc # "idle",
         earned \subseteq earned', disk \subseteq disk', status \subseteq status',
         NoErrors' => \A p \in Wanted : ToCome(p) => Settled(p)' \/ ToCome(p)'
  PROVE  Pending'
<1> SUFFICES ASSUME NoErrors', NEW p \in Wanted PROVE Settled(p)' \/ ToCome(p)'
  BY WantedKept DEF Pending
<1>1. NoErrors
  BY DEF NoErrors
<1>2. Settled(p) \/ ToCome(p)
  BY <1>1 DEF IInv, Pending
<1>3. Settled(p) => Settled(p)'
  BY DEF Settled, OnDisk
<1> QED
  BY <1>2, <1>3

\* A step after which the same post is still worked on.
LEMMA SamePost ==
  ASSUME IInv, job' = job, midfile' = midfile, disk' = disk, files' = files, cur' = cur,
         earned' = earned, status \subseteq status', pc \in Busy \ {"next"}, pc' \in Busy \ {"next"}
  PROVE  Pending'
<1>1. \A p : ToCome(p) => ToCome(p)'
  BY DEF ToCome, Busy
<1> QED
  BY <1>1, PendingKept DEF Busy

\* Types of what is never changed in a session.
LEMMA PastIs ==
  ASSUME IInv, NEW had \in BOOLEAN, left # {}, Past(had)
  PROVE  /\ NextPart \in left /\ left' \subseteq Part /\ got' \subseteq Part /\ cur' = cur /\ pc' = "part"
         /\ sap' = {} /\ round' = {} /\ redone' = 0
         /\ had => got' \cup left' = got \cup left
<1>1. left \subseteq Part /\ got \subseteq Part /\ Part \subseteq Nat
  BY DEF IInv, TypeOK, Part
<1>2. NextPart \in left
  BY <1>1, MinIs DEF NextPart
<1>3. left' = left \ {NextPart} /\ got' = IF had THEN got \cup {NextPart} ELSE got
  BY DEF Past
<1> QED
  BY <1>1, <1>2, <1>3 DEF Past, NoArticle

RoundType == round \subseteq sap /\ sap \subseteq Server /\ redone \in 0 .. job.maxretry - 1

LEMMA NoRound ==
  ASSUME TypeOK, job' = job, sap' = {}, round' = {}, redone' = 0
  PROVE  RoundType'
<1>1. job.maxretry \in 1 .. 2
  BY JobIs DEF TypeOK
<1> QED
  BY <1>1 DEF RoundType

-----------------------------------------------------------------------------
(* The parts of a post. *)

LEMMA PickKeeps ==
  ASSUME IInv, Pick
  PROVE  IInv'
<1>1. TypeOK
  BY DEF IInv
<1>2. /\ pc = "pick" /\ files # {} /\ cur' = Min(Dates(files)) /\ left' = PostOf(cur').parts
      /\ got' = {} /\ dlerr' = FALSE /\ pc' = "part"
      /\ job' = job /\ disk' = disk /\ set' = set /\ temps' = temps /\ midfile' = midfile /\ mid' = mid
      /\ files' = files /\ sap' = sap /\ round' = round /\ redone' = redone
      /\ status' = status /\ earned' = earned
  BY DEF Pick, article
<1>3. cur' \in Dates(job.posts)
  <2>1. \A p \in files : p.date \in Nat
    BY <1>1, JobIs, PostIs, DateIs DEF TypeOK
  <2>2. Dates(files) \in SUBSET Nat /\ Dates(files) # {}
    BY <1>2, <2>1 DEF Dates
  <2>3. cur' \in Dates(files)
    BY <1>2, <2>2, MinIs
  <2> QED
    BY <1>1, <2>3 DEF TypeOK, Dates
<1>4. cur' \in Date /\ left' \subseteq Part
  BY <1>1, <1>2, <1>3, PostOfIs DEF TypeOK
<1>5. TypeOK'
  BY <1>1, <1>2, <1>4 DEF TypeOK, ParInfos
<1>6. Working'
  BY <1>2, <1>3 DEF Working, Dates
<1>7. Accounted'
  BY <1>2 DEF Accounted, Cur, PostOf
<1>8. Decoded' /\ CompleteMarkedDecoded'
  BY <1>2 DEF IInv, Decoded, CompleteMarkedDecoded, MarkedDecoded
<1>9. Pending'
  <2>1. \A p : ToCome(p) => ToCome(p)'
    BY <1>2 DEF ToCome
  <2> QED
    BY <1>2, <2>1, PendingKept
<1> QED
  BY <1>5, <1>6, <1>7, <1>8, <1>9 DEF IInv

\* A part is dealt with.
LEMMA PastKeeps ==
  ASSUME IInv, NEW had \in BOOLEAN, Past(had), left # {}, pc \in {"part", "try", "write"},
         job' = job, disk' = disk, set' = set, midfile' = midfile, mid' = mid, files' = files, earned' = earned,
         temps' \in [Date -> [Part -> {"none", "cut", "whole"}]],
         status \subseteq status', status' \subseteq {"retrieve", "decode", "undecoded", "autopar", "fatal"},
         dlerr' \in BOOLEAN,
         dlerr' /\ ~dlerr => status' # {} \/ job.noconnect,
         ~had => (job.incomplete \/ dlerr') /\ (status' # {} \/ job.noconnect),
         dlerr => dlerr'
  PROVE  IInv'
<1>1. TypeOK /\ Working /\ Accounted /\ cur \in Dates(job.posts)
  BY DEF IInv, Working, Busy
<1>2. /\ NextPart \in left /\ left' \subseteq Part /\ got' \subseteq Part /\ cur' = cur /\ pc' = "part"
      /\ sap' = {} /\ round' = {} /\ redone' = 0
      /\ had => got' \cup left' = got \cup left
  BY PastIs
<1>3. TypeOK'
  <2>1. RoundType'
    BY <1>1, <1>2, NoRound
  <2> QED
    BY <1>1, <1>2, <2>1 DEF TypeOK, RoundType, ParInfos
<1>4. Working'
  BY <1>1, <1>2 DEF Working, Dates
<1>5. Accounted'
  <2>1. Cur' = Cur
    BY <1>2 DEF Cur, PostOf
  <2>2. dlerr' => status' # {} \/ job.noconnect
    BY <1>1 DEF Accounted
  <2>3. got' \cup left' = Cur.parts \/ ((job.incomplete \/ dlerr') /\ (status' # {} \/ job.noconnect))
    BY <1>1, <1>2 DEF Accounted
  <2> QED
    BY <2>1, <2>2, <2>3 DEF Accounted
<1>6. Decoded' /\ CompleteMarkedDecoded'
  BY <1>2 DEF IInv, Decoded, CompleteMarkedDecoded, MarkedDecoded
<1>7. Pending'
  BY <1>2, SamePost DEF Busy
<1> QED
  BY <1>3, <1>4, <1>5, <1>6, <1>7 DEF IInv

\* Only the servers to ask change.
LEMMA RoundKeeps ==
  ASSUME IInv, pc \in {"part", "try"}, left # {}, ~dlerr, pc' \in {"try", "write"},
         RoundType',
         UNCHANGED <<job, disk, set, temps, midfile, mid, files, file, status, earned>>
  PROVE  IInv'
<1>1. /\ job' = job /\ disk' = disk /\ set' = set /\ temps' = temps /\ midfile' = midfile /\ mid' = mid
      /\ files' = files /\ cur' = cur /\ left' = left /\ got' = got /\ dlerr' = dlerr
      /\ status' = status /\ earned' = earned
  BY DEF file
<1>2. TypeOK'
  BY <1>1 DEF IInv, TypeOK, RoundType, ParInfos
<1>3. Working' /\ Accounted'
  BY <1>1 DEF IInv, Working, Accounted, Dates, Busy, Cur, PostOf
<1>4. Decoded' /\ CompleteMarkedDecoded'
  BY <1>1 DEF IInv, Decoded, CompleteMarkedDecoded, MarkedDecoded
<1>5. Pending'
  BY <1>1, SamePost DEF Busy
<1> QED
  BY <1>2, <1>3, <1>4, <1>5 DEF IInv

LEMMA PartKeeps ==
  ASSUME IInv, SkipPart \/ AlreadyHave \/ NoConnect \/ GiveUp \/ Write
  PROVE  IInv'
<1>1. TypeOK /\ Accounted /\ job.incomplete \in BOOLEAN
  BY JobIs DEF IInv, TypeOK
<1>2. CASE SkipPart
  <2>1. /\ Past(FALSE) /\ left # {} /\ pc = "part" /\ dlerr
        /\ job' = job /\ disk' = disk /\ set' = set /\ temps' = temps /\ midfile' = midfile /\ mid' = mid
        /\ files' = files /\ earned' = earned /\ status' = status /\ dlerr' = dlerr
    BY <1>2 DEF SkipPart, AtPart
  <2> QED
    BY <1>1, <2>1, PastKeeps DEF TypeOK, Accounted
<1>3. CASE AlreadyHave
  <2>1. /\ Past(TRUE) /\ left # {} /\ pc = "part" /\ ~dlerr
        /\ job' = job /\ disk' = disk /\ set' = set /\ temps' = temps /\ midfile' = midfile /\ mid' = mid
        /\ files' = files /\ earned' = earned /\ status' = status /\ dlerr' = dlerr
    BY <1>3 DEF AlreadyHave, AtPart
  <2> QED
    BY <1>1, <2>1, PastKeeps DEF TypeOK
<1>4. CASE NoConnect
  <2>1. /\ Past(FALSE) /\ left # {} /\ pc = "part" /\ ~dlerr /\ job.noconnect
        /\ job' = job /\ disk' = disk /\ set' = set /\ temps' = temps /\ midfile' = midfile /\ mid' = mid
        /\ files' = files /\ earned' = earned /\ status' = status /\ dlerr' = ~job.incomplete
    BY <1>4 DEF NoConnect, AtPart, Failed
  <2> QED
    BY <1>1, <2>1, PastKeeps DEF TypeOK
<1>5. CASE GiveUp
  <2>1. /\ Past(FALSE) /\ pc = "try"
        /\ job' = job /\ disk' = disk /\ set' = set /\ temps' = temps /\ midfile' = midfile /\ mid' = mid
        /\ files' = files /\ earned' = earned /\ status' = status \cup {"retrieve"} /\ dlerr' = ~job.incomplete
    BY <1>5 DEF GiveUp, Failed
  <2>2. left # {} /\ ~dlerr
    BY <2>1 DEF IInv, Working
  <2> QED
    BY <1>1, <2>1, <2>2, PastKeeps DEF TypeOK
<1>6. CASE Write
  <2>1. /\ Past(TRUE) /\ pc = "write"
        /\ temps' = [temps EXCEPT ![cur][NextPart] = "whole"]
        /\ job' = job /\ disk' = disk /\ set' = set /\ midfile' = midfile /\ mid' = mid
        /\ files' = files /\ earned' = earned /\ status' = status /\ dlerr' = dlerr
    BY <1>6 DEF Write
  <2>2. left # {} /\ cur \in Date
    BY <1>1, <2>1, PostOfIs DEF IInv, Working, Busy, TypeOK
  <2>3. NextPart \in Part
    BY <1>1, <2>1, <2>2, PastIs DEF TypeOK
  <2>4. temps' \in [Date -> [Part -> {"none", "cut", "whole"}]]
    BY <1>1, <2>1, <2>2, <2>3 DEF TypeOK
  <2> QED
    BY <1>1, <2>1, <2>2, <2>4, PastKeeps DEF TypeOK
<1> QED
  BY <1>2, <1>3, <1>4, <1>5, <1>6

ArticleStep ==
  \/ DoArticle \/ TryAgain
  \/ \E s \in Server : Arrive(s) \/ Gone(s) \/ Broken(s)

LEMMA ArticleKeeps ==
  ASSUME IInv, ArticleStep
  PROVE  IInv'
<1>1. TypeOK /\ job.maxretry \in 1 .. 2 /\ \A d \in Date : job.at[d] \in SUBSET Server
  BY JobIs DEF IInv, TypeOK
<1>2. CASE DoArticle
  <2>1. /\ pc = "part" /\ left # {} /\ ~dlerr /\ pc' = "try"
        /\ sap' = job.at[cur] /\ round' = sap' /\ redone' = 0
        /\ UNCHANGED <<job, disk, set, temps, midfile, mid, files, file, status, earned>>
    BY <1>2 DEF DoArticle, AtPart
  <2>2. cur \in Date
    BY <1>1, <2>1, PostOfIs DEF IInv, Working, Busy, TypeOK
  <2>3. RoundType'
    BY <1>1, <2>1, <2>2 DEF RoundType
  <2> QED
    BY <2>1, <2>3, RoundKeeps
<1>3. CASE TryAgain
  <2>1. /\ pc = "try" /\ pc' = "try" /\ sap' = sap /\ round' = sap /\ redone' = redone + 1 /\ redone + 1 < job.maxretry
        /\ UNCHANGED <<job, disk, set, temps, midfile, mid, files, file, status, earned>>
    BY <1>3 DEF TryAgain
  <2>2. left # {} /\ ~dlerr
    BY <2>1 DEF IInv, Working
  <2>3. RoundType'
    BY <1>1, <2>1 DEF RoundType, TypeOK
  <2> QED
    BY <2>1, <2>2, <2>3, RoundKeeps
<1>4. CASE \E s \in Server : Arrive(s) \/ Gone(s) \/ Broken(s)
  <2>1. PICK s \in Server : Arrive(s) \/ Gone(s) \/ Broken(s)
    BY <1>4
  <2>2. /\ pc = "try" /\ pc' \in {"try", "write"} /\ sap' \subseteq sap /\ redone' = redone
        /\ round' \subseteq round /\ (sap' = sap \/ (sap' = sap \ {s} /\ round' = round \ {s}))
        /\ UNCHANGED <<job, disk, set, temps, midfile, mid, files, file, status, earned>>
    BY <2>1 DEF Arrive, Gone, Broken, article
  <2>3. left # {} /\ ~dlerr
    BY <2>2 DEF IInv, Working
  <2>4. RoundType'
    BY <1>1, <2>2 DEF RoundType, TypeOK
  <2> QED
    BY <2>2, <2>3, <2>4, RoundKeeps
<1> QED
  BY <1>2, <1>3, <1>4 DEF ArticleStep

\* The disk is full.
LEMMA WriteFailsKeeps ==
  ASSUME IInv, WriteFails
  PROVE  IInv'
<1>1. /\ pc' = "done" /\ status' = status \cup {"fatal"}
      /\ job' = job /\ disk' = disk /\ set' = set /\ temps' = temps /\ midfile' = midfile /\ mid' = mid
      /\ files' = files /\ cur' = cur /\ left' = left /\ got' = got /\ dlerr' = dlerr
      /\ sap' = sap /\ round' = round /\ redone' = redone /\ earned' = earned
  BY DEF WriteFails, file, article
<1>2. TypeOK'
  BY <1>1 DEF IInv, TypeOK, ParInfos
<1>3. Working' /\ Accounted' /\ Decoded' /\ CompleteMarkedDecoded'
  BY <1>1 DEF IInv, Working, Busy, Accounted, Decoded, CompleteMarkedDecoded, MarkedDecoded
<1>4. Pending'
  BY <1>1 DEF Pending, NoErrors
<1> QED
  BY <1>2, <1>3, <1>4 DEF IInv

-----------------------------------------------------------------------------
(* Decoding. *)

\* Steps after which the post is done with.
LEMMA NextKeeps ==
  ASSUME IInv, pc \in {"part", "clean"}, pc' = "next",
         job' = job, midfile' = midfile, earned' = earned,
         UNCHANGED <<set, temps, file, article>>,
         disk \subseteq disk', disk' \subseteq File, files' \subseteq files,
         status \subseteq status', status' \subseteq {"retrieve", "decode", "undecoded", "autopar", "fatal"},
         mid' \subseteq mid \cup {cur},
         cur \in earned \/ job.incomplete \/ mid' = mid,
         NoErrors' => \A p \in Wanted : p \in files /\ (p \notin files' \/ p = Cur) => Settled(p)'
  PROVE  IInv'
<1>1. TypeOK /\ cur \in Dates(job.posts) /\ CompleteMarkedDecoded
  BY DEF IInv, Working, Busy
<1>2. /\ set' = set /\ temps' = temps /\ cur' = cur /\ left' = left /\ got' = got /\ dlerr' = dlerr
      /\ sap' = sap /\ round' = round /\ redone' = redone
  BY DEF file, article
<1>3. cur \in Date
  BY <1>1, PostOfIs DEF TypeOK
<1>4. TypeOK'
  BY <1>1, <1>2, <1>3 DEF TypeOK, ParInfos
<1>5. Working' /\ Accounted' /\ Decoded'
  BY <1>1, <1>2 DEF Working, Busy, Accounted, Decoded, Dates
<1>6. CompleteMarkedDecoded'
  BY <1>1 DEF CompleteMarkedDecoded, MarkedDecoded
<1>7. Pending'
  <2>1. Cur' = Cur
    BY <1>2 DEF Cur, PostOf
  <2>2. ASSUME NoErrors', NEW p \in Wanted, ToCome(p) PROVE Settled(p)' \/ ToCome(p)'
    BY <2>1, <2>2 DEF ToCome
  <2> QED
    BY <2>2, PendingKept
<1> QED
  BY <1>4, <1>5, <1>6, <1>7 DEF IInv

LEMMA DuplicateIs ==
  ASSUME TypeOK, cur \in Dates(job.posts), NEW content \in {Good} \cup Date
  PROVE  /\ disk \subseteq Duplicate(content) /\ Duplicate(content) \subseteq File
         /\ (\E f \in disk : f.name = Cur.name) => \E f \in Duplicate(content) : f.name = Cur.name
<1>1. Cur.name \in Name
  BY PostOfIs DEF TypeOK, Cur
<1>2. disk \subseteq File
  BY DEF TypeOK
<1>3. [name |-> Cur.name, dupe |-> TRUE, content |-> content] \in File
  BY <1>1 DEF File
<1> QED
  BY <1>2, <1>3 DEF Duplicate

LEMMA KeepTempsKeeps ==
  ASSUME IInv, KeepTemps
  PROVE  IInv'
<1>1. /\ pc = "part" /\ (dlerr \/ job.nodecode) /\ pc' = "next"
      /\ UNCHANGED <<job, disk, set, temps, midfile, mid, files, file, article, status, earned>>
  BY DEF KeepTemps, AtEnd
<1>2. ~NoErrors'
  BY <1>1 DEF IInv, Accounted, NoErrors
<1> QED
  BY <1>1, <1>2, NextKeeps DEF IInv, TypeOK

LEMMA NothingKeeps ==
  ASSUME IInv, NothingToDecode
  PROVE  IInv'
<1>1. /\ pc = "part" /\ left = {} /\ got = {} /\ ~dlerr /\ pc' = "next" /\ mid' = mid \cup {cur}
      /\ UNCHANGED <<job, disk, set, temps, midfile, files, file, article, status, earned>>
  BY DEF NothingToDecode, Decodes, AtEnd
<1>2. Cur.parts # {}
  BY <1>1, PostOfIs DEF IInv, TypeOK, Working, Busy, Cur
<1>3. job.incomplete /\ (status # {} \/ job.noconnect)
  BY <1>1, <1>2 DEF IInv, Accounted
<1> QED
  BY <1>1, <1>3, NextKeeps DEF IInv, TypeOK, NoErrors

LEMMA DecodeErrorsKeeps ==
  ASSUME IInv, DecodeErrors
  PROVE  IInv'
<1>1. /\ pc = "part" /\ pc' = "next"
      /\ \/ disk' \in {disk, Duplicate(cur)} /\ status' = status \cup {"decode"}
         \/ disk' = disk /\ status' = status \cup {"undecoded"}
      /\ UNCHANGED <<job, set, temps, midfile, mid, files, file, article, earned>>
  BY DEF DecodeErrors, Decodes, AtEnd
<1>2. TypeOK /\ cur \in Dates(job.posts) /\ cur \in Date
  BY <1>1, PostOfIs DEF IInv, Working, Busy, TypeOK
<1>3. disk \subseteq disk' /\ disk' \subseteq File
  <2>1. disk \subseteq Duplicate(cur) /\ Duplicate(cur) \subseteq File
    BY <1>2, DuplicateIs
  <2> QED
    BY <1>1, <1>2, <2>1 DEF TypeOK
<1>4. ~NoErrors' /\ status \subseteq status' /\ status' \subseteq {"retrieve", "decode", "undecoded", "autopar", "fatal"}
  BY <1>1, <1>2 DEF NoErrors, TypeOK
<1> QED
  BY <1>1, <1>3, <1>4, NextKeeps

LEMMA DecodeKeeps ==
  ASSUME IInv, Decode
  PROVE  IInv'
<1> DEFINE content == IF Cur.sound THEN Good ELSE cur
           made == [name |-> Cur.name, dupe |-> FALSE, content |-> content]
<1>1. /\ pc = "part" /\ pc' = "clean" /\ earned' = earned \cup {cur}
      /\ disk' = IF \E f \in disk : f.name = Cur.name /\ ~f.dupe THEN Duplicate(content) ELSE disk \cup {made}
      /\ job' = job /\ set' = set /\ temps' = temps /\ midfile' = midfile /\ mid' = mid /\ files' = files
      /\ cur' = cur /\ left' = left /\ got' = got /\ dlerr' = dlerr
      /\ sap' = sap /\ round' = round /\ redone' = redone /\ status' = status
  BY DEF Decode, Decodes, AtEnd, file, article
<1>2. TypeOK /\ cur \in Dates(job.posts) /\ cur \in Date /\ Cur.name \in Name
  BY <1>1, PostOfIs DEF IInv, Working, Busy, TypeOK, Cur
<1>3. content \in {Good} \cup Date
  BY <1>2
<1> HIDE DEF content
<1>4. made \in File /\ made.name = Cur.name
  BY <1>2, <1>3 DEF File
<1>5. /\ disk \subseteq Duplicate(content) /\ Duplicate(content) \subseteq File
      /\ (\E f \in disk : f.name = Cur.name) => \E f \in Duplicate(content) : f.name = Cur.name
  BY <1>2, <1>3, DuplicateIs
<1> HIDE DEF made
<1>6. disk \subseteq disk' /\ disk' \subseteq File /\ \E f \in disk' : f.name = Cur.name
  BY <1>1, <1>2, <1>4, <1>5 DEF TypeOK
<1>7. Cur' = Cur
  BY <1>1 DEF Cur, PostOf
<1>8. TypeOK'
  BY <1>1, <1>2, <1>6 DEF TypeOK, ParInfos
<1>9. Working' /\ Accounted'
  BY <1>1, <1>2 DEF Working, Accounted, Dates
<1>10. Decoded'
  BY <1>1, <1>6, <1>7 DEF Decoded, OnDisk
<1>11. CompleteMarkedDecoded'
  BY <1>1 DEF IInv, CompleteMarkedDecoded, MarkedDecoded
<1>12. Pending'
  <2>1. \A p : ToCome(p) => ToCome(p)'
    BY <1>1 DEF ToCome
  <2> QED
    BY <1>1, <1>6, <2>1, PendingKept
<1> QED
  BY <1>8, <1>9, <1>10, <1>11, <1>12 DEF IInv

LEMMA UnlinkKeeps ==
  ASSUME IInv, Unlink
  PROVE  IInv'
<1>1. /\ pc = "clean" /\ pc' = "clean" /\ \E k \in got : temps' = [temps EXCEPT ![cur][k] = "none"]
      /\ job' = job /\ disk' = disk /\ set' = set /\ midfile' = midfile /\ mid' = mid /\ files' = files
      /\ cur' = cur /\ left' = left /\ got' = got /\ dlerr' = dlerr
      /\ sap' = sap /\ round' = round /\ redone' = redone /\ status' = status /\ earned' = earned
  BY DEF Unlink, file, article
<1>2. TypeOK /\ cur \in Dates(job.posts) /\ cur \in Date
  BY <1>1, PostOfIs DEF IInv, Working, Busy, TypeOK
<1>3. temps' \in [Date -> [Part -> {"none", "cut", "whole"}]]
  BY <1>1, <1>2 DEF TypeOK
<1>4. TypeOK'
  BY <1>1, <1>2, <1>3 DEF TypeOK, ParInfos
<1>5. Working' /\ Accounted' /\ CompleteMarkedDecoded'
  BY <1>1, <1>2 DEF IInv, Working, Accounted, Dates, CompleteMarkedDecoded, MarkedDecoded
<1>6. Decoded'
  BY <1>1 DEF IInv, Decoded, OnDisk, Cur, PostOf
<1>7. Pending'
  BY <1>1, SamePost DEF Busy
<1> QED
  BY <1>4, <1>5, <1>6, <1>7 DEF IInv

\* The post is marked, and what has its name is dropped.
LEMMA MarkDecodedKeeps ==
  ASSUME IInv, MarkDecoded
  PROVE  IInv'
<1>1. /\ pc = "clean" /\ pc' = "next" /\ mid' = mid \cup {cur} /\ files' = files \ Dupes
      /\ UNCHANGED <<job, disk, set, temps, midfile, file, article, status, earned>>
  BY DEF MarkDecoded
<1>2. cur \in earned /\ OnDisk(Cur.name) /\ TypeOK /\ cur \in Dates(job.posts)
  BY <1>1 DEF IInv, Decoded, Working, Busy
<1>3. Cur.date = cur
  BY <1>2, PostOfIs DEF TypeOK, Cur
<1>4. ASSUME NEW p \in files, p \notin files' \/ p = Cur PROVE Settled(p)'
  <2>1. p \in Dupes \/ p = Cur
    BY <1>1, <1>4
  <2>2. p.name = Cur.name \/ p.date = cur
    BY <1>3, <2>1 DEF Dupes
  <2> QED
    BY <1>1, <1>2, <2>2 DEF Settled, OnDisk
<1> QED
  BY <1>1, <1>2, <1>4, NextKeeps DEF TypeOK

-----------------------------------------------------------------------------
(* Between posts, and between runs of nget. *)

LEMMA NextFileKeeps ==
  ASSUME IInv, NextFile
  PROVE  IInv'
<1> DEFINE rest == files \ {Cur}
           last == job.autopar /\ rest = {}
           more == IF last THEN MorePars(set) ELSE {}
<1>1. /\ pc = "next" /\ files' = rest \cup more
      /\ set' = IF last THEN AfterMorePars(set) ELSE set
      /\ status' = IF last /\ ParError(set) THEN status \cup {"autopar"} ELSE status
      /\ pc' = IF rest \cup more = {} THEN "done" ELSE "pick"
      /\ cur' = 0 /\ left' = {} /\ got' = {} /\ dlerr' = FALSE
      /\ job' = job /\ disk' = disk /\ temps' = temps /\ midfile' = midfile /\ mid' = mid
      /\ sap' = sap /\ round' = round /\ redone' = redone /\ earned' = earned
  BY DEF NextFile, NoFile, article
<1>2. TypeOK /\ set \in ParInfos
  BY DEF IInv, TypeOK
<1>3. MorePars(set) \subseteq job.posts /\ AfterMorePars(set) \in ParInfos
  BY <1>2, MoreParsIs
<1>4. files' \subseteq job.posts /\ set' \in ParInfos
  BY <1>1, <1>2, <1>3 DEF TypeOK
<1>5. set' \in ParInfos'
  BY <1>1, <1>4 DEF ParInfos
<1>6. status \subseteq status' /\ status' \subseteq {"retrieve", "decode", "undecoded", "autopar", "fatal"}
  BY <1>1, <1>2 DEF TypeOK
<1>7. pc' \in {"pick", "done"} /\ (pc' = "done" => files' = {}) /\ rest \subseteq files'
  BY <1>1
<1> HIDE DEF more, last
<1>8. TypeOK'
  BY <1>1, <1>2, <1>4, <1>5, <1>6, <1>7 DEF TypeOK
<1>9. Working' /\ Accounted' /\ Decoded' /\ CompleteMarkedDecoded'
  BY <1>1, <1>7 DEF IInv, Working, Busy, Accounted, Decoded, CompleteMarkedDecoded, MarkedDecoded
<1>10. Pending'
  <2>1. \A p : ToCome(p) => ToCome(p)'
    BY <1>1, <1>7 DEF ToCome
  <2> QED
    BY <1>1, <1>6, <2>1, PendingKept
<1> QED
  BY <1>8, <1>9, <1>10 DEF IInv

LEMMA StartKeeps ==
  ASSUME IInv, Start
  PROVE  IInv'
<1> DEFINE all == Matched(Marked, job.autopar)
           found == {p \in Plain(all) : Have(p)}
           queue == Plain(all) \ found
           aside == IF job.autopar /\ all # {} THEN PutAside(all) ELSE NoSet
           atOnce == job.autopar /\ all # {} /\ queue = {}
           pars == IF atOnce THEN MorePars(aside) ELSE InitialPars(aside)
<1>1. /\ pc = "idle"
      /\ mid' = midfile \cup (IF job.dupemark THEN Dates(found) ELSE {})
      /\ earned' = earned \cup Dates(found)
      /\ set' = IF atOnce THEN AfterMorePars(aside)
                ELSE [aside EXCEPT !.pars = {}, !.loose = aside.loose \ pars]
      /\ files' = queue \cup pars
      /\ status' = IF atOnce /\ ParError(aside) THEN {"autopar"} ELSE {}
      /\ pc' = IF queue \cup pars = {} THEN "done" ELSE "pick"
      /\ job' = job /\ disk' = disk /\ temps' = temps /\ midfile' = midfile
      /\ cur' = cur /\ left' = left /\ got' = got /\ dlerr' = dlerr
      /\ sap' = sap /\ round' = round /\ redone' = redone
  BY DEF Start, file, article
<1>2. TypeOK /\ job.posts \subseteq Post
  BY JobIs DEF IInv, TypeOK
<1>3. all \subseteq job.posts /\ Plain(all) \subseteq job.posts
  BY DEF Matched, Plain
<1>4. aside \in ParInfos
  BY <1>3, PutAsideIs, NoSetIs
<1>5. found \subseteq job.posts /\ queue \subseteq job.posts
  BY <1>3
<1>6. Dates(found) \subseteq Date
  BY <1>2, <1>5, PostIs DEF Dates
<1> HIDE DEF all, aside
<1>7. pars \subseteq job.posts
  BY <1>4, InitialParsIs, MoreParsIs
<1> HIDE DEF pars
<1>8. [aside EXCEPT !.pars = {}, !.loose = aside.loose \ pars] \in ParInfos
  <2>1. /\ aside = [known |-> aside.known, pars |-> aside.pars, loose |-> aside.loose, vols |-> aside.vols,
                    extra |-> aside.extra, finished |-> aside.finished]
        /\ aside.known \in BOOLEAN /\ aside.loose \subseteq job.posts
        /\ aside.vols \subseteq job.posts /\ aside.extra \subseteq job.posts
        /\ aside.finished \in {"no", "ok", "failed"}
    BY <1>4, ParInfoIs
  <2> DEFINE s == [aside EXCEPT !.pars = {}, !.loose = aside.loose \ pars]
             loose == aside.loose \ pars
  <2>2. s = [aside EXCEPT !.pars = {}, !.loose = loose]
    OBVIOUS
  <2> HIDE DEF loose, s
  <2>3. s = [known |-> aside.known, pars |-> {}, loose |-> loose, vols |-> aside.vols,
             extra |-> aside.extra, finished |-> aside.finished]
    BY ONLY <2>1, <2>2
  <2>4. s \in ParInfos
    BY <2>1, <2>3 DEF ParInfos, loose
  <2> QED
    BY <2>4 DEF s
<1>9. AfterMorePars(aside) \in ParInfos
  BY <1>4, MoreParsIs
<1>10. set' \in ParInfos
  BY <1>1, <1>8, <1>9
<1>11. set' \in ParInfos'
  BY <1>1, <1>10 DEF ParInfos
<1>12. \A p \in Plain(all) : p \in queue \/ p \in found
  OBVIOUS
<1> HIDE DEF found, queue
<1>13. /\ files' \subseteq job.posts /\ mid' \subseteq Date /\ earned' \subseteq Date
       /\ pc' \in {"pick", "done"} /\ (pc' = "done" => files' = {}) /\ queue \subseteq files'
       /\ status' \subseteq {"retrieve", "decode", "undecoded", "autopar", "fatal"}
  BY <1>1, <1>2, <1>5, <1>6, <1>7 DEF TypeOK
<1> HIDE DEF atOnce
<1>14. TypeOK'
  BY <1>1, <1>2, <1>11, <1>13 DEF TypeOK
<1>15. Working' /\ Accounted' /\ Decoded'
  BY <1>13 DEF Working, Busy, Accounted, Decoded
<1>16. CompleteMarkedDecoded'
  BY <1>1 DEF IInv, CompleteMarkedDecoded, MarkedDecoded
<1>17. Pending'
  <2> SUFFICES ASSUME NEW p \in Wanted PROVE Settled(p)' \/ ToCome(p)'
    BY <1>1, WantedKept DEF Pending
  <2>1. p \in queue \/ p \in found
    BY <1>12 DEF Wanted, all
  <2>2. CASE p \in queue
    BY <1>13, <2>2 DEF ToCome
  <2>3. CASE p \in found
    BY <1>1, <2>3 DEF Settled, Dates
  <2> QED
    BY <2>1, <2>2, <2>3
<1> QED
  BY <1>14, <1>15, <1>16, <1>17 DEF IInv

\* nget -M and nget -U.
LEMMA MarkKeeps ==
  ASSUME IInv, Mark \/ Unmark
  PROVE  IInv'
<1> DEFINE S == {p \in Matched(Marked, FALSE) : ~Have(p)}
<1>1. /\ pc = "idle" /\ pc' = "idle" /\ mid' = midfile' /\ status' = {}
      /\ \/ midfile' = midfile \cup Dates(S) /\ earned' = earned \cup Dates(S)
         \/ midfile' \subseteq midfile /\ earned' = earned
      /\ job' = job /\ disk' = disk /\ set' = set /\ temps' = temps /\ files' = files
      /\ cur' = cur /\ left' = left /\ got' = got /\ dlerr' = dlerr
      /\ sap' = sap /\ round' = round /\ redone' = redone
  BY DEF Mark, Unmark, file, article
<1>2. TypeOK /\ job.posts \subseteq Post
  BY JobIs DEF IInv, TypeOK
<1>3. Dates(S) \subseteq Date
  BY <1>2, PostIs DEF Dates, Matched
<1> HIDE DEF S
<1>4. midfile' \subseteq Date /\ earned' \subseteq Date
  BY <1>1, <1>2, <1>3 DEF TypeOK
<1>5. TypeOK'
  BY <1>1, <1>2, <1>4 DEF TypeOK, ParInfos
<1>6. Working' /\ Accounted' /\ Decoded' /\ Pending'
  BY <1>1 DEF Working, Busy, Accounted, Decoded, Pending
<1>7. CompleteMarkedDecoded'
  BY <1>1 DEF IInv, CompleteMarkedDecoded, MarkedDecoded
<1> QED
  BY <1>5, <1>6, <1>7 DEF IInv

\* However nget ends.
LEMMA EndKeeps ==
  ASSUME IInv, Done \/ Kill
  PROVE  IInv'
<1>1. /\ pc' = "idle" /\ set' = NoSet /\ files' = {} /\ status' = {}
      /\ cur' = 0 /\ left' = {} /\ got' = {} /\ dlerr' = FALSE
      /\ sap' = {} /\ round' = {} /\ redone' = 0
      /\ job' = job /\ disk' = disk /\ earned' = earned
      /\ mid' = midfile' /\ midfile' \in {mid, midfile}
  BY DEF Done, Kill, Ended, NoFile, NoArticle
<1>2. TypeOK
  BY DEF IInv
<1>3. temps' \in [Date -> [Part -> {"none", "cut", "whole"}]]
  <2>1. CASE Done
    BY <1>2, <2>1 DEF Done, TypeOK
  <2>2. CASE Kill
    <3>1. CASE pc = "write"
      <4>1. PICK t \in KilledTemps :
              temps' = IF t = "kept" THEN temps ELSE [temps EXCEPT ![cur][NextPart] = t]
        BY <2>2, <3>1 DEF Kill
      <4>2. t \in {"none", "cut", "whole"} /\ t # "kept"
        BY <4>1, RetrieveAssumption DEF RetrieveAssumption
      <4>3. cur \in Date /\ left # {}
        BY <1>2, <3>1, PostOfIs DEF IInv, Working, Busy, TypeOK
      <4>4. NextPart \in Part
        <5>1. left \subseteq Part /\ Part \subseteq Nat
          BY <1>2 DEF TypeOK, Part
        <5> QED
          BY <4>3, <5>1, MinIs DEF NextPart
      <4>5. temps' = [temps EXCEPT ![cur][NextPart] = t]
        BY <4>1, <4>2
      <4> HIDE DEF NextPart
      <4> QED
        BY <1>2, <4>2, <4>3, <4>4, <4>5 DEF TypeOK
    <3>2. CASE pc # "write"
      <4>1. temps' = temps
        BY <2>2, <3>2 DEF Kill
      <4> QED
        BY <1>2, <4>1 DEF TypeOK
    <3> QED
      BY <3>1, <3>2
  <2> QED
    BY <2>1, <2>2
<1>4. RoundType'
  BY <1>1, <1>2, NoRound
<1>5. set' \in ParInfos'
  BY <1>1, NoSetIs DEF ParInfos
<1>6. TypeOK'
  BY <1>1, <1>2, <1>3, <1>4, <1>5 DEF TypeOK, RoundType
<1>7. Working' /\ Accounted' /\ Decoded' /\ Pending'
  BY <1>1 DEF Working, Busy, Accounted, Decoded, Pending
<1>8. CompleteMarkedDecoded'
  BY <1>1 DEF IInv, CompleteMarkedDecoded, MarkedDecoded
<1> QED
  BY <1>6, <1>7, <1>8 DEF IInv

LEMMA InvInit == Init => IInv
<1> SUFFICES ASSUME Init PROVE IInv
  OBVIOUS
<1>1. job \in Job
  BY RetrieveAssumption DEF Init, RetrieveAssumption
<1>2. 0 \in 0 .. job.maxretry - 1
  BY <1>1, JobIs
<1>3. temps \in [Date -> [Part -> {"none", "cut", "whole"}]]
  BY DEF Init
<1>4. TypeOK
  BY <1>1, <1>2, <1>3, NoSetIs DEF Init, TypeOK
<1>5. Working /\ Accounted /\ Decoded /\ Pending /\ CompleteMarkedDecoded
  BY DEF Init, Working, Busy, Accounted, Decoded, Pending, CompleteMarkedDecoded, MarkedDecoded
<1> QED
  BY <1>4, <1>5 DEF IInv

LEMMA InvNext ==
  ASSUME IInv, [Next]_vars
  PROVE  IInv'
<1>1. CASE Start
  BY <1>1, StartKeeps
<1>2. CASE Mark \/ Unmark
  BY <1>2, MarkKeeps
<1>3. CASE Kill
  BY <1>3, EndKeeps
<1>4. CASE Step
  <2>1. CASE Pick
    BY <2>1, PickKeeps
  <2>2. CASE SkipPart \/ AlreadyHave \/ NoConnect \/ GiveUp \/ Write
    BY <2>2, PartKeeps
  <2>3. CASE DoArticle \/ TryAgain \/ \E s \in Server : Arrive(s) \/ Gone(s) \/ Broken(s)
    BY <2>3, ArticleKeeps DEF ArticleStep
  <2>4. CASE WriteFails
    BY <2>4, WriteFailsKeeps
  <2>5. CASE KeepTemps
    BY <2>5, KeepTempsKeeps
  <2>6. CASE NothingToDecode
    BY <2>6, NothingKeeps
  <2>7. CASE DecodeErrors
    BY <2>7, DecodeErrorsKeeps
  <2>8. CASE Decode
    BY <2>8, DecodeKeeps
  <2>9. CASE Unlink
    BY <2>9, UnlinkKeeps
  <2>10. CASE MarkDecoded
    BY <2>10, MarkDecodedKeeps
  <2>11. CASE NextFile
    BY <2>11, NextFileKeeps
  <2>12. CASE Done
    BY <2>12, EndKeeps
  <2> QED
    BY <1>4, <2>1, <2>2, <2>3, <2>4, <2>5, <2>6, <2>7, <2>8, <2>9, <2>10, <2>11, <2>12 DEF Step
<1>5. CASE UNCHANGED vars
  <2>1. /\ job' = job /\ disk' = disk /\ set' = set /\ temps' = temps /\ midfile' = midfile /\ mid' = mid
        /\ pc' = pc /\ files' = files /\ cur' = cur /\ left' = left /\ got' = got /\ dlerr' = dlerr
        /\ sap' = sap /\ round' = round /\ redone' = redone /\ status' = status /\ earned' = earned
    BY <1>5 DEF vars, file, article
  <2>2. TypeOK'
    BY <2>1 DEF IInv, TypeOK, ParInfos
  <2>3. Cur' = Cur
    BY <2>1 DEF Cur, PostOf
  <2>4. Working' /\ Accounted' /\ Decoded' /\ CompleteMarkedDecoded'
    BY <2>1, <2>3 DEF IInv, Working, Busy, Dates, Accounted, Decoded, OnDisk, CompleteMarkedDecoded, MarkedDecoded
  <2>5. Pending'
    <3>1. Wanted' = Wanted
      BY <2>1, WantedKept
    <3> QED
      BY <2>1, <2>3, <3>1 DEF IInv, Pending, NoErrors, Settled, OnDisk, ToCome
  <2> QED
    BY <2>2, <2>4, <2>5 DEF IInv
<1> QED
  BY <1>1, <1>2, <1>3, <1>4, <1>5 DEF Next

-----------------------------------------------------------------------------
(* Theorems. *)

\* A post is worked on with a part of it still to come or accounted for, and
\* each that nget was started for is settled or still in its queue.
THEOREM Invariance == Spec => []IInv
  BY InvInit, InvNext, PTL DEF Spec

\* The variables keep their types; in particular autopar queues only posts that
\* matched, and the parity set is made of them.
THEOREM TypeCorrect == Spec => []TypeOK
<1>1. IInv => TypeOK
  BY DEF IInv
<1> QED
  BY Invariance, <1>1, PTL

\* Without -i only posts are marked in the midinfo that were decoded, found in
\* the directory, or marked by the user (prot_nntp.cc nntp_doretrieve), however
\* often nget fails, is killed and started again.
THEOREM OnlyDecodedMarked == Spec => []CompleteMarkedDecoded
<1>1. IInv => CompleteMarkedDecoded
  BY DEF IInv
<1> QED
  BY Invariance, <1>1, PTL

\* nget does not end without an error when something it was to get is not there.
THEOREM FailureIsReported == Spec => []Reported
<1>1. IInv => Reported
  <2> SUFFICES ASSUME IInv, pc = "done", status = {}, ~job.noconnect, ~job.nodecode, NEW p \in Wanted
               PROVE  p.date \in earned \/ \E f \in disk : f.name = p.name
    BY DEF Reported, Wanted
  <2>1. Settled(p) \/ ToCome(p)
    BY DEF IInv, Pending, NoErrors
  <2> QED
    BY <2>1 DEF Settled, ToCome, OnDisk
<1> QED
  BY Invariance, <1>1, PTL

-----------------------------------------------------------------------------
(* What the parity set is worth.  Files are added to the directory and      *)
(* never taken away, and so what can be repaired stays so.                  *)

LEMMA MaxIs ==
  ASSUME NEW n \in Nat, NEW S \in SUBSET (0 .. n), S # {}
  PROVE  Max(S) \in S /\ \A y \in S : y <= Max(S)
<1> DEFINE D == {n - x : x \in S}
<1>1. D \in SUBSET Nat /\ D # {}
  <2>1. \A x \in S : n - x \in Nat
    OBVIOUS
  <2> QED
    BY <2>1
<1>2. PICK d \in D : \A e \in D : d <= e
  BY <1>1, LeastExists
<1>3. PICK x \in S : d = n - x
  BY <1>2
<1>4. ASSUME NEW y \in S PROVE x >= y
  <2>1. n - y \in D
    OBVIOUS
  <2>2. n - x <= n - y
    BY <1>2, <1>3, <2>1
  <2>3. x \in Int /\ y \in Int /\ n \in Int
    OBVIOUS
  <2> QED
    BY <2>2, <2>3
<1>5. \E z \in S : \A y \in S : z >= y
  BY <1>4
<1> QED
  BY <1>5 DEF Max

\* Every file is from a post.
Contents == \A f \in disk : f.content = Good \/ f.content \in Dates(job.posts)

LEMMA MaxWithZero ==
  ASSUME NEW x \in Int
  PROVE  Max({0, x}) = IF x > 0 THEN x ELSE 0
<1>1. \E m \in {0, x} : \A y \in {0, x} : m >= y
  <2>1. CASE x > 0
    BY <2>1
  <2>2. CASE ~(x > 0)
    BY <2>2
  <2> QED
    BY <2>1, <2>2
<1>2. Max({0, x}) \in {0, x} /\ \A y \in {0, x} : Max({0, x}) >= y
  BY <1>1 DEF Max
<1> QED
  BY <1>2

LEMMA NamesFinite == IsFiniteSet(Name)
<1>1. IsFiniteSet({}) /\ \A S, x : IsFiniteSet(S) => IsFiniteSet(S \cup {x})
  BY FS_EmptySet, FS_AddElement
<1>2. IsFiniteSet((((({} \cup {"data1"}) \cup {"data2"}) \cup {"par"}) \cup {"vol1"}) \cup {"vol2"})
  BY <1>1
<1>3. Name = ((((({} \cup {"data1"}) \cup {"data2"}) \cup {"par"}) \cup {"vol1"}) \cup {"vol2"}) \cup {"vol3"}
  BY DEF Name
<1> QED
  BY <1>1, <1>2, <1>3

Copies(name) == {f.content : f \in {f \in disk : f.name = name}}
Goods(name) == {0} \cup {PostOf(d).good : d \in Copies(name)}

\* The files and the job are as they can be.
InOrderNow == TypeOK /\ job \in Jobs /\ Contents

MissingIs(name) ==
         /\ Missing(name) = IF Good \in Copies(name) THEN 0
                            ELSE job.blocks - IF job.ver = 2 THEN Max(Goods(name)) ELSE 0
         /\ Good \notin Copies(name) =>
              /\ Goods(name) \in SUBSET (0 .. job.blocks) /\ Max(Goods(name)) \in 0 .. job.blocks
              /\ \A g \in Goods(name) : g <= Max(Goods(name))
         /\ Missing(name) \in Nat /\ job.blocks \in Nat

AllMissingAre == \A name : MissingIs(name)

LEMMA MissingOfAll == InOrderNow => AllMissingAre
<1> SUFFICES ASSUME InOrderNow, NEW name
             PROVE  MissingIs(name)
  BY DEF AllMissingAre
<1>1. job.blocks \in Nat
  BY DEF InOrderNow, TypeOK, Job
<1>2. Missing(name) = IF Good \in Copies(name) THEN 0
                      ELSE job.blocks - IF job.ver = 2 THEN Max(Goods(name)) ELSE 0
  BY DEF Missing, Copies, Goods
<1>3. ASSUME Good \notin Copies(name)
      PROVE  Goods(name) \in SUBSET (0 .. job.blocks)
  <2>1. ASSUME NEW d \in Copies(name) PROVE PostOf(d).good \in 0 .. job.blocks
    <3>1. d \in Dates(job.posts)
      BY <1>3 DEF Copies, InOrderNow, Contents
    <3>2. PostOf(d) \in job.posts /\ PostOf(d) \in Post
      BY <3>1, PostOfIs, JobIs DEF InOrderNow, TypeOK
    <3>3. PostOf(d).good \in 0 .. 3
      BY <3>2 DEF Post
    <3>4. PostOf(d).good <= job.blocks
      BY <3>2, RetrieveAssumption DEF RetrieveAssumption, InOrderNow
    <3> QED
      BY <1>1, <3>3, <3>4
  <2> QED
    BY <1>1, <2>1 DEF Goods
<1>4. ASSUME Good \notin Copies(name)
      PROVE  Max(Goods(name)) \in 0 .. job.blocks /\ \A g \in Goods(name) : g <= Max(Goods(name))
  <2>1. Goods(name) # {}
    BY DEF Goods
  <2> QED
    BY <1>1, <1>3, <1>4, <2>1, MaxIs
<1>5. Missing(name) \in Nat
  BY <1>1, <1>2, <1>4
<1> QED
  BY <1>1, <1>2, <1>3, <1>4, <1>5 DEF MissingIs

LEMMA MissingFalls ==
  ASSUME InOrderNow, InOrderNow', job' = job, disk \subseteq disk', NEW name
  PROVE  Missing(name)' <= Missing(name)
<1>1. Copies(name) \subseteq Copies(name)'
  BY DEF Copies
<1>2. Goods(name) \subseteq Goods(name)'
  BY <1>1 DEF Goods, PostOf
<1>3. MissingIs(name) /\ MissingIs(name)'
  <2>1. AllMissingAre /\ AllMissingAre'
    BY MissingOfAll, PTL
  <2> QED
    BY <2>1 DEF AllMissingAre
<1>4. Max(Goods(name)) \in Goods(name) \/ Good \in Copies(name)
  <2>1. Goods(name) # {}
    BY DEF Goods
  <2> QED
    BY <1>3, <2>1, MaxIs DEF MissingIs
<1>5. CASE Good \in Copies(name)'
  BY <1>3, <1>5 DEF MissingIs
<1>6. CASE Good \notin Copies(name)'
  <2>1. Good \notin Copies(name)
    BY <1>1, <1>6
  <2>2. Max(Goods(name)) <= Max(Goods(name))'
    BY <1>2, <1>3, <1>4, <1>6, <2>1 DEF MissingIs
  <2>3. Max(Goods(name)) \in Int /\ Max(Goods(name))' \in Int
    BY <1>3, <1>4, <1>6, <2>1 DEF MissingIs
  <2> QED
    BY <1>3, <1>6, <2>1, <2>2, <2>3 DEF MissingIs
<1> QED
  BY <1>5, <1>6

LEMMA PacketsFinite == TypeOK => IsFiniteSet(GoodPackets) /\ Cardinality(GoodPackets) \in Nat
<1> SUFFICES ASSUME TypeOK PROVE IsFiniteSet(GoodPackets) /\ Cardinality(GoodPackets) \in Nat
  OBVIOUS
<1>1. \A p \in job.posts : p.packets \subseteq 1 .. 6
  BY JobIs DEF TypeOK, Post
<1>2. GoodPackets \subseteq 1 .. 6
  BY <1>1 DEF GoodPackets
<1>3. IsFiniteSet(1 .. 6)
  <2>1. 1 \in Int /\ 6 \in Int
    OBVIOUS
  <2> QED
    BY <2>1, FS_Interval, Zenon
<1> QED
  BY <1>2, <1>3, FS_Subset, FS_CardinalityType

NeededFacts ==
  /\ MissingBlocks \in Nat
  /\ Needed = 0 <=> GoodPars # {} /\ MissingBlocks <= Cardinality(GoodPackets)

LEMMA NeededIs == InOrderNow => NeededFacts
<1> SUFFICES ASSUME InOrderNow PROVE NeededFacts
  OBVIOUS
<1>1. job.data \subseteq Name /\ IsFiniteSet(job.data)
  BY NamesFinite, FS_Subset DEF InOrderNow, TypeOK, Job
<1>2. \A n \in job.data : [m \in job.data |-> Missing(m)][n] \in Nat
  BY MissingOfAll DEF AllMissingAre, MissingIs
<1>3. MissingBlocks \in Nat
  BY <1>1, <1>2, SumType DEF MissingBlocks
<1>4. Cardinality(GoodPackets) \in Nat
  BY PacketsFinite DEF InOrderNow
<1> QED
  BY <1>3, <1>4, MaxWithZero DEF Needed, NeededFacts

LEMMA NothingNeededStays ==
  ASSUME InOrderNow, InOrderNow', job' = job, disk \subseteq disk', Needed = 0
  PROVE  Needed' = 0
<1>1. GoodPars \subseteq GoodPars'
  BY DEF GoodPars, ParFiles, RoleOf
<1>2. GoodPackets \subseteq GoodPackets'
  BY <1>1 DEF GoodPackets
<1>3. IsFiniteSet(GoodPackets') /\ Cardinality(GoodPackets') \in Nat
  <2>1. TypeOK'
    BY DEF InOrderNow
  <2>2. (TypeOK => IsFiniteSet(GoodPackets) /\ Cardinality(GoodPackets) \in Nat)'
    BY PacketsFinite, PTL
  <2> QED
    BY <2>1, <2>2
<1>4. Cardinality(GoodPackets) <= Cardinality(GoodPackets') /\ Cardinality(GoodPackets) \in Nat
  BY <1>2, <1>3, FS_Subset, PacketsFinite DEF InOrderNow
<1>5. MissingBlocks' <= MissingBlocks
  <2> DEFINE f == [n \in job.data |-> Missing(n)]
             g == [n \in job.data |-> Missing(n)']
  <2>1. IsFiniteSet(job.data)
    BY NamesFinite, FS_Subset DEF InOrderNow, TypeOK, Job
  <2>2. ASSUME NEW n \in job.data PROVE f[n] \in Nat /\ g[n] \in Nat /\ g[n] <= f[n]
    <3>1. AllMissingAre /\ AllMissingAre'
      BY MissingOfAll, PTL
    <3>2. Missing(n) \in Nat /\ Missing(n)' \in Nat
      BY <3>1 DEF AllMissingAre, MissingIs
    <3> QED
      BY <3>2, MissingFalls
  <2>3. MissingBlocks = SumFunctionOnSet(f, job.data) /\ MissingBlocks' = SumFunctionOnSet(g, job.data)
    BY DEF MissingBlocks
  <2> HIDE DEF f, g
  <2> QED
    BY <2>1, <2>2, <2>3, SumMonotone
<1>6. NeededFacts /\ NeededFacts'
  BY NeededIs, PTL
<1> QED
  BY <1>1, <1>3, <1>4, <1>5, <1>6 DEF NeededFacts

-----------------------------------------------------------------------------
(* When nget ends without an error the set can be repaired: it was looked   *)
(* at when the last file had been retrieved, and either nothing was needed  *)
(* or there was something to get.                                           *)

\* What nget knows of the set while it runs.
ParInv ==
  /\ job \in Jobs /\ Contents
  /\ (pc = "idle" \/ ~job.autopar) => set = NoSet
  /\ set.finished = "ok" => Needed = 0
  /\ set.finished = "failed" => status # {}
  /\ Repairable

LEMMA ParInOrder ==
  ASSUME TypeOK, TypeOK', ParInv, job' = job, Contents'
  PROVE  InOrderNow /\ InOrderNow'
BY DEF InOrderNow, ParInv

\* A step after which nget goes on with what it has put aside.
LEMMA GoesOnKeepsPar ==
  ASSUME TypeOK, TypeOK', ParInv, job' = job, set' = set, disk \subseteq disk', Contents',
         status \subseteq status', pc # "idle", pc' = "idle" => set' = NoSet,
         pc' # "done" \/ status' # {}
  PROVE  ParInv'
<1>1. Needed = 0 => Needed' = 0
  BY ParInOrder, NothingNeededStays
<1> QED
  BY <1>1 DEF ParInv, Repairable

\* The directory is looked at again after a step that leaves it as it is.
LEMMA NeededSame ==
  ASSUME job' = job, disk' = disk
  PROVE  /\ Needed' = Needed /\ Known' = Known
         /\ Contents' <=> Contents
<1>1. \A d : PostOf(d)' = PostOf(d)
  BY DEF PostOf
<1>2. /\ \A name : RoleOf(name)' = RoleOf(name)
      /\ ParFiles' = ParFiles
  BY DEF ParFiles, RoleOf
<1>3. GoodPars' = GoodPars /\ GoodPackets' = GoodPackets
  BY <1>2 DEF GoodPars, GoodPackets
<1>4. \A name : Missing(name)' = Missing(name)
  BY <1>1 DEF Missing, PostOf
<1>5. MissingBlocks' = MissingBlocks
  BY <1>4 DEF MissingBlocks
<1>6. Known' = Known
  BY <1>1, <1>2 DEF Known, Readable
<1> QED
  BY <1>3, <1>5, <1>6 DEF Needed, Contents, Dates

\* What is known of the set when it has been looked at and nothing is queued.
LEMMA LookedAt ==
  ASSUME NEW s \in ParInfos, ~ParError(s), MorePars(s) = {}, s.finished = "ok" => Needed = 0,
         s.finished # "failed", Known
  PROVE  Needed = 0
<1>1. Volumes(Claimed(s)) = {}
  BY DEF MorePars
<1>2. s.finished \in {"no", "ok", "failed"}
  BY ParInfoIs
<1> QED
  BY <1>1, <1>2, MoreParsIs DEF ParError

LEMMA NextFileKeepsPar ==
  ASSUME IInv, TypeOK', ParInv, NextFile
  PROVE  ParInv'
<1> DEFINE rest == files \ {Cur}
           last == job.autopar /\ rest = {}
           more == IF last THEN MorePars(set) ELSE {}
<1>1. /\ pc = "next"
      /\ set' = IF last THEN AfterMorePars(set) ELSE set
      /\ status' = IF last /\ ParError(set) THEN status \cup {"autopar"} ELSE status
      /\ pc' = IF rest \cup more = {} THEN "done" ELSE "pick"
      /\ job' = job /\ disk' = disk
  BY DEF NextFile
<1>2. set \in ParInfos
  BY DEF IInv, TypeOK
<1>3. Needed' = Needed /\ Known' = Known /\ Contents'
  BY <1>1, NeededSame DEF ParInv
<1>4. CASE ~last
  <2>1. set' = set /\ status' = status /\ more = {}
    BY <1>1, <1>4
  <2>2. pc' = "done" => set = NoSet
    BY <1>1, <1>4, <2>1 DEF ParInv
  <2>3. set.known => pc' # "done"
    BY <2>2 DEF NoSet
  <2> HIDE DEF rest, last, more
  <2> QED
    BY <1>1, <1>3, <2>1, <2>3 DEF ParInv, Repairable
<1>5. CASE last
  <2>1. /\ set' = AfterMorePars(set) /\ more = MorePars(set) /\ rest = {} /\ job.autopar
        /\ status' = IF ParError(set) THEN status \cup {"autopar"} ELSE status
    BY <1>1, <1>5
  <2>2. pc' = "done" => MorePars(set) = {}
    BY <1>1, <2>1
  <2> HIDE DEF rest, last, more
  <2>3. /\ set'.known = Known
        /\ set'.finished = IF ~Known \/ set.finished # "no" THEN set.finished
                           ELSE IF Needed = 0 THEN "ok"
                           ELSE IF Volumes(Claimed(set)) = {} THEN "failed" ELSE "no"
    BY <1>2, <2>1, MoreParsIs
  <2>4. set.finished = "ok" => Needed = 0
    BY DEF ParInv
  <2>5. set.finished = "failed" => status # {}
    BY DEF ParInv
  <2>6. set'.finished = "ok" => Needed' = 0
    BY <1>3, <2>3, <2>4
  <2>7. set'.finished = "failed" => status' # {}
    <3>1. CASE set.finished = "failed"
      BY <2>1, <2>5, <3>1
    <3>2. CASE set.finished # "failed"
      <4>1. set'.finished = "failed" => set.finished = "no" /\ AfterMorePars(set).finished = "failed"
        BY <2>1, <2>3, <3>2
      <4> QED
        BY <2>1, <4>1 DEF ParError
    <3> QED
      BY <3>1, <3>2
  <2>8. ASSUME pc' = "done", status' = {}, set'.known PROVE Needed' = 0
    <3>1. ~ParError(set) /\ status = {}
      BY <2>1, <2>8
    <3>2. Known /\ MorePars(set) = {} /\ set.finished # "failed"
      BY <2>2, <2>3, <2>5, <2>8, <3>1
    <3> QED
      BY <1>2, <1>3, <2>4, <3>1, <3>2, LookedAt
  <2>9. pc' # "idle"
    BY <1>1
  <2> QED
    BY <1>1, <1>3, <2>1, <2>6, <2>7, <2>8, <2>9 DEF ParInv, Repairable
<1> QED
  BY <1>4, <1>5

LEMMA StartKeepsPar ==
  ASSUME IInv, TypeOK', ParInv, Start
  PROVE  ParInv'
<1> DEFINE all == Matched(Marked, job.autopar)
           queue == Plain(all) \ {p \in Plain(all) : Have(p)}
           aside == IF job.autopar /\ all # {} THEN PutAside(all) ELSE NoSet
           atOnce == job.autopar /\ all # {} /\ queue = {}
           pars == IF atOnce THEN MorePars(aside) ELSE InitialPars(aside)
           opened == [aside EXCEPT !.pars = {}, !.loose = @ \ pars]
<1>1. /\ pc = "idle"
      /\ set' = IF atOnce THEN AfterMorePars(aside) ELSE opened
      /\ status' = IF atOnce /\ ParError(aside) THEN {"autopar"} ELSE {}
      /\ pc' = IF queue \cup pars = {} THEN "done" ELSE "pick"
      /\ job' = job /\ disk' = disk
  BY DEF Start
<1>2. all \subseteq job.posts
  BY DEF Matched
<1>3. aside \in ParInfos /\ aside.finished = "no"
  <2>1. CASE job.autopar /\ all # {}
    <3> HIDE DEF all
    <3> DEFINE t == PutAside(all)
    <3>1. t \in ParInfos /\ t.finished = "no"
      BY <1>2, PutAsideIs
    <3> QED
      BY <2>1, <3>1
  <2>2. CASE ~(job.autopar /\ all # {})
    BY <2>2, NoSetIs DEF NoSet
  <2> QED
    BY <2>1, <2>2
<1>4. Needed' = Needed /\ Known' = Known /\ Contents'
  BY <1>1, NeededSame DEF ParInv
<1>5. CASE ~atOnce
  <2>1. opened.finished = "no" /\ opened.known = aside.known
    <3>1. aside = [known |-> aside.known, pars |-> aside.pars, loose |-> aside.loose, vols |-> aside.vols,
                   extra |-> aside.extra, finished |-> aside.finished]
      BY <1>3, ParInfoIs
    <3> HIDE DEF aside, pars
    <3> QED
      BY <1>3, <3>1
  <2>2. ASSUME pc' = "done" PROVE ~aside.known
    <3>1. queue = {}
      BY <1>1, <2>2
    <3>2. ~(job.autopar /\ all # {})
      BY <1>5, <3>1
    <3> QED
      BY <3>2 DEF NoSet
  <2>3. ~job.autopar => opened = NoSet
    <3> SUFFICES ASSUME ~job.autopar PROVE opened = NoSet
      OBVIOUS
    <3>1. aside = NoSet
      OBVIOUS
    <3>2. aside.loose \ pars = {}
      BY <3>1 DEF NoSet
    <3>3. opened = [NoSet EXCEPT !.pars = {}, !.loose = {}]
      BY <3>1, <3>2
    <3> HIDE DEF opened
    <3> QED
      BY <3>3 DEF NoSet
  <2>4. set' = opened /\ pc' # "idle"
    BY <1>1, <1>5
  <2> HIDE DEF opened, aside, atOnce, pars, queue, all
  <2> QED
    BY <1>1, <1>4, <2>1, <2>2, <2>3, <2>4 DEF ParInv, Repairable
<1>6. CASE atOnce
  <2>1. /\ set' = AfterMorePars(aside) /\ pars = MorePars(aside) /\ job.autopar
        /\ status' = IF ParError(aside) THEN {"autopar"} ELSE {}
        /\ (pc' = "done" => MorePars(aside) = {}) /\ pc' # "idle"
    BY <1>1, <1>6
  <2> HIDE DEF opened, aside, atOnce, pars, queue, all
  <2>2. /\ set'.known = Known
        /\ set'.finished = IF ~Known \/ aside.finished # "no" THEN aside.finished
                           ELSE IF Needed = 0 THEN "ok"
                           ELSE IF Volumes(Claimed(aside)) = {} THEN "failed" ELSE "no"
    BY <1>3, <2>1, MoreParsIs
  <2>3. set'.finished = "ok" => Needed' = 0
    BY <1>3, <1>4, <2>2
  <2>4. set'.finished = "failed" => status' # {}
    BY <1>3, <2>1 DEF ParError
  <2>5. ASSUME pc' = "done", status' = {}, set'.known PROVE Needed' = 0
    BY <1>3, <1>4, <2>1, <2>2, <2>5, LookedAt
  <2> QED
    BY <1>1, <1>4, <2>1, <2>3, <2>4, <2>5 DEF ParInv, Repairable
<1> QED
  BY <1>5, <1>6

LEMMA ParInvInit == Init => ParInv
<1> SUFFICES ASSUME Init PROVE ParInv
  OBVIOUS
<1> QED
  BY DEF Init, ParInv, Contents, NoSet, Repairable

LEMMA EndsAsItWas ==
  ASSUME Done \/ Kill
  PROVE  job' = job /\ disk' = disk /\ pc' = "idle" /\ set' = NoSet
BY DEF Done, Kill, Ended

LEMMA ParInvNext ==
  ASSUME IInv, IInv', ParInv, [Next]_vars
  PROVE  ParInv'
<1>1. TypeOK /\ TypeOK'
  BY DEF IInv
<1>2. CASE Start
  BY <1>1, <1>2, StartKeepsPar
<1>3. CASE Mark \/ Unmark \/ Done \/ Kill
  <2>1. /\ job' = job /\ disk' = disk /\ pc' = "idle" /\ set' = NoSet
    <3>1. CASE Mark \/ Unmark
      BY <3>1 DEF Mark, Unmark, ParInv
    <3>2. CASE Done \/ Kill
      BY <3>2, EndsAsItWas
    <3> QED
      BY <1>3, <3>1, <3>2
  <2>2. Contents'
    BY <2>1, NeededSame DEF ParInv
  <2> QED
    BY <2>1, <2>2 DEF ParInv, NoSet, Repairable
<1>4. CASE NextFile
  BY <1>1, <1>4, NextFileKeepsPar
<1>5. CASE UNCHANGED vars
  <2>1. job' = job /\ disk' = disk /\ pc' = pc /\ set' = set /\ status' = status
    BY <1>5 DEF vars
  <2>2. Needed' = Needed /\ Contents'
    BY <2>1, NeededSame DEF ParInv
  <2> QED
    BY <2>1, <2>2 DEF ParInv, Repairable
<1>6. CASE Step /\ ~NextFile /\ ~Done /\ ~(DecodeErrors \/ Decode)
  <2>1. /\ job' = job /\ disk' = disk /\ set' = set /\ status \subseteq status' /\ pc # "idle" /\ pc' # "idle"
        /\ pc' # "done" \/ status' # {}
    <3>1. CASE Pick \/ DoArticle \/ \E s \in Server : Arrive(s) \/ Gone(s) \/ Broken(s)
      BY <3>1 DEF Pick, AtPart, DoArticle, Arrive, Gone, Broken
    <3>2. CASE SkipPart \/ AlreadyHave \/ NoConnect \/ TryAgain \/ GiveUp
      BY <3>2 DEF SkipPart, AlreadyHave, NoConnect, AtPart, TryAgain, GiveUp, Failed, Past
    <3>3. CASE Write \/ WriteFails
      BY <3>3 DEF Write, WriteFails, Past
    <3>4. CASE KeepTemps \/ NothingToDecode \/ Unlink \/ MarkDecoded
      BY <3>4 DEF KeepTemps, AtEnd, NothingToDecode, Decodes, Unlink, MarkDecoded
    <3> QED
      BY <1>6, <3>1, <3>2, <3>3, <3>4 DEF Step
  <2>2. Contents'
    BY <2>1, NeededSame DEF ParInv
  <2> QED
    BY <1>1, <2>1, <2>2, GoesOnKeepsPar
<1>7. CASE DecodeErrors \/ Decode
  <2>1. /\ job' = job /\ set' = set /\ status \subseteq status' /\ pc = "part" /\ pc' \in {"next", "clean"}
        /\ disk' = disk \/ \E content \in {Good, cur} :
             disk' = Duplicate(content) \/ disk' = disk \cup {[name |-> Cur.name, dupe |-> FALSE, content |-> content]}
    BY <1>7 DEF DecodeErrors, Decode, Decodes, AtEnd
  <2>2. cur \in Dates(job.posts)
    BY <2>1 DEF IInv, Working, Busy
  <2>3. disk \subseteq disk' /\ \A f \in disk' \ disk : f.content \in {Good, cur}
    BY <2>1 DEF Duplicate
  <2>4. Contents'
    BY <2>1, <2>2, <2>3 DEF ParInv, Contents, Dates
  <2> QED
    BY <1>1, <2>1, <2>3, <2>4, GoesOnKeepsPar
<1> QED
  BY <1>2, <1>3, <1>4, <1>5, <1>6, <1>7 DEF Next, Step

\* When nget ends without an error in a directory with a parity set, what is
\* missing of the set can be repaired with the recovery packets that are there
\* (par.cc maybe_get_pxxs), whatever is damaged or incomplete, and however
\* often nget has been killed before.
THEOREM SetIsRepairable == Spec => []Repairable
<1>1. Init => ParInv
  BY ParInvInit
<1>2. IInv /\ IInv' /\ ParInv /\ [Next]_vars => ParInv'
  BY ParInvNext
<1>3. ParInv => Repairable
  BY DEF ParInv
<1> QED
  BY Invariance, <1>1, <1>2, <1>3, PTL DEF Spec

-----------------------------------------------------------------------------
(* The knapsack of knapsack.cc, for any items.  Functions that recur are    *)
(* chosen by their equation: first that there is one, then what it is.      *)

\* A function that is defined by recursion over the subsets of a finite set:
\* c names the member of a set that is taken away, g what comes of it.
IsFold(h, S, base, g, c) == h = [s \in SUBSET S |-> IF s = {} THEN base ELSE g[h[s \ {c[s]}], c[s]]]

LEMMA FoldExists ==
  ASSUME NEW S, IsFiniteSet(S), NEW A, NEW base \in A, NEW g \in [A \X S -> A], NEW c,
         \A s \in SUBSET S : s # {} => c[s] \in s
  PROVE  \E h \in [SUBSET S -> A] : IsFold(h, S, base, g, c)
<1> DEFINE Upto(n) == {s \in SUBSET S : Cardinality(s) <= n}
           Entry(h, s) == IF s = {} THEN base ELSE g[h[s \ {c[s]}], c[s]]
           T == {n \in Nat : \E h \in [Upto(n) -> A] : \A s \in Upto(n) : h[s] = Entry(h, s)}
<1>0. \A s \in SUBSET S : IsFiniteSet(s) /\ Cardinality(s) \in Nat
  BY FS_Subset, FS_CardinalityType
<1>1. 0 \in T
  <2> DEFINE h == [s \in Upto(0) |-> base]
  <2>1. ASSUME NEW s \in Upto(0) PROVE s = {}
    BY <1>0, FS_EmptySet
  <2>2. h \in [Upto(0) -> A] /\ \A s \in Upto(0) : h[s] = Entry(h, s)
    BY <2>1
  <2> HIDE DEF h
  <2> QED
    BY <2>2
<1>2. ASSUME NEW n \in Nat, n \in T PROVE n + 1 \in T
  <2>1. PICK h \in [Upto(n) -> A] : \A s \in Upto(n) : h[s] = Entry(h, s)
    BY <1>2
  <2> DEFINE q == [s \in Upto(n + 1) |-> Entry(h, s)]
  <2>2. ASSUME NEW s \in Upto(n + 1), s # {} PROVE s \ {c[s]} \in Upto(n) /\ c[s] \in S
    <3>1. c[s] \in s
      BY <2>2
    <3>2. Cardinality(s \ {c[s]}) = Cardinality(s) - 1
      BY <3>1, <1>0, FS_RemoveElement
    <3> QED
      BY <3>1, <3>2, <1>0
  <2>3. ASSUME NEW s \in Upto(n + 1) PROVE Entry(h, s) \in A
    <3>1. CASE s = {}
      BY <3>1
    <3>2. CASE s # {}
      <4>1. h[s \ {c[s]}] \in A /\ c[s] \in S
        BY <3>2, <2>2, <2>1
      <4> QED
        BY <4>1, <3>2
    <3> QED
      BY <3>1, <3>2
  <2>4. ASSUME NEW s \in Upto(n) PROVE q[s] = h[s]
    <3>1. s \in Upto(n + 1)
      BY <1>0
    <3> QED
      BY <3>1, <2>1
  <2>5. ASSUME NEW s \in Upto(n + 1) PROVE q[s] = Entry(q, s)
    <3>1. CASE s = {}
      BY <3>1
    <3>2. CASE s # {}
      <4>1. q[s \ {c[s]}] = h[s \ {c[s]}]
        BY <3>2, <2>2, <2>4
      <4> QED
        BY <4>1
    <3> QED
      BY <3>1, <3>2
  <2>6. q \in [Upto(n + 1) -> A]
    BY <2>3
  <2>7. \A s \in Upto(n + 1) : q[s] = Entry(q, s)
    BY <2>5
  <2> HIDE DEF q, Entry, Upto
  <2>8. \E r \in [Upto(n + 1) -> A] : \A s \in Upto(n + 1) : r[s] = Entry(r, s)
    BY <2>6, <2>7
  <2> QED
    BY <2>8
<1> HIDE DEF T
<1>3. \A n \in Nat : n \in T
  BY <1>1, <1>2, Induction
<1> USE DEF T
<1>4. Cardinality(S) \in Nat /\ \A s \in SUBSET S : Cardinality(s) <= Cardinality(S)
  BY FS_CardinalityType, FS_Subset
<1>5. Upto(Cardinality(S)) = SUBSET S
  BY <1>4
<1>6. PICK h \in [SUBSET S -> A] : \A s \in SUBSET S : h[s] = Entry(h, s)
  <2>1. \E h \in [Upto(Cardinality(S)) -> A] : \A s \in Upto(Cardinality(S)) : h[s] = Entry(h, s)
    BY <1>3, <1>4
  <2> HIDE DEF Entry
  <2> QED
    BY <2>1, <1>5
<1>7. h = [s \in SUBSET S |-> Entry(h, s)]
  BY <1>6
<1> QED
  BY <1>7 DEF IsFold

\* The set of the tables for target.
Tables(n, target) == [V : [0 .. target -> Nat], best : [0 .. target -> SUBSET (1 .. n)]]

IsTableFold(h, q, values, sizes, target) ==
  h = [s \in SUBSET DOMAIN q |->
        IF s = {} THEN NoItems(target) ELSE WithOneMore(h[s \ {Max(s)}], q[Max(s)], values, sizes)]

LEMMA TableIs ==
  ASSUME NEW values, NEW sizes, NEW target, NEW q, q = [i \in DOMAIN values |-> i]
  PROVE  Table(values, sizes, target) = (CHOOSE h : IsTableFold(h, q, values, sizes, target))[DOMAIN q]
BY DEF Table, FoldLeft, MapThenFoldSet, IsTableFold

-----------------------------------------------------------------------------
(* The table of knapsack(), item by item.                                   *)

Inputs(n, values, sizes, target) ==
  n \in Nat /\ values \in [1 .. n -> Nat] /\ sizes \in [1 .. n -> Nat \ {0}] /\ target \in Nat

LEMMA WithOneMoreIs ==
  ASSUME NEW n, NEW values, NEW sizes, NEW target, Inputs(n, values, sizes, target),
         NEW t \in Tables(n, target), NEW i \in 1 .. n
  PROVE  /\ WithOneMore(t, i, values, sizes) \in Tables(n, target)
         /\ \A j \in 0 .. target :
              /\ WithOneMore(t, i, values, sizes).V[j] =
                   IF Better(t, j, values[i], sizes[i]) THEN t.V[j - sizes[i]] + values[i] ELSE t.V[j]
              /\ WithOneMore(t, i, values, sizes).best[j] =
                   t.best[j] \cup IF Better(t, j, values[i], sizes[i]) THEN {i} ELSE {}
<1> DEFINE V == [j \in 0 .. target |-> IF Better(t, j, values[i], sizes[i]) THEN t.V[j - sizes[i]] + values[i] ELSE t.V[j]]
           best == [j \in 0 .. target |-> t.best[j] \cup IF Better(t, j, values[i], sizes[i]) THEN {i} ELSE {}]
<1>1. /\ t.V \in [0 .. target -> Nat] /\ t.best \in [0 .. target -> SUBSET (1 .. n)] /\ DOMAIN t.V = 0 .. target
  BY DEF Tables
<1>2. /\ n \in Nat /\ values[i] \in Nat /\ sizes[i] \in Nat \ {0} /\ target \in Nat
  BY DEF Inputs
<1>3. WithOneMore(t, i, values, sizes) = [V |-> V, best |-> best]
  BY <1>1 DEF WithOneMore
<1>4. V \in [0 .. target -> Nat]
  <2>1. ASSUME NEW j \in 0 .. target, Better(t, j, values[i], sizes[i])
        PROVE  t.V[j - sizes[i]] + values[i] \in Nat
    <3>1. j - sizes[i] \in 0 .. target
      BY <1>2, <2>1 DEF Better
    <3> QED
      BY <1>1, <1>2, <3>1
  <2>2. \A j \in 0 .. target : t.V[j] \in Nat
    BY <1>1
  <2> QED
    BY <2>1, <2>2
<1>5. best \in [0 .. target -> SUBSET (1 .. n)]
  BY <1>1
<1> QED
  BY <1>3, <1>4, <1>5 DEF Tables

\* A run of the loop over the items: h[k] is the table after the first k.
IsRun(h, n, values, sizes, target) ==
  /\ h \in [0 .. n -> Tables(n, target)] /\ h[0] = NoItems(target)
  /\ \A k \in 1 .. n : h[k] = WithOneMore(h[k - 1], k, values, sizes)

LEMMA RunExists ==
  ASSUME NEW n, NEW values, NEW sizes, NEW target, Inputs(n, values, sizes, target)
  PROVE  \E h : IsRun(h, n, values, sizes, target) /\ h[n] = Table(values, sizes, target)
<1> DEFINE A == Tables(n, target)
           S == 1 .. n
           base == NoItems(target)
           g == [x \in A \X S |-> WithOneMore(x[1], x[2], values, sizes)]
           c == [s \in SUBSET S |-> Max(s)]
           q == [i \in DOMAIN values |-> i]
           Eq(h) == IsTableFold(h, q, values, sizes, target)
<1>1. n \in Nat /\ DOMAIN values = S /\ DOMAIN q = S
  BY DEF Inputs
<1>2. base \in A
  BY DEF NoItems, Tables, Inputs
<1>3. g \in [A \X S -> A]
  <2>1. \A t \in A, i \in S : WithOneMore(t, i, values, sizes) \in A
    BY WithOneMoreIs
  <2> HIDE DEF A, S
  <2> QED
    BY <2>1
<1>4. \A s \in SUBSET S : s # {} => Max(s) \in s /\ \A y \in s : y <= Max(s)
  <2> SUFFICES ASSUME NEW s \in SUBSET S, s # {}
               PROVE  Max(s) \in s /\ \A y \in s : y <= Max(s)
    OBVIOUS
  <2>1. s \in SUBSET (0 .. n)
    BY <1>1
  <2> HIDE DEF S
  <2> QED
    BY <1>1, <2>1, MaxIs
<1>5. IsFiniteSet(S)
  BY <1>1, FS_Interval
<1>6. \E h \in [SUBSET S -> A] : IsFold(h, S, base, g, c)
  <2>1. \A s \in SUBSET S : s # {} => c[s] \in s
    BY <1>4
  <2> HIDE DEF A, S, base, g, c
  <2> QED
    BY <1>2, <1>3, <1>5, <2>1, FoldExists
<1>7. PICK f \in [SUBSET S -> A] : IsFold(f, S, base, g, c)
  BY <1>6
<1>8. Eq(f)
  <2>1. ASSUME NEW s \in SUBSET S, s # {}
        PROVE  g[f[s \ {c[s]}], c[s]] = WithOneMore(f[s \ {Max(s)}], q[Max(s)], values, sizes)
    <3>1. c[s] = Max(s) /\ Max(s) \in S /\ q[Max(s)] = Max(s)
      BY <1>1, <1>4, <2>1
    <3>2. f[s \ {Max(s)}] \in A
      OBVIOUS
    <3> HIDE DEF A, S, c, q
    <3>3. g[f[s \ {Max(s)}], Max(s)] = WithOneMore(f[s \ {Max(s)}], Max(s), values, sizes)
      BY <3>1, <3>2
    <3> QED
      BY <3>1, <3>3
  <2> HIDE DEF g, c, A, base
  <2>2. f = [s \in SUBSET S |-> IF s = {} THEN base ELSE g[f[s \ {c[s]}], c[s]]]
    BY <1>7 DEF IsFold
  <2>3. f = [s \in SUBSET S |-> IF s = {} THEN base ELSE WithOneMore(f[s \ {Max(s)}], q[Max(s)], values, sizes)]
    <3> HIDE DEF q
    <3> QED
      BY <2>1, <2>2
  <2> QED
    BY <1>1, <2>3 DEF IsTableFold, base
<1> DEFINE t == CHOOSE h : Eq(h)
<1>9. Eq(t)
  BY <1>8
<1>10. Table(values, sizes, target) = t[DOMAIN q]
  <2> HIDE DEF q
  <2>1. q = [i \in DOMAIN values |-> i]
    BY DEF q
  <2> QED
    BY <2>1, TableIs
<1> HIDE DEF t
<1>11. t[{}] = base /\ \A s \in SUBSET S : s # {} => t[s] = WithOneMore(t[s \ {Max(s)}], Max(s), values, sizes)
  <2>1. \A s \in SUBSET S : s # {} => q[Max(s)] = Max(s)
    BY <1>1, <1>4
  <2> HIDE DEF q
  <2> QED
    BY <1>1, <1>9, <2>1 DEF IsTableFold
<1>12. ASSUME NEW k \in 1 .. n
       PROVE  t[1 .. k] = WithOneMore(t[1 .. (k - 1)], k, values, sizes)
  <2>1. 1 .. k \in SUBSET S /\ 1 .. k # {} /\ k \in 1 .. k
    BY <1>1
  <2>2. Max(1 .. k) = k
    BY <1>4, <2>1
  <2>3. (1 .. k) \ {k} = 1 .. (k - 1)
    BY <1>1
  <2> QED
    BY <1>11, <2>1, <2>2, <2>3
<1> DEFINE T == {k \in Nat : k <= n => t[1 .. k] \in A}
<1>13. 0 \in T
  <2>1. 1 .. 0 = {}
    OBVIOUS
  <2> QED
    BY <1>2, <1>11, <2>1
<1>14. ASSUME NEW k \in Nat, k \in T PROVE k + 1 \in T
  <2> SUFFICES ASSUME k + 1 <= n PROVE t[1 .. (k + 1)] \in A
    OBVIOUS
  <2>1. k + 1 \in 1 .. n /\ (k + 1) - 1 = k /\ k <= n
    BY <1>1
  <2>2. t[1 .. (k + 1)] = WithOneMore(t[1 .. k], k + 1, values, sizes)
    BY <1>12, <2>1
  <2>3. t[1 .. k] \in A
    BY <1>14, <2>1
  <2> QED
    BY <2>1, <2>2, <2>3, WithOneMoreIs
<1> HIDE DEF T
<1>15. \A k \in Nat : k \in T
  BY <1>13, <1>14, Induction
<1> DEFINE run == [k \in 0 .. n |-> t[1 .. k]]
<1>16. \A k \in 0 .. n : t[1 .. k] \in A
  BY <1>1, <1>15 DEF T
<1>17. run \in [0 .. n -> A] /\ run[n] = t[1 .. n]
  <2> HIDE DEF A
  <2> QED
    BY <1>1, <1>16
<1>18. run[0] = base
  <2>1. 1 .. 0 = {} /\ 0 \in 0 .. n
    BY <1>1
  <2> QED
    BY <1>11, <2>1
<1>19. \A k \in 1 .. n : run[k] = WithOneMore(run[k - 1], k, values, sizes)
  <2>1. \A k \in 1 .. n : k \in 0 .. n /\ k - 1 \in 0 .. n
    BY <1>1
  <2> QED
    BY <1>12, <2>1
<1> HIDE DEF run
<1> QED
  BY <1>1, <1>10, <1>17, <1>18, <1>19 DEF IsRun

\* What the step from k - 1 items to k does to one place of the table.
LEMMA RunStep ==
  ASSUME NEW n, NEW values, NEW sizes, NEW target, Inputs(n, values, sizes, target),
         NEW h, IsRun(h, n, values, sizes, target)
  PROVE  /\ \A k \in 0 .. n, j \in 0 .. target : h[k].V[j] \in Nat /\ h[k].best[j] \subseteq 1 .. n
         /\ \A j \in 0 .. target : h[0].V[j] = 0 /\ h[0].best[j] = {}
         /\ \A k \in 1 .. n : \A j \in 0 .. target :
              /\ h[k].V[j] = IF Better(h[k - 1], j, values[k], sizes[k])
                             THEN h[k - 1].V[j - sizes[k]] + values[k] ELSE h[k - 1].V[j]
              /\ h[k].best[j] = h[k - 1].best[j] \cup IF Better(h[k - 1], j, values[k], sizes[k]) THEN {k} ELSE {}
<1>1. n \in Nat /\ \A k \in 0 .. n : h[k] \in Tables(n, target)
  BY DEF Inputs, IsRun
<1>2. \A k \in 0 .. n, j \in 0 .. target : h[k].V[j] \in Nat /\ h[k].best[j] \subseteq 1 .. n
  BY <1>1 DEF Tables
<1>3. \A j \in 0 .. target : h[0].V[j] = 0 /\ h[0].best[j] = {}
  BY DEF IsRun, NoItems
<1>4. ASSUME NEW k \in 1 .. n, NEW j \in 0 .. target
      PROVE  /\ h[k].V[j] = IF Better(h[k - 1], j, values[k], sizes[k])
                            THEN h[k - 1].V[j - sizes[k]] + values[k] ELSE h[k - 1].V[j]
             /\ h[k].best[j] = h[k - 1].best[j] \cup IF Better(h[k - 1], j, values[k], sizes[k]) THEN {k} ELSE {}
  <2>1. k - 1 \in 0 .. n /\ h[k - 1] \in Tables(n, target)
    BY <1>1
  <2>2. h[k] = WithOneMore(h[k - 1], k, values, sizes)
    BY DEF IsRun
  <2> QED
    BY <2>1, <2>2, WithOneMoreIs
<1> QED
  BY <1>2, <1>3, <1>4

\* An entry never gets worse, and is at least what the item adds.
LEMMA RunGrows ==
  ASSUME NEW n, NEW values, NEW sizes, NEW target, Inputs(n, values, sizes, target),
         NEW h, IsRun(h, n, values, sizes, target), NEW k \in 1 .. n, NEW j \in 0 .. target
  PROVE  /\ h[k].V[j] >= h[k - 1].V[j]
         /\ j >= sizes[k] => h[k].V[j] >= h[k - 1].V[j - sizes[k]] + values[k]
<1>1. /\ n \in Nat /\ target \in Nat /\ values[k] \in Nat /\ sizes[k] \in Nat \ {0} /\ k - 1 \in 0 .. n /\ k \in 0 .. n
  BY DEF Inputs
<1>2. h[k].V[j] \in Nat /\ h[k - 1].V[j] \in Nat
  BY <1>1, RunStep
<1>3. j >= sizes[k] => j - sizes[k] \in 0 .. target /\ h[k - 1].V[j - sizes[k]] \in Nat
  BY <1>1, RunStep
<1>4. h[k].V[j] = IF Better(h[k - 1], j, values[k], sizes[k])
                  THEN h[k - 1].V[j - sizes[k]] + values[k] ELSE h[k - 1].V[j]
  BY RunStep
<1> QED
  BY <1>1, <1>2, <1>3, <1>4 DEF Better

\* No choice of the first k items that fits is worth more than the entry.
LEMMA EntryIsMost ==
  ASSUME NEW n, NEW values, NEW sizes, NEW target, Inputs(n, values, sizes, target),
         NEW h, IsRun(h, n, values, sizes, target)
  PROVE  \A k \in 0 .. n : \A j \in 0 .. target : \A R \in SUBSET (1 .. k) :
           SumFunctionOnSet(sizes, R) <= j => SumFunctionOnSet(values, R) <= h[k].V[j]
<1> DEFINE P(k) == \A j \in 0 .. target : \A R \in SUBSET (1 .. k) :
                     SumFunctionOnSet(sizes, R) <= j => SumFunctionOnSet(values, R) <= h[k].V[j]
           T == {k \in Nat : k <= n => P(k)}
<1>1. n \in Nat /\ target \in Nat /\ \A i \in 1 .. n : values[i] \in Nat /\ sizes[i] \in Nat \ {0}
  BY DEF Inputs
<1>2. ASSUME NEW R \in SUBSET (1 .. n)
      PROVE  /\ IsFiniteSet(R) /\ SumFunctionOnSet(sizes, R) \in Nat /\ SumFunctionOnSet(values, R) \in Nat
             /\ SumFunctionOnSet(values, {}) = 0
             /\ \A i \in R : /\ SumFunctionOnSet(sizes, R) = sizes[i] + SumFunctionOnSet(sizes, R \ {i})
                             /\ SumFunctionOnSet(values, R) = values[i] + SumFunctionOnSet(values, R \ {i})
  <2>1. IsFiniteSet(R)
    <3>1. IsFiniteSet(1 .. n)
      <4>1. 1 \in Int /\ n \in Int
        BY <1>1
      <4> QED
        BY <4>1, FS_Interval, Zenon
    <3> QED
      BY <3>1, FS_Subset
  <2>2. /\ \A i \in R : sizes[i] \in Nat
        /\ \A i \in R : values[i] \in Nat
    BY <1>1
  <2>3. SumFunctionOnSet(sizes, R) \in Nat /\ \A i \in R : SumFunctionOnSet(sizes, R) = sizes[i] + SumFunctionOnSet(sizes, R \ {i})
    BY <2>1, <2>2, SumType, SumOfOthers
  <2>4. /\ SumFunctionOnSet(values, R) \in Nat /\ SumFunctionOnSet(values, {}) = 0
        /\ \A i \in R : SumFunctionOnSet(values, R) = values[i] + SumFunctionOnSet(values, R \ {i})
    BY <2>1, <2>2, SumType, SumOfOthers
  <2> QED
    BY <2>1, <2>3, <2>4
<1>3. 0 \in T
  <2> SUFFICES ASSUME NEW j \in 0 .. target, NEW R \in SUBSET (1 .. 0) PROVE SumFunctionOnSet(values, R) <= h[0].V[j]
    OBVIOUS
  <2>1. R = {}
    OBVIOUS
  <2>2. SumFunctionOnSet(values, R) = 0
    BY <1>2, <2>1
  <2> QED
    BY <2>2, RunStep
<1>4. ASSUME NEW k \in Nat, k \in T PROVE k + 1 \in T
  <2> SUFFICES ASSUME k + 1 <= n PROVE P(k + 1)
    <3> HIDE DEF P
    <3> QED
      OBVIOUS
  <2> SUFFICES ASSUME NEW j \in 0 .. target, NEW R \in SUBSET (1 .. (k + 1)), SumFunctionOnSet(sizes, R) <= j
               PROVE  SumFunctionOnSet(values, R) <= h[k + 1].V[j]
    OBVIOUS
  <2>1. k + 1 \in 1 .. n /\ (k + 1) - 1 = k /\ k \in 0 .. n /\ k + 1 \in 0 .. n /\ P(k) /\ R \subseteq 1 .. n
    BY <1>1, <1>4
  <2>2. /\ h[k + 1].V[j] >= h[k].V[j]
        /\ j >= sizes[k + 1] => h[k + 1].V[j] >= h[k].V[j - sizes[k + 1]] + values[k + 1]
    BY <2>1, RunGrows
  <2>3. h[k + 1].V[j] \in Nat /\ h[k].V[j] \in Nat
    BY <2>1, RunStep
  <2>4. CASE k + 1 \notin R
    <3>1. R \in SUBSET (1 .. k)
      BY <2>4
    <3>2. SumFunctionOnSet(values, R) <= h[k].V[j]
      BY <2>1, <3>1
    <3> QED
      BY <1>2, <2>1, <2>2, <2>3, <3>2
  <2>5. CASE k + 1 \in R
    <3> DEFINE Q == R \ {k + 1}
               rest == j - sizes[k + 1]
    <3>1. Q \in SUBSET (1 .. k) /\ Q \in SUBSET (1 .. n)
      BY <2>1
    <3>2. /\ SumFunctionOnSet(sizes, R) = sizes[k + 1] + SumFunctionOnSet(sizes, Q)
          /\ SumFunctionOnSet(values, R) = values[k + 1] + SumFunctionOnSet(values, Q)
      BY <1>2, <2>1, <2>5
    <3>3. SumFunctionOnSet(sizes, Q) \in Nat /\ SumFunctionOnSet(values, Q) \in Nat
      BY <1>2, <3>1
    <3>4. sizes[k + 1] \in Nat /\ values[k + 1] \in Nat /\ target \in Nat
      BY <1>1, <2>1
    <3>5. j >= sizes[k + 1] /\ rest \in 0 .. target /\ SumFunctionOnSet(sizes, Q) <= rest
      BY <3>2, <3>3, <3>4
    <3>6. SumFunctionOnSet(values, Q) <= h[k].V[rest] /\ h[k].V[rest] \in Nat
      BY <2>1, <3>1, <3>5, RunStep
    <3> HIDE DEF Q
    <3> QED
      BY <2>2, <2>3, <3>2, <3>3, <3>4, <3>5, <3>6
  <2> QED
    BY <2>4, <2>5
<1> HIDE DEF T
<1>5. \A k \in Nat : k \in T
  BY <1>3, <1>4, Induction
<1> QED
  BY <1>1, <1>5 DEF T

\* best[j] holds the items with which the entry became better; those before an
\* item are the ones the table had before it.
LEMMA BestIs ==
  ASSUME NEW n, NEW values, NEW sizes, NEW target, Inputs(n, values, sizes, target),
         NEW h, IsRun(h, n, values, sizes, target), NEW j \in 0 .. target
  PROVE  \A k \in 0 .. n : h[k].best[j] = {i \in 1 .. k : Better(h[i - 1], j, values[i], sizes[i])}
<1> DEFINE T == {k \in Nat : k <= n => h[k].best[j] = {i \in 1 .. k : Better(h[i - 1], j, values[i], sizes[i])}}
<1>1. n \in Nat
  BY DEF Inputs
<1>2. 0 \in T
  <2>1. 1 .. 0 = {}
    OBVIOUS
  <2> QED
    BY <2>1, RunStep
<1>3. ASSUME NEW k \in Nat, k \in T PROVE k + 1 \in T
  <2> SUFFICES ASSUME k + 1 <= n
               PROVE  h[k + 1].best[j] = {i \in 1 .. (k + 1) : Better(h[i - 1], j, values[i], sizes[i])}
    OBVIOUS
  <2> DEFINE b(i) == Better(h[i - 1], j, values[i], sizes[i])
  <2>1. k + 1 \in 1 .. n /\ (k + 1) - 1 = k /\ k <= n
    BY <1>1
  <2>2. h[k].best[j] = {i \in 1 .. k : b(i)}
    BY <1>3, <2>1
  <2>3. h[k + 1].best[j] = h[k].best[j] \cup IF b(k + 1) THEN {k + 1} ELSE {}
    BY <2>1, RunStep
  <2>4. 1 .. (k + 1) = 1 .. k \cup {k + 1}
    OBVIOUS
  <2> HIDE DEF b
  <2>5. h[k + 1].best[j] = {i \in 1 .. (k + 1) : b(i)}
    BY <2>2, <2>3, <2>4
  <2> QED
    BY <2>5 DEF b
<1> HIDE DEF T
<1>4. \A k \in Nat : k \in T
  BY <1>2, <1>3, Induction
<1> QED
  BY <1>1, <1>4 DEF T

-----------------------------------------------------------------------------
(* The way back through the table.                                          *)

Earlier(best, j, last) == {i \in best[j] : i < last}

\* What the way back is from one place of the table, in terms of the others.
PickAt(f, best, sizes, at) ==
  IF at[1] = 0 \/ Earlier(best, at[1], at[2]) = {} THEN {}
  ELSE {Max(Earlier(best, at[1], at[2]))}
         \cup f[<<at[1] - sizes[Max(Earlier(best, at[1], at[2]))], Max(Earlier(best, at[1], at[2]))>>]

IsPick(f, best, sizes, target) ==
  f = [at \in (0 .. target) \X (1 .. Len(sizes) + 1) |-> PickAt(f, best, sizes, at)]

LEMMA PickIs ==
  ASSUME NEW best, NEW sizes, NEW target
  PROVE  PickBack(best, sizes, target) = (CHOOSE f : IsPick(f, best, sizes, target))[<<target, Len(sizes) + 1>>]
BY DEF PickBack, IsPick, PickAt, Earlier

\* What best has for a size are items that fit into it.
Fitting(best, n, sizes, target) ==
  /\ n \in Nat /\ target \in Nat /\ sizes \in [1 .. n -> Nat \ {0}]
  /\ best \in [0 .. target -> SUBSET (1 .. n)] /\ \A j \in 0 .. target : \A i \in best[j] : sizes[i] <= j

LEMMA EarlierIs ==
  ASSUME NEW best, NEW n, NEW sizes, NEW target, Fitting(best, n, sizes, target),
         NEW j \in 0 .. target, NEW last, Earlier(best, j, last) # {}
  PROVE  LET m == Max(Earlier(best, j, last))
         IN /\ m \in 1 .. n /\ m < last /\ m \in best[j] /\ j - sizes[m] \in 0 .. target /\ sizes[m] <= j
            /\ \A i \in best[j] : i < last => i <= m
<1> DEFINE E == Earlier(best, j, last)
           m == Max(E)
<1>1. E \in SUBSET (0 .. n) /\ E # {} /\ n \in Nat /\ E \subseteq best[j] /\ best[j] \subseteq 1 .. n
  BY DEF Earlier, Fitting
<1>2. m \in E /\ \A i \in E : i <= m
  <2> HIDE DEF E
  <2> QED
    BY <1>1, MaxIs
<1>3. m < last /\ m \in best[j] /\ \A i \in best[j] : i < last => i <= m
  <2> HIDE DEF m
  <2> QED
    BY <1>2 DEF Earlier
<1> HIDE DEF m, E
<1>4. m \in 1 .. n /\ sizes[m] \in Nat /\ sizes[m] <= j /\ target \in Nat
  BY <1>1, <1>3 DEF Fitting
<1>5. j - sizes[m] \in 0 .. target
  BY <1>4
<1> QED
  BY <1>3, <1>4, <1>5 DEF m, E

LEMMA PickExists ==
  ASSUME NEW best, NEW n, NEW sizes, NEW target, Fitting(best, n, sizes, target)
  PROVE  \E f : IsPick(f, best, sizes, target)
<1> DEFINE D(l) == (0 .. target) \X (1 .. l)
           P(l) == \E f \in [D(l) -> SUBSET (1 .. n)] : \A at \in D(l) : f[at] = PickAt(f, best, sizes, at)
           T == {l \in Nat : P(l)}
<1>1. n \in Nat /\ target \in Nat /\ Len(sizes) = n
  BY DEF Fitting
<1>2. 0 \in T
  <2> DEFINE f == [at \in D(0) |-> {}]
  <2>1. D(0) = {}
    OBVIOUS
  <2>2. f \in [D(0) -> SUBSET (1 .. n)] /\ \A at \in D(0) : f[at] = PickAt(f, best, sizes, at)
    <3> HIDE DEF D
    <3> QED
      BY <2>1
  <2> HIDE DEF f, D
  <2> QED
    BY <2>2
<1>3. ASSUME NEW l \in Nat, l \in T PROVE l + 1 \in T
  <2>1. PICK f \in [D(l) -> SUBSET (1 .. n)] : \A at \in D(l) : f[at] = PickAt(f, best, sizes, at)
    BY <1>3
  <2> DEFINE q == [at \in D(l + 1) |-> PickAt(f, best, sizes, at)]
  <2>2. ASSUME NEW at \in D(l + 1), Earlier(best, at[1], at[2]) # {}
        PROVE  LET m == Max(Earlier(best, at[1], at[2]))
               IN m \in 1 .. n /\ <<at[1] - sizes[m], m>> \in D(l)
    <3> DEFINE m == Max(Earlier(best, at[1], at[2]))
    <3>0. at[1] \in 0 .. target /\ at[2] \in 1 .. (l + 1)
      OBVIOUS
    <3>1. m \in 1 .. n /\ m < at[2] /\ at[1] - sizes[m] \in 0 .. target
      BY <2>2, <3>0, EarlierIs
    <3> HIDE DEF m
    <3>2. m \in 1 .. l
      BY <3>0, <3>1
    <3> QED
      BY <3>1, <3>2 DEF m
  <2>3. ASSUME NEW at \in D(l + 1) PROVE PickAt(f, best, sizes, at) \in SUBSET (1 .. n)
    <3> DEFINE m == Max(Earlier(best, at[1], at[2]))
    <3>1. CASE Earlier(best, at[1], at[2]) = {}
      BY <3>1 DEF PickAt
    <3>2. CASE Earlier(best, at[1], at[2]) # {}
      <4>1. m \in 1 .. n /\ <<at[1] - sizes[m], m>> \in D(l)
        BY <2>2, <3>2
      <4> HIDE DEF D, m
      <4>2. f[<<at[1] - sizes[m], m>>] \in SUBSET (1 .. n)
        BY <4>1
      <4> QED
        BY <4>1, <4>2 DEF m, PickAt
    <3> QED
      BY <3>1, <3>2
  <2>4. q \in [D(l + 1) -> SUBSET (1 .. n)]
    <3> HIDE DEF D
    <3> QED
      BY <2>3
  <2>5. ASSUME NEW at \in D(l) PROVE q[at] = f[at]
    <3>1. at \in D(l + 1)
      OBVIOUS
    <3> HIDE DEF D
    <3> QED
      BY <2>1, <3>1
  <2>6. ASSUME NEW at \in D(l + 1) PROVE q[at] = PickAt(q, best, sizes, at)
    <3> DEFINE m == Max(Earlier(best, at[1], at[2]))
    <3>0. q[at] = PickAt(f, best, sizes, at)
      OBVIOUS
    <3> HIDE DEF q
    <3>1. CASE Earlier(best, at[1], at[2]) = {}
      BY <3>0, <3>1 DEF PickAt
    <3>2. CASE Earlier(best, at[1], at[2]) # {}
      <4>1. q[<<at[1] - sizes[m], m>>] = f[<<at[1] - sizes[m], m>>]
        BY <2>2, <2>5, <3>2
      <4> HIDE DEF D
      <4> QED
        BY <3>0, <4>1 DEF PickAt
    <3> QED
      BY <3>1, <3>2
  <2> HIDE DEF q, D
  <2>7. \E r \in [D(l + 1) -> SUBSET (1 .. n)] : \A at \in D(l + 1) : r[at] = PickAt(r, best, sizes, at)
    BY <2>4, <2>6
  <2>8. P(l + 1)
    BY <2>7
  <2> HIDE DEF P
  <2> QED
    BY <2>8
<1> HIDE DEF T
<1>4. \A l \in Nat : l \in T
  BY <1>2, <1>3, Induction
<1>5. PICK f \in [D(n + 1) -> SUBSET (1 .. n)] : \A at \in D(n + 1) : f[at] = PickAt(f, best, sizes, at)
  <2>1. n + 1 \in T
    BY <1>1, <1>4
  <2>2. P(n + 1)
    <3> HIDE DEF P
    <3> QED
      BY <2>1 DEF T
  <2> HIDE DEF D
  <2> QED
    BY <2>2
<1>6. f = [at \in D(n + 1) |-> PickAt(f, best, sizes, at)]
  <2> HIDE DEF D
  <2> QED
    BY <1>5
<1>7. IsPick(f, best, sizes, target)
  <2> HIDE DEF P, T
  <2> QED
    BY <1>1, <1>6 DEF IsPick
<1> QED
  BY <1>7

\* An entry that none of some items made better is as it was before them.
LEMMA EntryStays ==
  ASSUME NEW n, NEW values, NEW sizes, NEW target, Inputs(n, values, sizes, target),
         NEW h, IsRun(h, n, values, sizes, target), NEW j \in 0 .. target, NEW m \in 0 .. n
  PROVE  \A k \in m .. n :
           (\A i \in (m + 1) .. k : ~ Better(h[i - 1], j, values[i], sizes[i])) => h[k].V[j] = h[m].V[j]
<1> DEFINE P(k) == (\A i \in (m + 1) .. k : ~ Better(h[i - 1], j, values[i], sizes[i])) => h[k].V[j] = h[m].V[j]
           T == {l \in Nat : m + l <= n => P(m + l)}
<1>1. n \in Nat
  BY DEF Inputs
<1>2. 0 \in T
  BY <1>1
<1>3. ASSUME NEW l \in Nat, l \in T PROVE l + 1 \in T
  <2> SUFFICES ASSUME m + l + 1 <= n, \A i \in (m + 1) .. (m + l + 1) : ~ Better(h[i - 1], j, values[i], sizes[i])
               PROVE  h[m + (l + 1)].V[j] = h[m].V[j]
    <3>1. m + (l + 1) = m + l + 1
      BY <1>1
    <3> QED
      BY <3>1
  <2>1. /\ m + l + 1 \in 1 .. n /\ (m + l + 1) - 1 = m + l /\ m + (l + 1) = m + l + 1 /\ m + l <= n
        /\ m + l + 1 \in (m + 1) .. (m + l + 1)
    BY <1>1
  <2>2. P(m + l)
    BY <1>3, <2>1
  <2>3. h[m + l].V[j] = h[m].V[j]
    BY <1>1, <2>2
  <2>4. ~ Better(h[m + l], j, values[m + l + 1], sizes[m + l + 1])
    BY <2>1
  <2>5. h[m + l + 1].V[j] = IF Better(h[(m + l + 1) - 1], j, values[m + l + 1], sizes[m + l + 1])
                            THEN h[(m + l + 1) - 1].V[j - sizes[m + l + 1]] + values[m + l + 1]
                            ELSE h[(m + l + 1) - 1].V[j]
    BY <2>1, RunStep
  <2> QED
    BY <2>1, <2>3, <2>4, <2>5
<1> HIDE DEF T
<1>4. \A l \in Nat : l \in T
  BY <1>2, <1>3, Induction
<1>5. ASSUME NEW k \in m .. n PROVE P(k)
  <2>1. k - m \in Nat /\ m + (k - m) = k
    BY <1>1
  <2>2. k - m \in T
    BY <1>4, <2>1
  <2>3. k <= n
    BY <1>1
  <2> HIDE DEF P
  <2> QED
    BY <2>1, <2>2, <2>3 DEF T
<1> QED
  BY <1>5

LEMMA ItemSums ==
  ASSUME NEW n, NEW values, NEW sizes, NEW target, Inputs(n, values, sizes, target),
         NEW R \in SUBSET (1 .. n)
  PROVE  /\ SumFunctionOnSet(sizes, R) \in Nat /\ SumFunctionOnSet(values, R) \in Nat
         /\ SumFunctionOnSet(sizes, {}) = 0 /\ SumFunctionOnSet(values, {}) = 0
         /\ \A i \in R : /\ SumFunctionOnSet(sizes, R) = sizes[i] + SumFunctionOnSet(sizes, R \ {i})
                         /\ SumFunctionOnSet(values, R) = values[i] + SumFunctionOnSet(values, R \ {i})
<1>1. n \in Nat /\ \A i \in 1 .. n : values[i] \in Nat /\ sizes[i] \in Nat
  BY DEF Inputs
<1>2. IsFiniteSet(R)
  <2>1. 1 \in Int /\ n \in Int
    BY <1>1
  <2>2. IsFiniteSet(1 .. n)
    BY <2>1, FS_Interval, Zenon
  <2> QED
    BY <2>2, FS_Subset
<1>3. /\ \A i \in R : sizes[i] \in Nat
      /\ \A i \in R : values[i] \in Nat
  BY <1>1
<1>4. /\ SumFunctionOnSet(sizes, R) \in Nat /\ SumFunctionOnSet(sizes, {}) = 0
      /\ \A i \in R : SumFunctionOnSet(sizes, R) = sizes[i] + SumFunctionOnSet(sizes, R \ {i})
  BY <1>2, <1>3, SumType, SumOfOthers
<1>5. /\ SumFunctionOnSet(values, R) \in Nat /\ SumFunctionOnSet(values, {}) = 0
      /\ \A i \in R : SumFunctionOnSet(values, R) = values[i] + SumFunctionOnSet(values, R \ {i})
  BY <1>2, <1>3, SumType, SumOfOthers
<1> QED
  BY <1>4, <1>5

\* The way back: the items it finds fit, and are worth what the table says.
LEMMA PickIsRight ==
  ASSUME NEW n, NEW values, NEW sizes, NEW target, Inputs(n, values, sizes, target),
         NEW h, IsRun(h, n, values, sizes, target), NEW f, IsPick(f, h[n].best, sizes, target)
  PROVE  \A last \in 1 .. (n + 1) : \A j \in 0 .. target :
           /\ f[<<j, last>>] \subseteq 1 .. (last - 1)
           /\ SumFunctionOnSet(sizes, f[<<j, last>>]) <= j
           /\ SumFunctionOnSet(values, f[<<j, last>>]) = h[last - 1].V[j]
<1> DEFINE best == h[n].best
           Right(j, last) == /\ f[<<j, last>>] \subseteq 1 .. (last - 1)
                             /\ SumFunctionOnSet(sizes, f[<<j, last>>]) <= j
                             /\ SumFunctionOnSet(values, f[<<j, last>>]) = h[last - 1].V[j]
           T == {l \in Nat : \A last \in 1 .. l : last <= n + 1 => \A j \in 0 .. target : Right(j, last)}
<1>1. n \in Nat /\ target \in Nat /\ Len(sizes) = n /\ \A i \in 1 .. n : sizes[i] \in Nat \ {0} /\ values[i] \in Nat
  BY DEF Inputs
<1>2. \A j \in 0 .. target : best[j] = {i \in 1 .. n : Better(h[i - 1], j, values[i], sizes[i])}
  <2>1. n \in 0 .. n
    BY <1>1
  <2> QED
    BY <2>1, BestIs
<1>3. Fitting(best, n, sizes, target)
  <2>1. best \in [0 .. target -> SUBSET (1 .. n)]
    <3>1. h[n] \in Tables(n, target)
      BY <1>1 DEF IsRun
    <3> QED
      BY <3>1 DEF Tables
  <2>2. \A j \in 0 .. target : \A i \in best[j] : sizes[i] <= j
    <3> HIDE DEF best
    <3> QED
      BY <1>1, <1>2 DEF Better
  <2> HIDE DEF best
  <2> QED
    BY <1>1, <2>1, <2>2 DEF Fitting, Inputs
<1>4. \A j \in 0 .. target, last \in 1 .. (n + 1) : f[<<j, last>>] = PickAt(f, best, sizes, <<j, last>>)
  <2> HIDE DEF best
  <2>1. f = [at \in (0 .. target) \X (1 .. n + 1) |-> PickAt(f, best, sizes, at)]
    BY <1>1 DEF IsPick, best
  <2> QED
    BY <2>1
<1>5. 0 \in T
  OBVIOUS
<1> HIDE DEF best
<1>6. ASSUME NEW l \in Nat, l \in T PROVE l + 1 \in T
  <2> SUFFICES ASSUME l + 1 <= n + 1, NEW j \in 0 .. target PROVE Right(j, l + 1)
    <3>1. \A last \in 1 .. (l + 1) : last \in 1 .. l \/ last = l + 1
      OBVIOUS
    <3> HIDE DEF Right
    <3> QED
      BY <1>6, <3>1
  <2> DEFINE last == l + 1
             E == Earlier(best, j, last)
             m == Max(E)
  <2>0. last \in 1 .. (n + 1) /\ last - 1 = l /\ l \in 0 .. n
    BY <1>1
  <2>1. f[<<j, last>>] = IF j = 0 \/ E = {} THEN {} ELSE {m} \cup f[<<j - sizes[m], m>>]
    BY <1>4, <2>0 DEF PickAt
  <2>2. CASE E = {}
    <3>1. ASSUME NEW i \in (0 + 1) .. l PROVE ~ Better(h[i - 1], j, values[i], sizes[i])
      <4>1. i \in 1 .. n /\ i < last
        BY <1>1, <2>0
      <4>2. i \notin best[j]
        BY <2>2, <4>1 DEF Earlier
      <4> QED
        BY <1>2, <4>1, <4>2
    <3>2. h[l].V[j] = h[0].V[j]
      <4>1. 0 \in 0 .. n /\ l \in 0 .. n
        BY <1>1, <2>0
      <4> QED
        BY <3>1, <4>1, EntryStays
    <3>3. h[l].V[j] = 0
      BY <3>2, RunStep
    <3>4. f[<<j, last>>] = {}
      BY <2>1, <2>2
    <3>5. SumFunctionOnSet(sizes, {}) = 0 /\ SumFunctionOnSet(values, {}) = 0
      BY ItemSums
    <3> QED
      BY <2>0, <3>3, <3>4, <3>5
  <2>3. CASE E # {}
    <3>1. /\ m \in 1 .. n /\ m < last /\ m \in best[j] /\ j - sizes[m] \in 0 .. target /\ sizes[m] <= j
          /\ \A i \in best[j] : i < last => i <= m
      BY <1>3, <2>3, EarlierIs
    <3> DEFINE rest == j - sizes[m]
               Q == f[<<rest, m>>]
    <3> HIDE DEF m
    <3>2. m \in 1 .. l /\ m <= n + 1 /\ m \in 1 .. (n + 1) /\ j # 0 /\ m \in 0 .. n /\ m - 1 \in 0 .. n /\ l \in m .. n
      BY <1>1, <2>0, <3>1
    <3>3. Right(rest, m)
      BY <1>6, <3>1, <3>2
    <3> HIDE DEF rest
    <3>4. Q \subseteq 1 .. (m - 1) /\ SumFunctionOnSet(sizes, Q) <= rest /\ SumFunctionOnSet(values, Q) = h[m - 1].V[rest]
      BY <3>3
    <3>5. f[<<j, last>>] = {m} \cup Q
      BY <2>1, <2>3, <3>2 DEF rest
    <3> HIDE DEF Q, E
    <3>6. m \notin Q /\ ({m} \cup Q) \ {m} = Q /\ {m} \cup Q \in SUBSET (1 .. n) /\ Q \in SUBSET (1 .. n) /\ {m} \cup Q \subseteq 1 .. l
      BY <1>1, <3>1, <3>2, <3>4
    <3>7. /\ SumFunctionOnSet(sizes, {m} \cup Q) = sizes[m] + SumFunctionOnSet(sizes, Q)
          /\ SumFunctionOnSet(values, {m} \cup Q) = values[m] + SumFunctionOnSet(values, Q)
          /\ SumFunctionOnSet(sizes, Q) \in Nat
      <4>1. m \in {m} \cup Q
        OBVIOUS
      <4> QED
        BY <3>6, <4>1, ItemSums
    <3>8. ASSUME NEW i \in (m + 1) .. l PROVE ~ Better(h[i - 1], j, values[i], sizes[i])
      <4>1. i \in 1 .. n /\ i < last /\ ~ (i <= m)
        BY <1>1, <2>0, <3>2
      <4>2. i \notin best[j]
        BY <3>1, <4>1
      <4> QED
        BY <1>2, <4>1, <4>2
    <3>9. h[l].V[j] = h[m].V[j]
      BY <3>2, <3>8, EntryStays
    <3>10. Better(h[m - 1], j, values[m], sizes[m])
      BY <1>2, <3>1
    <3>11. h[m].V[j] = h[m - 1].V[rest] + values[m] /\ h[m - 1].V[rest] \in Nat
      BY <3>1, <3>2, <3>10, RunStep DEF rest
    <3>12. SumFunctionOnSet(sizes, {m} \cup Q) <= j
      BY <1>1, <3>1, <3>4, <3>7 DEF rest
    <3>13. SumFunctionOnSet(values, {m} \cup Q) = h[l].V[j]
      BY <1>1, <3>1, <3>4, <3>7, <3>9, <3>11
    <3> QED
      BY <2>0, <3>5, <3>6, <3>12, <3>13
  <2> QED
    BY <2>2, <2>3
<1> HIDE DEF T
<1>7. \A l \in Nat : l \in T
  BY <1>5, <1>6, Induction
<1>8. \A last \in 1 .. (n + 1) : \A j \in 0 .. target : Right(j, last)
  <2>1. n + 1 \in T /\ \A last \in 1 .. (n + 1) : last <= n + 1
    BY <1>1, <1>7
  <2> HIDE DEF Right
  <2> QED
    BY <2>1 DEF T
<1> QED
  BY <1>8

\* knapsack(): what it finds fits, and nothing that fits is worth more.
LEMMA MostIs ==
  ASSUME NEW n, NEW values, NEW sizes, NEW target, Inputs(n, values, sizes, target)
  PROVE  LET S == Most(values, sizes, target)
         IN /\ S \subseteq 1 .. n /\ SumFunctionOnSet(sizes, S) <= target
            /\ \A R \in SUBSET (1 .. n) :
                 SumFunctionOnSet(sizes, R) <= target => SumFunctionOnSet(values, R) <= SumFunctionOnSet(values, S)
<1> DEFINE S == Most(values, sizes, target)
<1>1. n \in Nat /\ target \in Nat /\ Len(sizes) = n /\ sizes \in [1 .. n -> Nat \ {0}]
  BY DEF Inputs
<1>2. PICK h : IsRun(h, n, values, sizes, target) /\ h[n] = Table(values, sizes, target)
  BY RunExists
<1>3. Fitting(h[n].best, n, sizes, target)
  <2>1. h[n] \in Tables(n, target) /\ n \in 0 .. n
    BY <1>1, <1>2 DEF IsRun
  <2>2. h[n].best \in [0 .. target -> SUBSET (1 .. n)]
    BY <2>1 DEF Tables
  <2>3. \A j \in 0 .. target : h[n].best[j] = {i \in 1 .. n : Better(h[i - 1], j, values[i], sizes[i])}
    BY <1>2, <2>1, BestIs
  <2>4. \A j \in 0 .. target : \A i \in h[n].best[j] : sizes[i] <= j
    BY <1>1, <2>3 DEF Better
  <2> QED
    BY <1>1, <2>2, <2>4 DEF Fitting
<1> DEFINE f == CHOOSE p : IsPick(p, h[n].best, sizes, target)
<1>4. IsPick(f, h[n].best, sizes, target)
  <2>1. \E p : IsPick(p, h[n].best, sizes, target)
    BY <1>3, PickExists
  <2> QED
    BY <2>1
<1>5. S = f[<<target, n + 1>>]
  <2>1. PickBack(h[n].best, sizes, target) = f[<<target, Len(sizes) + 1>>]
    BY PickIs
  <2> HIDE DEF f
  <2> QED
    BY <1>1, <1>2, <2>1 DEF Most
<1> HIDE DEF f, S
<1>6. n + 1 \in 1 .. (n + 1) /\ target \in 0 .. target /\ n \in 0 .. n /\ (n + 1) - 1 = n
  BY <1>1
<1>7. S \subseteq 1 .. n /\ SumFunctionOnSet(sizes, S) <= target /\ SumFunctionOnSet(values, S) = h[n].V[target]
  BY <1>2, <1>4, <1>5, <1>6, PickIsRight
<1>8. \A R \in SUBSET (1 .. n) : SumFunctionOnSet(sizes, R) <= target => SumFunctionOnSet(values, R) <= h[n].V[target]
  BY <1>2, <1>6, EntryIsMost
<1> QED
  BY <1>7, <1>8 DEF S

\* What a set and the rest come to is what all come to.
LEMMA SumOfParts ==
  ASSUME NEW f, NEW A, IsFiniteSet(A), \A x \in A : f[x] \in Nat, NEW S \in SUBSET A
  PROVE  SumFunctionOnSet(f, A) = SumFunctionOnSet(f, S) + SumFunctionOnSet(f, A \ S)
<1> DEFINE T == {s \in SUBSET A : SumFunctionOnSet(f, A) = SumFunctionOnSet(f, s) + SumFunctionOnSet(f, A \ s)}
<1>1. ASSUME NEW s \in SUBSET A
      PROVE  /\ SumFunctionOnSet(f, s) \in Nat /\ SumFunctionOnSet(f, {}) = 0
             /\ \A x \in s : SumFunctionOnSet(f, s) = f[x] + SumFunctionOnSet(f, s \ {x})
  <2>1. IsFiniteSet(s) /\ \A x \in s : f[x] \in Nat
    BY FS_Subset
  <2> QED
    BY <2>1, SumType, SumOfOthers
<1>2. ASSUME NEW s \in SUBSET A, \A r \in SUBSET s : r # s => r \in T PROVE s \in T
  <2>1. CASE s = {}
    <3>1. A \ s = A /\ A \in SUBSET A
      BY <2>1
    <3> QED
      BY <1>1, <2>1, <3>1
  <2>2. CASE s # {}
    <3>1. PICK x \in s : TRUE
      BY <2>2
    <3> DEFINE r == s \ {x}
    <3>2. r \in T
      BY <1>2
    <3>3. /\ r \in SUBSET A /\ A \ r \in SUBSET A /\ x \in A \ r /\ (A \ r) \ {x} = A \ s /\ A \ s \in SUBSET A
          /\ f[x] \in Nat
      OBVIOUS
    <3>4. SumFunctionOnSet(f, s) = f[x] + SumFunctionOnSet(f, r)
      BY <1>1
    <3>5. SumFunctionOnSet(f, A \ r) = f[x] + SumFunctionOnSet(f, A \ s)
      BY <1>1, <3>3
    <3>6. SumFunctionOnSet(f, r) \in Nat /\ SumFunctionOnSet(f, A \ s) \in Nat
      BY <1>1, <3>3
    <3> HIDE DEF r
    <3> QED
      BY <3>2, <3>3, <3>4, <3>5, <3>6
  <2> QED
    BY <2>1, <2>2
<1> HIDE DEF T
<1>3. \A s \in SUBSET A : s \in T
  BY <1>2, SubsetInduction
<1> QED
  BY <1>3 DEF T

\* knapsack_minsize(): whatever the values and the sizes, what is left when as
\* much as possible is left out suffices, and nothing smaller does.
THEOREM WhatIsLeftIsFewest ==
  ASSUME NEW n \in Nat, NEW values \in [1 .. n -> Nat \ {0}], NEW sizes \in [1 .. n -> Nat],
         NEW target \in Nat
  PROVE  IsFewest(Fewest(values, sizes, target), values, sizes, target)
<1> DEFINE all == 1 .. n
           spare == SumFunctionOnSet(values, all) - target
           S == Fewest(values, sizes, target)
<1> SUFFICES IsFewest(S, values, sizes, target)
  OBVIOUS
<1>1. DOMAIN values = all /\ \A x \in all : values[x] \in Nat /\ sizes[x] \in Nat
  OBVIOUS
<1>2. IsFiniteSet(all)
  <2>1. 1 \in Int /\ n \in Int
    OBVIOUS
  <2> QED
    BY <2>1, FS_Interval, Zenon
<1>3. \A R \in SUBSET all : /\ SumFunctionOnSet(values, all) = SumFunctionOnSet(values, R) + SumFunctionOnSet(values, all \ R)
                            /\ SumFunctionOnSet(sizes, all) = SumFunctionOnSet(sizes, R) + SumFunctionOnSet(sizes, all \ R)
                            /\ SumFunctionOnSet(values, R) \in Nat /\ SumFunctionOnSet(sizes, R) \in Nat
  <2> SUFFICES ASSUME NEW R \in SUBSET all
               PROVE  /\ SumFunctionOnSet(values, all) = SumFunctionOnSet(values, R) + SumFunctionOnSet(values, all \ R)
                      /\ SumFunctionOnSet(sizes, all) = SumFunctionOnSet(sizes, R) + SumFunctionOnSet(sizes, all \ R)
                      /\ SumFunctionOnSet(values, R) \in Nat /\ SumFunctionOnSet(sizes, R) \in Nat
    OBVIOUS
  <2>1. /\ \A x \in all : values[x] \in Nat
        /\ \A x \in all : sizes[x] \in Nat
        /\ \A x \in R : values[x] \in Nat
        /\ \A x \in R : sizes[x] \in Nat
        /\ IsFiniteSet(R)
    BY <1>1, <1>2, FS_Subset
  <2>2. SumFunctionOnSet(values, R) \in Nat /\ SumFunctionOnSet(sizes, R) \in Nat
    BY <2>1, SumType
  <2>3. SumFunctionOnSet(values, all) = SumFunctionOnSet(values, R) + SumFunctionOnSet(values, all \ R)
    <3> HIDE DEF all
    <3> QED
      BY <1>2, <2>1, SumOfParts
  <2>4. SumFunctionOnSet(sizes, all) = SumFunctionOnSet(sizes, R) + SumFunctionOnSet(sizes, all \ R)
    <3> HIDE DEF all
    <3> QED
      BY <1>2, <2>1, SumOfParts
  <2> QED
    BY <2>2, <2>3, <2>4
<1>4. SumFunctionOnSet(values, all) \in Nat /\ all \in SUBSET all
  BY <1>3
<1>5. S = all \ IF spare >= 0 THEN Most(sizes, values, spare) ELSE {}
  BY <1>1 DEF Fewest
<1> HIDE DEF S
<1>6. CASE Suffices(DOMAIN values, values, target)
  <2>1. spare >= 0 /\ spare \in Nat
    BY <1>1, <1>4, <1>6 DEF Suffices
  <2> DEFINE out == Most(sizes, values, spare)
  <2>2. S = all \ out
    BY <1>5, <2>1
  <2>3. Inputs(n, sizes, values, spare)
    <3> HIDE DEF spare
    <3> QED
      BY <2>1 DEF Inputs
  <2> HIDE DEF spare, out
  <2>4. /\ out \subseteq all /\ SumFunctionOnSet(values, out) <= spare
        /\ \A R \in SUBSET all : SumFunctionOnSet(values, R) <= spare => SumFunctionOnSet(sizes, R) <= SumFunctionOnSet(sizes, out)
    BY <2>3, MostIs DEF out
  <2> HIDE DEF all
  <2>5. all \ out \in SUBSET all /\ out \in SUBSET all
    BY <2>4
  <2>6. Suffices(S, values, target)
    BY <1>3, <1>4, <2>2, <2>4, <2>5 DEF spare, Suffices
  <2>7. ASSUME NEW R \in SUBSET DOMAIN values, Suffices(R, values, target)
        PROVE  SumFunctionOnSet(sizes, S) <= SumFunctionOnSet(sizes, R)
    <3>1. R \in SUBSET all /\ all \ R \in SUBSET all /\ SumFunctionOnSet(values, R) >= target
      BY <1>1, <2>7 DEF Suffices
    <3>2. SumFunctionOnSet(values, all \ R) <= spare
      <4>1. /\ SumFunctionOnSet(values, all) = SumFunctionOnSet(values, R) + SumFunctionOnSet(values, all \ R)
            /\ SumFunctionOnSet(values, R) \in Nat /\ SumFunctionOnSet(values, all \ R) \in Nat
        BY <1>3, <3>1
      <4> QED
        BY <3>1, <4>1 DEF spare
    <3>3. SumFunctionOnSet(sizes, all \ R) <= SumFunctionOnSet(sizes, out)
      BY <2>4, <3>1, <3>2
    <3>4. /\ SumFunctionOnSet(sizes, all) = SumFunctionOnSet(sizes, R) + SumFunctionOnSet(sizes, all \ R)
          /\ SumFunctionOnSet(sizes, all) = SumFunctionOnSet(sizes, out) + SumFunctionOnSet(sizes, all \ out)
          /\ SumFunctionOnSet(sizes, R) \in Nat /\ SumFunctionOnSet(sizes, all \ R) \in Nat
          /\ SumFunctionOnSet(sizes, out) \in Nat /\ SumFunctionOnSet(sizes, all \ out) \in Nat
      BY <1>3, <2>5, <3>1
    <3> QED
      BY <2>2, <3>3, <3>4
  <2> QED
    BY <1>6, <2>6, <2>7 DEF IsFewest
<1>7. CASE ~ Suffices(DOMAIN values, values, target)
  <2>1. ~ (spare >= 0)
    BY <1>1, <1>4, <1>7 DEF Suffices
  <2>2. S = all
    BY <1>5, <2>1
  <2> HIDE DEF all
  <2> QED
    BY <1>1, <1>7, <2>2 DEF IsFewest
<1> QED
  BY <1>6, <1>7

-----------------------------------------------------------------------------
(* Unions, and the order of posts.                                          *)

\* A union has no more members than its sets together, and as many when no two
\* of them have one in common.
LEMMA UnionSum ==
  ASSUME NEW I, IsFiniteSet(I), NEW X, IsFiniteSet(X), NEW F \in [I -> SUBSET X],
         NEW f, \A i \in I : f[i] = Cardinality(F[i])
  PROVE  \A R \in SUBSET I :
           /\ Cardinality(UNION {F[i] : i \in R}) <= SumFunctionOnSet(f, R)
           /\ (\A i, j \in R : i # j => F[i] \cap F[j] = {}) =>
                Cardinality(UNION {F[i] : i \in R}) = SumFunctionOnSet(f, R)
<1> DEFINE U(R) == UNION {F[i] : i \in R}
           Apart(R) == \A i, j \in R : i # j => F[i] \cap F[j] = {}
           T == {R \in SUBSET I : /\ Cardinality(U(R)) <= SumFunctionOnSet(f, R)
                                  /\ Apart(R) => Cardinality(U(R)) = SumFunctionOnSet(f, R)}
<1>1. \A Y \in SUBSET X : IsFiniteSet(Y) /\ Cardinality(Y) \in Nat
  BY FS_Subset, FS_CardinalityType
<1>2. ASSUME NEW R \in SUBSET I
      PROVE  /\ SumFunctionOnSet(f, R) \in Nat /\ SumFunctionOnSet(f, {}) = 0
             /\ \A i \in R : SumFunctionOnSet(f, R) = f[i] + SumFunctionOnSet(f, R \ {i})
  <2>1. IsFiniteSet(R) /\ \A i \in R : f[i] \in Nat
    BY <1>1, FS_Subset
  <2> QED
    BY <2>1, SumType, SumOfOthers
<1>3. ASSUME NEW R \in SUBSET I, \A Q \in SUBSET R : Q # R => Q \in T PROVE R \in T
  <2>1. CASE R = {}
    <3>1. U(R) = {}
      BY <2>1
    <3>2. Cardinality({}) = 0
      BY FS_EmptySet
    <3>3. SumFunctionOnSet(f, R) = 0
      BY <1>2, <2>1
    <3> HIDE DEF U, Apart
    <3> QED
      BY <3>1, <3>2, <3>3
  <2>2. CASE R # {}
    <3>1. PICK i \in R : TRUE
      BY <2>2
    <3> DEFINE Q == R \ {i}
    <3>2. Q \in T /\ Q \in SUBSET I
      BY <1>3
    <3>3. U(R) = F[i] \cup U(Q) /\ F[i] \in SUBSET X /\ U(Q) \in SUBSET X
      OBVIOUS
    <3>4. Apart(R) => Apart(Q) /\ F[i] \cap U(Q) = {}
      OBVIOUS
    <3>5. SumFunctionOnSet(f, R) = f[i] + SumFunctionOnSet(f, Q) /\ f[i] = Cardinality(F[i])
      BY <1>2
    <3>6. /\ Cardinality(Q) = Cardinality(Q) /\ Cardinality(U(Q)) <= SumFunctionOnSet(f, Q)
          /\ Apart(Q) => Cardinality(U(Q)) = SumFunctionOnSet(f, Q)
      BY <3>2
    <3>7. SumFunctionOnSet(f, Q) \in Nat
      BY <1>2, <3>2
    <3> HIDE DEF Q, U, Apart
    <3>8. Cardinality(F[i] \cup U(Q)) = Cardinality(F[i]) + Cardinality(U(Q)) - Cardinality(F[i] \cap U(Q))
      BY <1>1, <3>3, FS_Union
    <3>9. /\ Cardinality(F[i]) \in Nat /\ Cardinality(U(Q)) \in Nat /\ Cardinality(F[i] \cap U(Q)) \in Nat
          /\ F[i] \cap U(Q) = {} => Cardinality(F[i] \cap U(Q)) = 0
      <4>1. F[i] \cap U(Q) \in SUBSET X
        BY <3>3
      <4> QED
        BY <1>1, <3>3, <4>1, FS_EmptySet
    <3>10. Cardinality(U(R)) <= SumFunctionOnSet(f, R)
      BY <3>3, <3>5, <3>6, <3>7, <3>8, <3>9
    <3>11. Apart(R) => Cardinality(U(R)) = SumFunctionOnSet(f, R)
      BY <3>3, <3>4, <3>5, <3>6, <3>7, <3>8, <3>9
    <3> QED
      BY <3>10, <3>11
  <2> QED
    BY <2>1, <2>2
<1> HIDE DEF T
<1>4. \A R \in SUBSET I : R \in T
  BY <1>3, SubsetInduction
<1> QED
  BY <1>4 DEF T

LEMMA OnesSum ==
  ASSUME NEW S, IsFiniteSet(S), NEW f, \A x \in S : f[x] = 1
  PROVE  SumFunctionOnSet(f, S) = Cardinality(S)
<1> DEFINE T == {s \in SUBSET S : SumFunctionOnSet(f, s) = Cardinality(s)}
<1>1. ASSUME NEW s \in SUBSET S
      PROVE  /\ IsFiniteSet(s) /\ Cardinality(s) \in Nat /\ SumFunctionOnSet(f, {}) = 0 /\ Cardinality({}) = 0
             /\ \A x \in s : /\ SumFunctionOnSet(f, s) = 1 + SumFunctionOnSet(f, s \ {x})
                             /\ Cardinality(s) = 1 + Cardinality(s \ {x})
  <2>1. IsFiniteSet(s) /\ Cardinality(s) \in Nat /\ \A x \in s : f[x] = 1 /\ f[x] \in Nat
    BY FS_Subset, FS_CardinalityType
  <2>2. SumFunctionOnSet(f, {}) = 0 /\ \A x \in s : SumFunctionOnSet(f, s) = f[x] + SumFunctionOnSet(f, s \ {x})
    BY <2>1, SumType, SumOfOthers
  <2>3. Cardinality({}) = 0 /\ \A x \in s : Cardinality(s \ {x}) = Cardinality(s) - 1
    BY <2>1, FS_EmptySet, FS_RemoveElement
  <2> QED
    BY <2>1, <2>2, <2>3
<1>2. ASSUME NEW s \in SUBSET S, \A r \in SUBSET s : r # s => r \in T PROVE s \in T
  <2>1. CASE s = {}
    BY <1>1, <2>1
  <2>2. CASE s # {}
    <3>1. PICK x \in s : TRUE
      BY <2>2
    <3>2. s \ {x} \in T
      BY <1>2
    <3> QED
      BY <1>1, <3>2
  <2> QED
    BY <2>1, <2>2
<1> HIDE DEF T
<1>3. \A s \in SUBSET S : s \in T
  BY <1>2, SubsetInduction
<1> QED
  BY <1>3 DEF T

LEMMA PostsFinite == InOrderNow => IsFiniteSet(job.posts)
<1> SUFFICES ASSUME InOrderNow PROVE IsFiniteSet(job.posts)
  OBVIOUS
<1> DEFINE f == [p \in job.posts |-> p.date]
<1>1. \A p \in job.posts : p.date \in Date
  BY JobIs, PostIs DEF InOrderNow, TypeOK
<1>2. \A p, q \in job.posts : p.date = q.date => p = q
  BY RetrieveAssumption DEF RetrieveAssumption, InOrderNow
<1>3. f \in Injection(job.posts, Date)
  BY <1>1, <1>2 DEF Injection, IsInjective
<1>4. IsFiniteSet(Date)
  <2>1. 1 \in Int /\ MaxPost \in Int
    BY RetrieveAssumption DEF RetrieveAssumption
  <2> QED
    BY <2>1, FS_Interval, Zenon DEF Date
<1> QED
  BY <1>3, <1>4, FS_Injection

\* What the order compares.
LEMMA PostCounts ==
  ASSUME InOrderNow, NEW p \in job.posts
  PROVE  /\ Cardinality(p.parts) \in 1 .. 2 /\ p.req \in 1 .. 2 /\ p.date \in Nat
         /\ p.packets \subseteq 1 .. 6 /\ IsFiniteSet(p.packets)
<1>1. p \in Post
  BY JobIs DEF InOrderNow, TypeOK
<1>2. p.req \in 1 .. 2 /\ p.parts \subseteq 1 .. 2 /\ p.parts # {} /\ p.packets \subseteq 1 .. 6 /\ p.date \in Date
  BY <1>1 DEF Post
<1>3. IsFiniteSet(1 .. 2) /\ Cardinality(1 .. 2) = 2 /\ IsFiniteSet(1 .. 6)
  <2>1. /\ 1 \in Int /\ 2 \in Int /\ 6 \in Int
    OBVIOUS
  <2>2. IsFiniteSet(1 .. 2) /\ IsFiniteSet(1 .. 6)
    BY <2>1, FS_Interval, Zenon
  <2>3. Cardinality(1 .. 2) = IF 1 > 2 THEN 0 ELSE 2 - 1 + 1
    BY <2>1, FS_Interval, Zenon
  <2> QED
    BY <2>2, <2>3
<1>4. Cardinality(p.parts) \in Nat /\ Cardinality(p.parts) <= 2 /\ Cardinality(p.parts) # 0
  BY <1>2, <1>3, FS_Subset, FS_CardinalityType, FS_EmptySet
<1>5. Cardinality(p.parts) \in 1 .. 2
  BY <1>4
<1>6. IsFiniteSet(p.packets)
  BY <1>2, <1>3, FS_Subset
<1> QED
  BY <1>2, <1>5, <1>6, DateIs

LEMMA BeforeOrders ==
  ASSUME InOrderNow, NEW p \in job.posts, NEW q \in job.posts, NEW r \in job.posts
  PROVE  /\ ~ Before(p, p)
         /\ Before(p, q) /\ Before(q, r) => Before(p, r)
         /\ p = q \/ Before(p, q) \/ Before(q, p)
<1> DEFINE a == Cardinality(p.parts)
           b == Cardinality(q.parts)
           c == Cardinality(r.parts)
<1>1. /\ a \in 1 .. 2 /\ p.req \in 1 .. 2 /\ p.date \in Nat
      /\ b \in 1 .. 2 /\ q.req \in 1 .. 2 /\ q.date \in Nat
      /\ c \in 1 .. 2 /\ r.req \in 1 .. 2 /\ r.date \in Nat
  BY PostCounts
<1>2. p.date = q.date => p = q
  BY RetrieveAssumption DEF RetrieveAssumption, InOrderNow
<1>3. /\ Before(p, p) <=> a * p.req > a * p.req \/ (a * p.req = a * p.req /\ p.date < p.date)
      /\ Before(p, q) <=> a * q.req > b * p.req \/ (a * q.req = b * p.req /\ p.date < q.date)
      /\ Before(q, p) <=> b * p.req > a * q.req \/ (b * p.req = a * q.req /\ q.date < p.date)
      /\ Before(q, r) <=> b * r.req > c * q.req \/ (b * r.req = c * q.req /\ q.date < r.date)
      /\ Before(p, r) <=> a * r.req > c * p.req \/ (a * r.req = c * p.req /\ p.date < r.date)
  BY DEF Before
<1> HIDE DEF a, b, c
<1>4. ~ Before(p, p)
  BY <1>1, <1>3
<1>5. \A x, y \in 1 .. 2 : x * y \in {1, 2, 4} /\ (x = 1 => x * y = y) /\ (y = 1 => x * y = x) /\ (x = 2 /\ y = 2 => x * y = 4)
  OBVIOUS
<1>6. Before(p, q) /\ Before(q, r) => Before(p, r)
  BY <1>1, <1>3, <1>5
<1>7. p = q \/ Before(p, q) \/ Before(q, p)
  BY <1>1, <1>2, <1>3, <1>5
<1> QED
  BY <1>4, <1>6, <1>7

RankOf(S) == [p \in S |-> Rank(S, p)]

\* The ranks of n posts are 0 to n - 1.
LEMMA RankIs ==
  ASSUME InOrderNow, NEW S \in SUBSET job.posts
  PROVE  /\ IsFiniteSet(S) /\ Cardinality(S) \in Nat
         /\ RankOf(S) \in Injection(S, 0 .. Cardinality(S) - 1)
         /\ \A i \in 0 .. Cardinality(S) - 1 : \E p \in S : Rank(S, p) = i
<1> DEFINE n == Cardinality(S)
           Earliers(p) == {q \in S : Before(q, p)}
<1>1. IsFiniteSet(S) /\ n \in Nat
  BY PostsFinite, FS_Subset, FS_CardinalityType
<1>2. ASSUME NEW p \in S
      PROVE  Rank(S, p) \in 0 .. n - 1 /\ Rank(S, p) = Cardinality(Earliers(p)) /\ IsFiniteSet(Earliers(p))
  <2>1. Earliers(p) \in SUBSET (S \ {p})
    BY BeforeOrders
  <2>2. IsFiniteSet(S \ {p}) /\ Cardinality(S \ {p}) = n - 1
    BY <1>1, FS_RemoveElement
  <2>3. /\ IsFiniteSet(Earliers(p)) /\ Cardinality(Earliers(p)) \in Nat
        /\ Cardinality(Earliers(p)) <= n - 1
    <3> HIDE DEF Earliers, n
    <3> QED
      BY <2>1, <2>2, FS_Subset, FS_CardinalityType
  <2>4. Rank(S, p) = Cardinality(Earliers(p))
    BY DEF Rank
  <2> HIDE DEF Earliers, n
  <2> QED
    BY <1>1, <2>3, <2>4
<1>3. ASSUME NEW p \in S, NEW q \in S, Before(q, p) PROVE Rank(S, q) < Rank(S, p)
  <2>1. Earliers(q) \in SUBSET Earliers(p) /\ q \in Earliers(p) /\ q \notin Earliers(q)
    BY <1>3, BeforeOrders
  <2> HIDE DEF Earliers
  <2>2. Cardinality(Earliers(q)) <= Cardinality(Earliers(p)) /\ Cardinality(Earliers(q)) # Cardinality(Earliers(p))
    BY <1>2, <2>1, FS_Subset
  <2> QED
    BY <1>2, <2>2
<1>4. RankOf(S) \in Injection(S, 0 .. n - 1)
  <2>1. \A p, q \in S : Rank(S, p) = Rank(S, q) => p = q
    <3> SUFFICES ASSUME NEW p \in S, NEW q \in S, Rank(S, p) = Rank(S, q) PROVE p = q
      OBVIOUS
    <3>1. Rank(S, p) \in Int /\ Rank(S, q) \in Int
      <4> HIDE DEF n, Earliers
      <4> QED
        BY <1>1, <1>2
    <3>2. p = q \/ Before(p, q) \/ Before(q, p)
      BY BeforeOrders
    <3> QED
      BY <1>3, <3>1, <3>2
  <2>2. \A p \in S : Rank(S, p) \in 0 .. n - 1
    BY <1>2
  <2> HIDE DEF n
  <2> QED
    BY <2>1, <2>2 DEF RankOf, Injection, IsInjective
<1>5. IsFiniteSet(0 .. n - 1) /\ Cardinality(0 .. n - 1) = n
  <2>1. 0 \in Int /\ n - 1 \in Int
    BY <1>1
  <2>2. IsFiniteSet(0 .. n - 1) /\ Cardinality(0 .. n - 1) = IF 0 > n - 1 THEN 0 ELSE n - 1 - 0 + 1
    BY <2>1, FS_Interval, Zenon
  <2> HIDE DEF n
  <2> QED
    BY <1>1, <2>2
<1>6. RankOf(S) \in Surjection(S, 0 .. n - 1)
  BY <1>4, <1>5, FS_Injection
<1>7. \A i \in 0 .. n - 1 : \E p \in S : Rank(S, p) = i
  <2> HIDE DEF n
  <2> QED
    BY <1>6 DEF Surjection, RankOf
<1> QED
  BY <1>1, <1>4, <1>7

\* InOrder lists the posts of a set, each once.
LEMMA InOrderIs ==
  ASSUME InOrderNow, NEW S \in SUBSET job.posts
  PROVE  /\ DOMAIN InOrder(S) = 1 .. Cardinality(S)
         /\ \A i \in 1 .. Cardinality(S) : InOrder(S)[i] \in S
         /\ \A i, j \in 1 .. Cardinality(S) : InOrder(S)[i] = InOrder(S)[j] => i = j
         /\ \A p \in S : \E i \in 1 .. Cardinality(S) : InOrder(S)[i] = p
<1> DEFINE n == Cardinality(S)
<1>1. n \in Nat /\ \A i \in 0 .. n - 1 : \E p \in S : Rank(S, p) = i
  BY RankIs
<1>2. ASSUME NEW p \in S, NEW q \in S, Rank(S, p) = Rank(S, q) PROVE p = q
  BY <1>2, RankIs DEF RankOf, Injection, IsInjective
<1>3. \A p \in S : Rank(S, p) \in 0 .. n - 1
  BY RankIs DEF RankOf, Injection
<1>4. DOMAIN InOrder(S) = 1 .. n /\ \A i \in 1 .. n : InOrder(S)[i] = CHOOSE p \in S : Rank(S, p) = i - 1
  BY DEF InOrder
<1> HIDE DEF n
<1>5. \A i \in 1 .. n : InOrder(S)[i] \in S /\ Rank(S, InOrder(S)[i]) = i - 1
  <2> SUFFICES ASSUME NEW i \in 1 .. n
               PROVE  InOrder(S)[i] \in S /\ Rank(S, InOrder(S)[i]) = i - 1
    OBVIOUS
  <2>1. i - 1 \in 0 .. n - 1
    BY <1>1
  <2>2. \E p \in S : Rank(S, p) = i - 1
    BY <1>1, <2>1
  <2> QED
    BY <1>4, <2>2
<1>6. \A i, j \in 1 .. n : InOrder(S)[i] = InOrder(S)[j] => i = j
  BY <1>1, <1>5
<1>7. ASSUME NEW p \in S PROVE \E i \in 1 .. n : InOrder(S)[i] = p
  <2>1. Rank(S, p) + 1 \in 1 .. n /\ (Rank(S, p) + 1) - 1 = Rank(S, p)
    BY <1>1, <1>3
  <2>2. InOrder(S)[Rank(S, p) + 1] = p
    BY <1>2, <1>5, <2>1
  <2> QED
    BY <2>1, <2>2
<1> QED
  BY <1>4, <1>5, <1>6, <1>7 DEF n

LEMMA FirstIs ==
  ASSUME InOrderNow, NEW S \in SUBSET job.posts, S # {}
  PROVE  \E p \in S : \A q \in S : q = p \/ Before(p, q)
<1>1. IsFiniteSet(S) /\ Cardinality(S) \in Nat /\ Cardinality(S) # 0
  BY RankIs, FS_EmptySet
<1>2. 0 \in 0 .. Cardinality(S) - 1
  BY <1>1
<1>3. PICK p \in S : Rank(S, p) = 0
  BY <1>2, RankIs
<1>4. {q \in S : Before(q, p)} \in SUBSET S
  OBVIOUS
<1>5. {q \in S : Before(q, p)} = {}
  BY <1>1, <1>3, <1>4, FS_Subset, FS_EmptySet DEF Rank
<1> QED
  BY <1>5, BeforeOrders

\* Of a set there are num posts that have fewer than num before them, or as
\* many as there are.
LEMMA FirstOnes ==
  ASSUME InOrderNow, NEW S \in SUBSET job.posts, NEW num \in Nat
  PROVE  Cardinality({p \in S : Rank(S, p) < num}) = IF num <= Cardinality(S) THEN num ELSE Cardinality(S)
<1> DEFINE n == Cardinality(S)
           k == IF num <= n THEN num ELSE n
           C == {p \in S : Rank(S, p) < num}
           f == [p \in C |-> Rank(S, p)]
<1>1. n \in Nat /\ \A i \in 0 .. n - 1 : \E p \in S : Rank(S, p) = i
  BY RankIs
<1>2. \A p, q \in S : Rank(S, p) = Rank(S, q) => p = q
  BY RankIs DEF RankOf, Injection, IsInjective
<1>3. \A p \in S : Rank(S, p) \in 0 .. n - 1
  BY RankIs DEF RankOf, Injection
<1> HIDE DEF n
<1>4. k \in Nat /\ k <= n /\ k <= num
  BY <1>1
<1>5. f \in [C -> 0 .. k - 1]
  BY <1>1, <1>3
<1>6. \A p, q \in C : f[p] = f[q] => p = q
  BY <1>2
<1>7. \A i \in 0 .. k - 1 : \E p \in C : f[p] = i
  <2> SUFFICES ASSUME NEW i \in 0 .. k - 1 PROVE \E p \in C : f[p] = i
    OBVIOUS
  <2> HIDE DEF k
  <2>1. i \in 0 .. n - 1 /\ i < num
    BY <1>1, <1>4
  <2>2. PICK p \in S : Rank(S, p) = i
    BY <1>1, <2>1
  <2>3. p \in C /\ f[p] = i
    BY <2>1, <2>2
  <2> QED
    BY <2>3
<1> HIDE DEF f, C, k
<1>8. f \in Injection(C, 0 .. k - 1) /\ f \in Surjection(C, 0 .. k - 1)
  BY <1>5, <1>6, <1>7 DEF Injection, IsInjective, Surjection
<1>9. IsFiniteSet(0 .. k - 1) /\ Cardinality(0 .. k - 1) = k
  <2>1. 0 \in Int /\ k - 1 \in Int
    BY <1>4
  <2>2. IsFiniteSet(0 .. k - 1) /\ Cardinality(0 .. k - 1) = IF 0 > k - 1 THEN 0 ELSE k - 1 - 0 + 1
    BY <2>1, FS_Interval, Zenon
  <2> QED
    BY <1>4, <2>2
<1>10. Cardinality(C) = k
  BY <1>8, <1>9, FS_Injection
<1> QED
  BY <1>10 DEF C, k, n

-----------------------------------------------------------------------------
(* Of par volumes as many as are needed.                                    *)

LEMMA BringsIs ==
  ASSUME NEW S, NEW x
  PROVE  x \in Brings(S) <=> x \notin GoodPackets /\ \E p \in S : x \in p.packets
BY DEF Brings

LEMMA MinOfTwo ==
  ASSUME NEW x \in Nat, NEW y \in Nat
  PROVE  Min({x, y}) = IF x <= y THEN x ELSE y
<1>1. \E m \in {x, y} : \A z \in {x, y} : m <= z
  <2>1. CASE x <= y
    BY <2>1
  <2>2. CASE ~(x <= y)
    BY <2>2
  <2> QED
    BY <2>1, <2>2
<1>2. Min({x, y}) \in {x, y} /\ \A z \in {x, y} : Min({x, y}) <= z
  BY <1>1 DEF Min
<1> QED
  BY <1>2

LEMMA FirstVolsSuffice ==
  ASSUME InOrderNow, job.ver = 1, NEW s \in ParInfos, \A p \in s.vols : p.role = "vol", NEW num \in Nat,
         FirstVols(s, num, GoodPackets) # {}
  PROVE  /\ Cardinality(FirstVols(s, num, GoodPackets)) = Min({num, Cardinality(Brings(s.vols))})
         /\ Cardinality(Brings(FirstVols(s, num, GoodPackets))) = Cardinality(FirstVols(s, num, GoodPackets))
<1> DEFINE vols == s.vols
           fresh == {p \in vols : p.packets \cap GoodPackets = {}
                                  /\ \A q \in vols : q.packets = p.packets => q = p \/ Before(p, q)}
           C == {p \in fresh : Rank(fresh, p) < num}
           F == [p \in fresh |-> p.packets]
           f == [p \in fresh |-> 1]
<1>1. vols \subseteq job.posts /\ fresh \in SUBSET job.posts /\ fresh \subseteq vols
  BY ParInfoIs
<1>2. FirstVols(s, num, GoodPackets) = C
  BY DEF FirstVols
<1>3. ASSUME NEW p \in vols PROVE p.packets \in SUBSET (1 .. 6) /\ \E x : p.packets = {x}
  <2>1. p \in job.posts /\ p.role = "vol"
    BY <1>1
  <2>2. Cardinality(p.packets) = 1
    BY <2>1, RetrieveAssumption DEF RetrieveAssumption, InOrderNow
  <2>3. p.packets \subseteq 1 .. 6 /\ IsFiniteSet(p.packets)
    BY <2>1, PostCounts
  <2> QED
    BY <2>2, <2>3, FS_Singleton
<1>4. \A p, q \in fresh : p # q => p.packets # q.packets
  <2> SUFFICES ASSUME NEW p \in fresh, NEW q \in fresh, p # q, p.packets = q.packets PROVE FALSE
    OBVIOUS
  <2>1. Before(p, q) /\ Before(q, p)
    OBVIOUS
  <2>2. p \in job.posts /\ q \in job.posts
    BY <1>1
  <2> HIDE DEF fresh, vols
  <2> QED
    BY <2>1, <2>2, BeforeOrders
<1>5. ASSUME NEW R \in SUBSET fresh
      PROVE  Cardinality(Brings(R)) = Cardinality(R)
  <2>1. F \in [fresh -> SUBSET (1 .. 6)] /\ \A p \in fresh : f[p] = 1 /\ F[p] = p.packets
    BY <1>1, <1>3
  <2>2. \A p \in fresh : Cardinality(F[p]) = 1
    <3> SUFFICES ASSUME NEW p \in fresh PROVE Cardinality(p.packets) = 1
      BY <2>1
    <3>1. PICK x : p.packets = {x}
      BY <1>1, <1>3
    <3> HIDE DEF fresh, F
    <3> QED
      BY <3>1, FS_Singleton
  <2>3. \A p, q \in R : p # q => F[p] \cap F[q] = {}
    <3> SUFFICES ASSUME NEW p \in R, NEW q \in R, p # q PROVE p.packets \cap q.packets = {}
      BY <2>1
    <3>1. p \in fresh /\ q \in fresh /\ p \in vols /\ q \in vols
      BY <1>1
    <3>2. p.packets # q.packets
      BY <1>4, <3>1
    <3>3. PICK x : p.packets = {x}
      BY <1>3, <3>1
    <3>4. PICK y : q.packets = {y}
      BY <1>3, <3>1
    <3> HIDE DEF fresh, vols, F
    <3> QED
      BY <3>2, <3>3, <3>4
  <2>4. Brings(R) = UNION {F[p] : p \in R}
    <3>1. \A p \in R : p.packets \cap GoodPackets = {}
      OBVIOUS
    <3> HIDE DEF fresh, F
    <3>2. \A p \in R : F[p] = p.packets
      BY <2>1
    <3>3. \A x : x \in UNION {F[p] : p \in R} <=> \E p \in R : x \in p.packets
      BY <3>2
    <3>4. \A x : x \in Brings(R) <=> \E p \in R : x \in p.packets
      BY <3>1, BringsIs
    <3> QED
      BY <3>3, <3>4
  <2>5. IsFiniteSet(fresh) /\ IsFiniteSet(R) /\ IsFiniteSet(1 .. 6)
    <3>1. IsFiniteSet(1 .. 6)
      <4>1. 1 \in Int /\ 6 \in Int
        OBVIOUS
      <4> QED
        BY <4>1, FS_Interval, Zenon
    <3>2. IsFiniteSet(fresh)
      <4> HIDE DEF fresh
      <4> QED
        BY <1>1, RankIs
    <3> HIDE DEF fresh
    <3> QED
      BY <3>1, <3>2, FS_Subset
  <2>6. \A p \in R : f[p] = 1
    BY <2>1
  <2>7. \A p \in fresh : f[p] = Cardinality(F[p])
    BY <2>1, <2>2
  <2> HIDE DEF fresh, F, f
  <2>8. Cardinality(UNION {F[p] : p \in R}) = SumFunctionOnSet(f, R)
    BY <2>1, <2>3, <2>5, <2>7, UnionSum
  <2>9. SumFunctionOnSet(f, R) = Cardinality(R)
    BY <2>5, <2>6, OnesSum
  <2> QED
    BY <2>4, <2>8, <2>9
<1>6. Brings(vols) = Brings(fresh)
  <2>1. Brings(fresh) \subseteq Brings(vols)
    BY <1>1 DEF Brings
  <2>2. ASSUME NEW x \in Brings(vols) PROVE x \in Brings(fresh)
    <3>1. PICK p \in vols : x \in p.packets
      BY BringsIs
    <3>2. x \notin GoodPackets
      BY BringsIs
    <3>3. p.packets = {x}
      BY <1>3, <3>1
    <3> DEFINE Q == {q \in vols : q.packets = {x}}
    <3>4. Q \in SUBSET job.posts /\ Q # {}
      BY <1>1, <3>3
    <3>5. PICK q \in Q : \A r \in Q : r = q \/ Before(q, r)
      <4> HIDE DEF Q
      <4> QED
        BY <3>4, FirstIs
    <3>6. q \in fresh
      BY <3>2, <3>5
    <3>7. q.packets = {x}
      OBVIOUS
    <3> HIDE DEF fresh, Q
    <3> QED
      BY <3>2, <3>6, <3>7, BringsIs
  <2> QED
    BY <2>1, <2>2
<1>7. Cardinality(C) = IF num <= Cardinality(fresh) THEN num ELSE Cardinality(fresh)
  <2> HIDE DEF fresh
  <2> QED
    BY <1>1, FirstOnes
<1>8. Cardinality(fresh) \in Nat
  <2> HIDE DEF fresh
  <2> QED
    BY <1>1, RankIs
<1>9. Cardinality(Brings(vols)) = Cardinality(fresh) /\ Cardinality(Brings(C)) = Cardinality(C)
  <2>1. fresh \in SUBSET fresh /\ C \in SUBSET fresh
    OBVIOUS
  <2> HIDE DEF fresh, C
  <2> QED
    BY <1>5, <1>6, <2>1
<1> HIDE DEF fresh, C
<1> QED
  BY <1>2, <1>7, <1>8, <1>9, MinOfTwo

-----------------------------------------------------------------------------
(* Of par2 volumes the least that suffice.                                  *)

\* What volumes have.
Packets(S) == UNION {p.packets : p \in S}

LEMMA PacketSetsFinite == \A S \in SUBSET (1 .. 6) : IsFiniteSet(S) /\ Cardinality(S) \in Nat
<1>1. 1 \in Int /\ 6 \in Int
  OBVIOUS
<1>2. IsFiniteSet(1 .. 6)
  BY <1>1, FS_Interval, Zenon
<1> QED
  BY <1>2, FS_Subset, FS_CardinalityType

LEMMA WeightIs ==
  ASSUME InOrderNow, NEW S \in SUBSET job.posts
  PROVE  /\ Packets(S) \in SUBSET (1 .. 6)
         /\ Cardinality(Packets(S)) <= Weight(S)
         /\ (\A p, q \in S : p # q => p.packets \cap q.packets = {}) => Cardinality(Packets(S)) = Weight(S)
<1> DEFINE F == [p \in S |-> p.packets]
           f == [p \in S |-> Cardinality(p.packets)]
<1>1. \A p \in S : p.packets \in SUBSET (1 .. 6)
  BY PostCounts
<1>2. F \in [S -> SUBSET (1 .. 6)] /\ \A p \in S : F[p] = p.packets
  BY <1>1
<1>3. \A p \in S : f[p] = Cardinality(F[p])
  OBVIOUS
<1>4. IsFiniteSet(S) /\ IsFiniteSet(1 .. 6) /\ S \in SUBSET S
  BY RankIs, PacketSetsFinite
<1>5. Packets(S) = UNION {F[p] : p \in S}
  BY <1>2 DEF Packets
<1>6. Weight(S) = SumFunctionOnSet(f, S)
  BY DEF Weight
<1>7. Packets(S) \in SUBSET (1 .. 6)
  BY <1>1 DEF Packets
<1> HIDE DEF F, f
<1>8. /\ Cardinality(UNION {F[p] : p \in S}) <= SumFunctionOnSet(f, S)
      /\ (\A p, q \in S : p # q => F[p] \cap F[q] = {}) =>
           Cardinality(UNION {F[p] : p \in S}) = SumFunctionOnSet(f, S)
  BY <1>2, <1>3, <1>4, UnionSum
<1> QED
  BY <1>2, <1>5, <1>6, <1>7, <1>8

Useful(s) == {p \in s.vols : Fresh(s, p, GoodPackets) # {}}

LEMMA FreshIs ==
  ASSUME NEW s, NEW p, NEW x
  PROVE  x \in Fresh(s, p, GoodPackets) <=>
           /\ x \in p.packets /\ x \notin GoodPackets
           /\ \A q \in s.vols : Before(q, p) => x \notin q.packets
BY DEF Fresh

LEMMA UsefulAre ==
  ASSUME InOrderNow, NEW s \in ParInfos, Regular(s.vols)
  PROVE  /\ Useful(s) \in SUBSET job.posts /\ Useful(s) \subseteq s.vols
         /\ \A p \in Useful(s) :
              /\ Fresh(s, p, GoodPackets) \in SUBSET (1 .. 6) /\ p.packets \in SUBSET (1 .. 6)
              /\ Value(s, p, GoodPackets) = Cardinality(Fresh(s, p, GoodPackets))
              /\ Value(s, p, GoodPackets) \in Nat \ {0}
         /\ \A p, q \in Useful(s) : p # q =>
              /\ Fresh(s, p, GoodPackets) \cap Fresh(s, q, GoodPackets) = {}
              /\ p.packets \cap q.packets = {}
<1>1. Useful(s) \in SUBSET job.posts /\ Useful(s) \subseteq s.vols
  BY ParInfoIs DEF Useful
<1>2. ASSUME NEW p \in Useful(s)
      PROVE  /\ Fresh(s, p, GoodPackets) \in SUBSET (1 .. 6) /\ p.packets \in SUBSET (1 .. 6)
             /\ Value(s, p, GoodPackets) = Cardinality(Fresh(s, p, GoodPackets))
             /\ Value(s, p, GoodPackets) \in Nat \ {0}
  <2> DEFINE c == Cardinality(Fresh(s, p, GoodPackets))
  <2>1. p \in job.posts /\ p \in s.vols /\ Fresh(s, p, GoodPackets) # {}
    BY <1>1 DEF Useful
  <2>2. p.packets \in SUBSET (1 .. 6) /\ p.req \in 1 .. 2
    BY <2>1, PostCounts
  <2>3. Fresh(s, p, GoodPackets) \in SUBSET (1 .. 6)
    BY <2>2 DEF Fresh
  <2>4. c \in Nat /\ c # 0
    BY <2>1, <2>3, PacketSetsFinite, FS_EmptySet
  <2>5. Cardinality(p.parts) = p.req
    <3>1. p.parts = 1 .. p.req
      BY <2>1 DEF Regular, Complete
    <3>2. 1 \in Int /\ p.req \in Int
      BY <2>2
    <3>3. Cardinality(1 .. p.req) = IF 1 > p.req THEN 0 ELSE p.req - 1 + 1
      BY <3>2, FS_Interval, Zenon
    <3> QED
      BY <2>2, <3>1, <3>3
  <2>6. (c * Cardinality(p.parts)) \div p.req = c
    <3> HIDE DEF c
    <3>1. CASE p.req = 1
      BY <2>4, <2>5, <3>1
    <3>2. CASE p.req = 2
      BY <2>4, <2>5, <3>2
    <3> QED
      BY <2>2, <3>1, <3>2
  <2>7. Max({1, c}) = c
    <3> HIDE DEF c
    <3>1. {1, c} \in SUBSET (0 .. c) /\ {1, c} # {}
      BY <2>4
    <3>2. Max({1, c}) \in {1, c} /\ \A y \in {1, c} : y <= Max({1, c})
      BY <2>4, <3>1, MaxIs
    <3> QED
      BY <2>4, <3>2
  <2>8. Value(s, p, GoodPackets) = c
    BY <2>6, <2>7 DEF Value
  <2> QED
    BY <2>2, <2>3, <2>4, <2>8
<1>3. ASSUME NEW p \in Useful(s), NEW q \in Useful(s), Before(p, q)
      PROVE  /\ Fresh(s, p, GoodPackets) \cap Fresh(s, q, GoodPackets) = {}
             /\ p.packets \cap q.packets = {}
  <2>1. p \in s.vols /\ q \in s.vols
    BY <1>1
  <2>2. ASSUME NEW x \in Fresh(s, q, GoodPackets) PROVE x \notin p.packets /\ x \in q.packets
    BY <1>3, <2>1, FreshIs
  <2>3. PICK x : x \in Fresh(s, q, GoodPackets)
    BY DEF Useful
  <2>4. p.packets # q.packets
    BY <2>2, <2>3
  <2>5. p.packets \cap q.packets = {}
    BY <2>1, <2>4 DEF Regular
  <2>6. \A y \in Fresh(s, p, GoodPackets) : y \in p.packets
    BY FreshIs
  <2> QED
    BY <2>2, <2>5, <2>6
<1>4. \A p, q \in Useful(s) : p # q =>
        /\ Fresh(s, p, GoodPackets) \cap Fresh(s, q, GoodPackets) = {}
        /\ p.packets \cap q.packets = {}
  <2> SUFFICES ASSUME NEW p \in Useful(s), NEW q \in Useful(s), p # q
               PROVE  /\ Fresh(s, p, GoodPackets) \cap Fresh(s, q, GoodPackets) = {}
                      /\ p.packets \cap q.packets = {}
    OBVIOUS
  <2>1. Before(p, q) \/ Before(q, p)
    BY <1>1, BeforeOrders
  <2>2. CASE Before(p, q)
    BY <1>3, <2>2
  <2>3. CASE Before(q, p)
    <3>1. /\ Fresh(s, q, GoodPackets) \cap Fresh(s, p, GoodPackets) = {}
          /\ q.packets \cap p.packets = {}
      BY <1>3, <2>3
    <3> QED
      BY <3>1
  <2> QED
    BY <2>1, <2>2, <2>3
<1> QED
  BY <1>1, <1>2, <1>4

\* What the knapsack is given, and what its sums come to.
LEMMA ItemsAre ==
  ASSUME InOrderNow, NEW s \in ParInfos, Regular(s.vols)
  PROVE  LET n == Cardinality(Useful(s))
             item == Items(s, GoodPackets)
             values == Values(s, GoodPackets)
             sizes == Sizes(s, GoodPackets)
         IN /\ n \in Nat /\ values \in [1 .. n -> Nat \ {0}] /\ sizes \in [1 .. n -> Nat]
            /\ \A i \in 1 .. n : item[i] \in Useful(s)
            /\ \A p \in Useful(s) : \E i \in 1 .. n : item[i] = p
            /\ \A R \in SUBSET (1 .. n) :
                 /\ SumFunctionOnSet(values, R) = Cardinality(UNION {Fresh(s, item[i], GoodPackets) : i \in R})
                 /\ SumFunctionOnSet(sizes, R) = Cardinality(Packets({item[i] : i \in R}))
<1> DEFINE n == Cardinality(Useful(s))
           item == Items(s, GoodPackets)
           values == Values(s, GoodPackets)
           sizes == Sizes(s, GoodPackets)
           F == [i \in 1 .. n |-> Fresh(s, item[i], GoodPackets)]
           G == [i \in 1 .. n |-> item[i].packets]
<1>1. Useful(s) \in SUBSET job.posts /\ item = InOrder(Useful(s))
  BY UsefulAre DEF Items, Useful
<1>2. n \in Nat
  BY <1>1, RankIs
<1> HIDE DEF item
<1>3. /\ DOMAIN item = 1 .. n
      /\ \A i \in 1 .. n : item[i] \in Useful(s)
      /\ \A i, j \in 1 .. n : item[i] = item[j] => i = j
      /\ \A p \in Useful(s) : \E i \in 1 .. n : item[i] = p
  BY <1>1, InOrderIs
<1>4. values = [i \in 1 .. n |-> Value(s, item[i], GoodPackets)]
  BY <1>3 DEF Values, item
<1>5. sizes = [i \in 1 .. n |-> Cardinality(item[i].packets)]
  BY <1>3 DEF Sizes, item
<1> HIDE DEF n, values, sizes
<1>6. values \in [1 .. n -> Nat \ {0}]
  BY <1>3, <1>4, UsefulAre
<1>7. sizes \in [1 .. n -> Nat]
  BY <1>3, <1>5, UsefulAre, PacketSetsFinite
<1>8. IsFiniteSet(1 .. n) /\ IsFiniteSet(1 .. 6)
  <2>1. 1 \in Int /\ n \in Int
    BY <1>2
  <2>2. IsFiniteSet(1 .. n)
    BY <2>1, FS_Interval, Zenon
  <2> QED
    BY <2>2, PacketSetsFinite
<1>9. ASSUME NEW R \in SUBSET (1 .. n)
      PROVE  SumFunctionOnSet(values, R) = Cardinality(UNION {Fresh(s, item[i], GoodPackets) : i \in R})
  <2>1. F \in [1 .. n -> SUBSET (1 .. 6)]
    BY <1>3, UsefulAre
  <2>2. \A i \in 1 .. n : values[i] = Cardinality(F[i])
    BY <1>3, <1>4, UsefulAre
  <2>3. \A i, j \in R : i # j => F[i] \cap F[j] = {}
    BY <1>3, UsefulAre
  <2>4. UNION {F[i] : i \in R} = UNION {Fresh(s, item[i], GoodPackets) : i \in R}
    <3>1. \A i \in R : F[i] = Fresh(s, item[i], GoodPackets)
      OBVIOUS
    <3> HIDE DEF F
    <3> QED
      BY <3>1
  <2> HIDE DEF F
  <2>5. Cardinality(UNION {F[i] : i \in R}) = SumFunctionOnSet(values, R)
    <3> DEFINE I == 1 .. n
               X == 1 .. 6
    <3>1. /\ IsFiniteSet(I) /\ IsFiniteSet(X) /\ F \in [I -> SUBSET X] /\ R \in SUBSET I
          /\ \A i \in I : values[i] = Cardinality(F[i])
      BY <1>8, <2>1, <2>2
    <3> HIDE DEF I, X
    <3> QED
      BY <2>3, <3>1, UnionSum
  <2> QED
    BY <2>4, <2>5
<1>10. ASSUME NEW R \in SUBSET (1 .. n)
       PROVE  SumFunctionOnSet(sizes, R) = Cardinality(Packets({item[i] : i \in R}))
  <2>1. G \in [1 .. n -> SUBSET (1 .. 6)]
    BY <1>3, UsefulAre
  <2>2. \A i \in 1 .. n : sizes[i] = Cardinality(G[i])
    BY <1>5
  <2>3. \A i, j \in R : i # j => G[i] \cap G[j] = {}
    BY <1>3, UsefulAre
  <2>4. UNION {G[i] : i \in R} = Packets({item[i] : i \in R})
    <3>1. \A i \in R : G[i] = item[i].packets
      OBVIOUS
    <3> HIDE DEF G
    <3> QED
      BY <3>1 DEF Packets
  <2> HIDE DEF G
  <2>5. Cardinality(UNION {G[i] : i \in R}) = SumFunctionOnSet(sizes, R)
    <3> DEFINE I == 1 .. n
               X == 1 .. 6
    <3>1. /\ IsFiniteSet(I) /\ IsFiniteSet(X) /\ G \in [I -> SUBSET X] /\ R \in SUBSET I
          /\ \A i \in I : sizes[i] = Cardinality(G[i])
      BY <1>8, <2>1, <2>2
    <3> HIDE DEF I, X
    <3> QED
      BY <2>3, <3>1, UnionSum
  <2> QED
    BY <2>4, <2>5
<1> QED
  BY <1>2, <1>3, <1>6, <1>7, <1>9, <1>10 DEF n, item, values, sizes

\* The volumes that are chosen.
Cheapest(s, num) ==
  {p \in s.vols : \E i \in Fewest(Values(s, GoodPackets), Sizes(s, GoodPackets), num) :
                    Items(s, GoodPackets)[i] = p}

LEMMA CheapestSuffice ==
  ASSUME InOrderNow, NEW s \in ParInfos, Regular(s.vols), NEW num \in Nat,
         NEW S \in SUBSET s.vols, Cardinality(Brings(S)) >= num
  PROVE  Cardinality(Brings(Cheapest(s, num))) >= num /\ Weight(Cheapest(s, num)) <= Weight(S)
<1> DEFINE n == Cardinality(Useful(s))
           item == Items(s, GoodPackets)
           values == Values(s, GoodPackets)
           sizes == Sizes(s, GoodPackets)
           K == Fewest(values, sizes, num)
           C == Cheapest(s, num)
           New(R) == UNION {Fresh(s, item[i], GoodPackets) : i \in R}
           R == {i \in 1 .. n : \E p \in S : p.packets = item[i].packets}
<1>1. /\ n \in Nat /\ values \in [1 .. n -> Nat \ {0}] /\ sizes \in [1 .. n -> Nat]
      /\ \A i \in 1 .. n : item[i] \in Useful(s)
      /\ \A p \in Useful(s) : \E i \in 1 .. n : item[i] = p
      /\ \A Q \in SUBSET (1 .. n) : /\ SumFunctionOnSet(values, Q) = Cardinality(New(Q))
                                    /\ SumFunctionOnSet(sizes, Q) = Cardinality(Packets({item[i] : i \in Q}))
  BY ItemsAre
<1>2. /\ Useful(s) \in SUBSET job.posts /\ Useful(s) \subseteq s.vols /\ s.vols \in SUBSET job.posts
      /\ \A p \in Useful(s) : Fresh(s, p, GoodPackets) \in SUBSET (1 .. 6) /\ p.packets \in SUBSET (1 .. 6)
      /\ \A p, q \in Useful(s) : p # q => p.packets \cap q.packets = {}
  BY UsefulAre, ParInfoIs
<1>3. K \subseteq 1 .. n
  <2> HIDE DEF n, values, sizes
  <2> QED
    BY <1>1 DEF Fewest
<1>4. IsFewest(K, values, sizes, num)
  <2> HIDE DEF n, values, sizes
  <2> QED
    BY <1>1, WhatIsLeftIsFewest
<1>5. C = {item[i] : i \in K}
  <2> HIDE DEF n, values, sizes, item, K
  <2>1. \A i \in K : item[i] \in s.vols
    BY <1>1, <1>2, <1>3
  <2> QED
    BY <2>1 DEF Cheapest, item, values, sizes, K
<1> HIDE DEF n, item, values, sizes, K, C
<1>6. \A Q \in SUBSET (1 .. n) : New(Q) \in SUBSET (1 .. 6)
  BY <1>1, <1>2
<1>7. Brings(S) \subseteq New(R)
  <2> SUFFICES ASSUME NEW x \in Brings(S) PROVE x \in New(R)
    OBVIOUS
  <2>1. PICK p \in S : x \in p.packets
    BY BringsIs
  <2>2. x \notin GoodPackets
    BY BringsIs
  <2> DEFINE V == {q \in s.vols : x \in q.packets}
  <2>3. V \in SUBSET job.posts /\ V # {} /\ p \in s.vols
    BY <1>2, <2>1
  <2>4. PICK q \in V : \A r \in V : r = q \/ Before(q, r)
    <3> HIDE DEF V
    <3> QED
      BY <2>3, FirstIs
  <2>5. q \in s.vols /\ x \in q.packets
    OBVIOUS
  <2>6. x \in Fresh(s, q, GoodPackets)
    <3>1. ASSUME NEW r \in s.vols, Before(r, q) PROVE x \notin r.packets
      <4> SUFFICES ASSUME x \in r.packets PROVE FALSE
        OBVIOUS
      <4>1. r = q \/ Before(q, r)
        BY <2>4
      <4>2. r \in job.posts /\ q \in job.posts
        BY <1>2, <2>5
      <4> QED
        BY <3>1, <4>1, <4>2, BeforeOrders
    <3> QED
      BY <2>2, <2>5, <3>1, FreshIs
  <2>7. q \in Useful(s)
    BY <2>5, <2>6 DEF Useful
  <2>8. PICK i \in 1 .. n : item[i] = q
    BY <1>1, <2>7
  <2>9. p.packets = q.packets
    BY <2>1, <2>3, <2>5 DEF Regular
  <2>10. i \in R
    BY <2>8, <2>9
  <2> HIDE DEF R
  <2> QED
    BY <2>6, <2>8, <2>10
<1>8. R \in SUBSET (1 .. n) /\ 1 .. n \in SUBSET (1 .. n)
  OBVIOUS
<1>9. Packets({item[i] : i \in R}) \subseteq Packets(S)
  BY DEF Packets
<1> HIDE DEF R, New
<1>10. /\ SumFunctionOnSet(values, R) = Cardinality(New(R))
       /\ SumFunctionOnSet(sizes, R) = Cardinality(Packets({item[i] : i \in R}))
  BY <1>1, <1>8
<1>11. /\ SumFunctionOnSet(values, K) = Cardinality(New(K))
       /\ SumFunctionOnSet(sizes, K) = Cardinality(Packets({item[i] : i \in K}))
  BY <1>1, <1>3
<1>12. SumFunctionOnSet(values, 1 .. n) = Cardinality(New(1 .. n))
  BY <1>1, <1>8
<1>13. SumFunctionOnSet(values, R) >= num
  <2>1. New(R) \in SUBSET (1 .. 6) /\ IsFiniteSet(New(R)) /\ Cardinality(New(R)) \in Nat
    BY <1>6, <1>8, PacketSetsFinite
  <2>2. Cardinality(Brings(S)) <= Cardinality(New(R)) /\ Cardinality(Brings(S)) \in Nat
    <3>1. Brings(S) \in SUBSET New(R)
      BY <1>7
    <3> QED
      BY <2>1, <3>1, FS_Subset, FS_CardinalityType
  <2> QED
    BY <1>10, <2>1, <2>2
<1>14. Suffices(DOMAIN values, values, num)
  <2>1. New(R) \subseteq New(1 .. n)
    BY <1>8 DEF New
  <2>2. /\ IsFiniteSet(New(1 .. n)) /\ Cardinality(New(1 .. n)) \in Nat
        /\ Cardinality(New(R)) \in Nat
    BY <1>6, <1>8, PacketSetsFinite
  <2>3. Cardinality(New(R)) <= Cardinality(New(1 .. n))
    BY <2>1, <2>2, FS_Subset
  <2>4. DOMAIN values = 1 .. n
    BY <1>1
  <2> QED
    BY <1>13, <1>10, <1>12, <2>2, <2>3, <2>4 DEF Suffices
<1>15. SumFunctionOnSet(values, K) >= num /\ SumFunctionOnSet(sizes, K) <= SumFunctionOnSet(sizes, R)
  <2>1. R \in SUBSET DOMAIN values
    BY <1>1, <1>8
  <2> QED
    BY <1>4, <1>13, <1>14, <2>1 DEF IsFewest, Suffices
<1>16. Cardinality(Brings(C)) >= num
  <2>1. New(K) \subseteq Brings(C)
    <3> SUFFICES ASSUME NEW x \in New(K) PROVE x \in Brings(C)
      OBVIOUS
    <3>1. PICK i \in K : x \in Fresh(s, item[i], GoodPackets)
      BY DEF New
    <3>2. item[i] \in C /\ x \in item[i].packets /\ x \notin GoodPackets
      BY <1>5, <3>1, FreshIs
    <3> QED
      BY <3>2, BringsIs
  <2>2. Brings(C) \in SUBSET (1 .. 6)
    <3>1. \A p \in C : p.packets \in SUBSET (1 .. 6)
      BY <1>1, <1>2, <1>3, <1>5
    <3> QED
      BY <3>1, BringsIs
  <2>3. IsFiniteSet(Brings(C)) /\ Cardinality(Brings(C)) \in Nat
    BY <2>2, PacketSetsFinite
  <2>4. Cardinality(New(K)) <= Cardinality(Brings(C)) /\ Cardinality(New(K)) \in Nat
    <3>1. New(K) \in SUBSET Brings(C)
      BY <2>1
    <3> QED
      BY <2>3, <3>1, FS_Subset, FS_CardinalityType
  <2> QED
    BY <1>15, <1>11, <2>3, <2>4
<1>17. Weight(C) <= Weight(S)
  <2>1. C \in SUBSET job.posts /\ \A p, q \in C : p # q => p.packets \cap q.packets = {}
    BY <1>1, <1>2, <1>3, <1>5
  <2>2. Weight(C) = SumFunctionOnSet(sizes, K)
    BY <1>1, <1>3, <1>5, <2>1, WeightIs
  <2>3. S \in SUBSET job.posts
    BY <1>2
  <2>4. Packets(S) \in SUBSET (1 .. 6) /\ Cardinality(Packets(S)) <= Weight(S)
    BY <2>3, WeightIs
  <2>5. IsFiniteSet(Packets(S)) /\ Cardinality(Packets(S)) \in Nat
    BY <2>4, PacketSetsFinite
  <2>6. SumFunctionOnSet(sizes, R) <= Cardinality(Packets(S)) /\ SumFunctionOnSet(sizes, R) \in Nat
    <3>1. Packets({item[i] : i \in R}) \in SUBSET Packets(S)
      BY <1>9
    <3> QED
      BY <1>10, <2>5, <3>1, FS_Subset, FS_CardinalityType
  <2>7. Weight(S) \in Nat /\ SumFunctionOnSet(sizes, K) \in Nat
    <3>1. IsFiniteSet(S) /\ \A p \in S : [q \in S |-> Cardinality(q.packets)][p] \in Nat
      <4>1. \A p \in S : p.packets \in SUBSET (1 .. 6)
        BY <2>3, PostCounts
      <4> QED
        BY <2>3, <4>1, RankIs, PacketSetsFinite
    <3>2. Weight(S) \in Nat
      BY <3>1, SumType DEF Weight
    <3>3. SumFunctionOnSet(sizes, K) = Cardinality(Packets({item[i] : i \in K}))
      BY <1>1, <1>3
    <3>4. Packets({item[i] : i \in K}) \in SUBSET (1 .. 6)
      BY <1>5, <2>1, WeightIs
    <3> QED
      BY <3>2, <3>3, <3>4, PacketSetsFinite
  <2> QED
    BY <1>15, <2>2, <2>4, <2>5, <2>6, <2>7
<1> QED
  BY <1>16, <1>17 DEF C

-----------------------------------------------------------------------------
(* What is queued when the last file has been retrieved: volumes that have  *)
(* been put aside, and none of them has been queued before.                 *)

\* Index files and volumes are where they belong.
Sorted(s) ==
  /\ \A p \in s.pars : p.role = "par"
  /\ \A p \in s.loose \cup s.vols : p.role = "vol"
  /\ job.ver = 2 => \A p \in s.extra : p.role = "data"

Unqueued(s, S) == S \cap (s.loose \cup s.vols) = {}

SetInv == Sorted(set) /\ Unqueued(set, files)

LEMMA ClaimedFields ==
  ASSUME NEW s \in ParInfos
  PROVE  /\ Claimed(s).pars = s.pars /\ Claimed(s).extra = s.extra /\ Claimed(s).finished = s.finished
         /\ Claimed(s).vols = s.vols \cup IF Known THEN s.loose ELSE {}
         /\ Claimed(s).loose = IF Known THEN {} ELSE s.loose
<1> DEFINE vols == s.vols \cup IF Known THEN s.loose ELSE {}
           loose == IF Known THEN {} ELSE s.loose
           t == Claimed(s)
<1>1. s = [known |-> s.known, pars |-> s.pars, loose |-> s.loose, vols |-> s.vols,
           extra |-> s.extra, finished |-> s.finished]
  BY ParInfoIs
<1>2. t = [s EXCEPT !.known = Known, !.vols = vols, !.loose = loose]
  BY DEF Claimed
<1> HIDE DEF vols, loose, t
<1>3. t = [known |-> Known, pars |-> s.pars, loose |-> loose, vols |-> vols,
           extra |-> s.extra, finished |-> s.finished]
  BY <1>1, <1>2
<1>4. t.pars = s.pars /\ t.extra = s.extra /\ t.finished = s.finished /\ t.vols = vols /\ t.loose = loose
  BY <1>3
<1> QED
  BY <1>4 DEF t, vols, loose

LEMMA AfterFields ==
  ASSUME NEW s \in ParInfos
  PROVE  /\ AfterMorePars(s).pars = {} /\ AfterMorePars(s).extra = s.extra \ MorePars(s)
         /\ AfterMorePars(s).vols = Claimed(s).vols \ MorePars(s)
         /\ AfterMorePars(s).loose = Claimed(s).loose \ MorePars(s)
<1> DEFINE c == Claimed(s)
           more == MorePars(s)
           fin == IF ~Known \/ c.finished # "no" THEN c.finished
                  ELSE IF Needed = 0 THEN "ok"
                  ELSE IF Volumes(c) = {} THEN "failed" ELSE "no"
           t == AfterMorePars(s)
<1>1. t = [c EXCEPT !.pars = {}, !.loose = c.loose \ more, !.vols = c.vols \ more, !.extra = c.extra \ more,
                    !.finished = fin]
  BY DEF AfterMorePars
<1>2. c \in ParInfos
  BY ClaimedIs
<1> HIDE DEF c, more, t, fin
<1>3. c = [known |-> c.known, pars |-> c.pars, loose |-> c.loose, vols |-> c.vols,
           extra |-> c.extra, finished |-> c.finished]
  BY <1>2, ParInfoIs
<1>4. t = [known |-> c.known, pars |-> {}, loose |-> c.loose \ more, vols |-> c.vols \ more,
           extra |-> c.extra \ more, finished |-> fin]
  BY <1>1, <1>3
<1>5. c.extra = s.extra
  BY ClaimedFields DEF c
<1>6. /\ t.pars = {} /\ t.extra = c.extra \ more /\ t.vols = c.vols \ more /\ t.loose = c.loose \ more
  BY <1>4
<1> QED
  BY <1>5, <1>6 DEF t, c, more

LEMMA AfterIsSorted ==
  ASSUME NEW s \in ParInfos, Sorted(s)
  PROVE  Sorted(AfterMorePars(s)) /\ Unqueued(AfterMorePars(s), MorePars(s))
<1> DEFINE t == AfterMorePars(s)
           more == MorePars(s)
           c == Claimed(s)
<1>1. t.pars = {} /\ t.extra = s.extra \ more /\ t.vols = c.vols \ more /\ t.loose = c.loose \ more
  BY AfterFields
<1>2. c.vols \subseteq s.vols \cup s.loose /\ c.loose \subseteq s.loose
  BY ClaimedFields
<1> HIDE DEF t, more, c
<1>3. Sorted(t) /\ Unqueued(t, more)
  BY <1>1, <1>2 DEF Sorted, Unqueued
<1> QED
  BY <1>3 DEF t, more

LEMMA PutAsideFields ==
  ASSUME NEW S \in SUBSET job.posts
  PROVE  Sorted(PutAside(S)) /\ PutAside(S).loose \cap PutAside(S).vols = {}
<1> DEFINE wanted(p) == p.role # "data" /\ (job.ver = 2 \/ job.incomplete \/ Complete(p))
           vols == {p \in S : wanted(p) /\ p.role = "vol"}
           pars == {p \in S : wanted(p) /\ p.role = "par"}
           extra == {p \in S : Takes(p) /\ ~wanted(p)}
           claimed == IF Known THEN vols ELSE {}
           loose == IF Known THEN {} ELSE vols
           s == PutAside(S)
<1>1. s = [NoSet EXCEPT !.known = Known, !.pars = pars, !.vols = claimed, !.loose = loose, !.extra = extra]
  BY DEF PutAside
<1>2. /\ \A p \in pars : p.role = "par"
      /\ \A p \in claimed \cup loose : p.role = "vol"
      /\ loose \cap claimed = {}
      /\ job.ver = 2 => \A p \in extra : p.role = "data"
  OBVIOUS
<1> HIDE DEF vols, pars, extra, claimed, loose, s
<1>3. s = [known |-> Known, pars |-> pars, loose |-> loose, vols |-> claimed, extra |-> extra, finished |-> "no"]
  BY <1>1 DEF NoSet
<1>4. s.pars = pars /\ s.loose = loose /\ s.vols = claimed /\ s.extra = extra
  BY <1>3
<1>5. Sorted(s) /\ s.loose \cap s.vols = {}
  BY <1>2, <1>4 DEF Sorted
<1> QED
  BY <1>5 DEF s

LEMMA StartKeepsSet ==
  ASSUME TypeOK, Start
  PROVE  SetInv'
<1> DEFINE all == Matched(Marked, job.autopar)
           queue == Plain(all) \ {p \in Plain(all) : Have(p)}
           aside == IF job.autopar /\ all # {} THEN PutAside(all) ELSE NoSet
           atOnce == job.autopar /\ all # {} /\ queue = {}
           pars == IF atOnce THEN MorePars(aside) ELSE InitialPars(aside)
           opened == [aside EXCEPT !.pars = {}, !.loose = @ \ pars]
<1>1. /\ set' = IF atOnce THEN AfterMorePars(aside) ELSE opened
      /\ files' = queue \cup pars /\ job' = job
  BY DEF Start
<1>2. all \subseteq job.posts
  BY DEF Matched
<1>3. aside \in ParInfos /\ Sorted(aside) /\ aside.loose \cap aside.vols = {}
  <2>1. CASE job.autopar /\ all # {}
    <3> HIDE DEF all
    <3> DEFINE t == PutAside(all)
    <3>1. t \in ParInfos /\ Sorted(t) /\ t.loose \cap t.vols = {}
      BY <1>2, PutAsideIs, PutAsideFields
    <3> QED
      BY <2>1, <3>1
  <2>2. CASE ~(job.autopar /\ all # {})
    BY <2>2, NoSetIs DEF NoSet, Sorted
  <2> QED
    BY <2>1, <2>2
<1>4. Unqueued(aside, queue)
  <2>1. CASE job.autopar /\ all # {}
    <3>1. \A p \in queue : p.role = "data"
      BY <2>1 DEF Plain, Takes
    <3> HIDE DEF aside, queue
    <3> QED
      BY <1>3, <3>1 DEF Sorted, Unqueued
  <2>2. CASE ~(job.autopar /\ all # {})
    <3>1. aside = NoSet
      BY <2>2
    <3> HIDE DEF aside, queue
    <3> QED
      BY <3>1 DEF NoSet, Unqueued
  <2> QED
    BY <2>1, <2>2
<1>5. CASE atOnce
  <2>1. set' = AfterMorePars(aside) /\ files' = MorePars(aside)
    BY <1>1, <1>5
  <2> HIDE DEF opened, aside, atOnce, pars, queue, all
  <2>2. Sorted(set') /\ Unqueued(set', files')
    BY <1>3, <2>1, AfterIsSorted
  <2> QED
    BY <1>1, <2>2 DEF SetInv, Sorted, Unqueued
<1>6. CASE ~atOnce
  <2>1. set' = opened /\ files' = queue \cup InitialPars(aside) /\ pars = InitialPars(aside)
    BY <1>1, <1>6
  <2>2. \A p \in pars : p \in aside.pars \/ (p \in aside.loose /\ p \in pars)
    <3>1. InitialPars(aside) \subseteq aside.pars \cup aside.loose
      <4> HIDE DEF aside
      <4> QED
        BY DEF InitialPars, Smallest
    <3> HIDE DEF aside
    <3> QED
      BY <2>1, <3>1
  <2>3. /\ opened.pars = {} /\ opened.loose = aside.loose \ pars /\ opened.vols = aside.vols
        /\ opened.extra = aside.extra
    <3>1. aside = [known |-> aside.known, pars |-> aside.pars, loose |-> aside.loose, vols |-> aside.vols,
                   extra |-> aside.extra, finished |-> aside.finished]
      BY <1>3, ParInfoIs
    <3> HIDE DEF aside, pars
    <3> QED
      BY <3>1
  <2> HIDE DEF opened, aside, atOnce, pars, queue, all
  <2> QED
    BY <1>1, <1>3, <1>4, <2>1, <2>2, <2>3 DEF SetInv, Sorted, Unqueued
<1> QED
  BY <1>5, <1>6

\* Nothing else queues posts or changes what has been put aside, but that nget
\* ends.
LEMMA OnlyDropsFiles ==
  ASSUME [Next]_vars, ~ Start, ~ NextFile
  PROVE  /\ job' = job /\ files' \subseteq files
         /\ set' = set \/ (set' = NoSet /\ files' = {})
<1>1. CASE Mark \/ Unmark
  BY <1>1 DEF Mark, Unmark
<1>2. CASE Pick \/ DoArticle \/ \E s \in Server : Arrive(s) \/ Gone(s) \/ Broken(s)
  BY <1>2 DEF Pick, AtPart, DoArticle, Arrive, Gone, Broken
<1>3. CASE SkipPart \/ AlreadyHave \/ NoConnect \/ TryAgain \/ GiveUp
  BY <1>3 DEF SkipPart, AlreadyHave, NoConnect, AtPart, TryAgain, GiveUp, Failed, Past
<1>4. CASE Write \/ WriteFails
  BY <1>4 DEF Write, WriteFails, Past
<1>5. CASE KeepTemps \/ NothingToDecode \/ DecodeErrors \/ Decode \/ Unlink \/ MarkDecoded
  BY <1>5 DEF KeepTemps, AtEnd, NothingToDecode, Decodes, DecodeErrors, Decode, Unlink, MarkDecoded
<1>6. CASE Done \/ Kill
  BY <1>6 DEF Done, Kill, Ended
<1>7. CASE UNCHANGED vars
  BY <1>7 DEF vars
<1> QED
  BY <1>1, <1>2, <1>3, <1>4, <1>5, <1>6, <1>7 DEF Next, Step

LEMMA NextFileIs ==
  ASSUME NextFile
  PROVE  /\ pc = "next" /\ job' = job
         /\ \/ set' = set /\ files' \subseteq files
            \/ set' = AfterMorePars(set) /\ files' = MorePars(set)
<1>1. CASE job.autopar /\ files \ {Cur} = {}
  BY <1>1 DEF NextFile
<1>2. CASE ~(job.autopar /\ files \ {Cur} = {})
  BY <1>2 DEF NextFile
<1> QED
  BY <1>1, <1>2

LEMMA SetInvInit == Init => SetInv
BY DEF Init, SetInv, Sorted, Unqueued, NoSet

LEMMA SetInvNext ==
  ASSUME TypeOK, SetInv, [Next]_vars
  PROVE  SetInv'
<1>1. CASE Start
  BY <1>1, StartKeepsSet
<1>2. ASSUME job' = job, set' = set, files' \subseteq files
      PROVE  SetInv'
  BY <1>2 DEF SetInv, Sorted, Unqueued
<1>3. CASE NextFile
  <2>1. CASE set' = set /\ files' \subseteq files
    BY <1>2, <1>3, <2>1, NextFileIs
  <2>2. CASE set' = AfterMorePars(set) /\ files' = MorePars(set)
    <3>1. Sorted(set) /\ set \in ParInfos
      BY DEF SetInv, TypeOK
    <3>2. Sorted(AfterMorePars(set)) /\ Unqueued(AfterMorePars(set), MorePars(set))
      BY <3>1, AfterIsSorted
    <3>3. Sorted(set') /\ Unqueued(set', files')
      BY <2>2, <3>2
    <3>4. job' = job
      BY <1>3, NextFileIs
    <3> QED
      BY <3>3, <3>4 DEF SetInv, Sorted, Unqueued
  <2> QED
    BY <1>3, <2>1, <2>2, NextFileIs
<1>4. CASE ~ Start /\ ~ NextFile
  <2>1. CASE set' = set
    BY <1>2, <1>4, <2>1, OnlyDropsFiles
  <2>2. CASE set' = NoSet /\ files' = {}
    BY <2>2 DEF NoSet, SetInv, Sorted, Unqueued
  <2> QED
    BY <1>4, <2>1, <2>2, OnlyDropsFiles
<1> QED
  BY <1>1, <1>3, <1>4

LEMMA NeededType == InOrderNow => Needed \in Nat
<1> SUFFICES ASSUME InOrderNow PROVE Needed \in Nat
  OBVIOUS
<1>1. MissingBlocks \in Nat /\ Cardinality(GoodPackets) \in Nat
  BY NeededIs, PacketsFinite DEF NeededFacts, InOrderNow
<1>2. MissingBlocks - Cardinality(GoodPackets) \in Int
  BY <1>1
<1>3. Max({0, MissingBlocks - Cardinality(GoodPackets)}) \in Nat
  BY <1>2, MaxWithZero
<1> QED
  BY <1>3 DEF Needed

LEMMA CheapestVolsAre ==
  ASSUME NEW s, NEW num
  PROVE  \/ CheapestVols(s, num, GoodPackets) \subseteq s.extra
         \/ CheapestVols(s, num, GoodPackets) = Cheapest(s, num)
<1>1. \A k : Extra(s, k) \subseteq s.extra
  BY DEF Extra
<1> DEFINE avail == Cardinality((UNION {p.packets : p \in s.vols}) \ GoodPackets)
           few == avail < num
           extra == IF few THEN Extra(s, num - avail) ELSE {}
<1>2. CheapestVols(s, num, GoodPackets) =
        IF extra # {} THEN extra ELSE IF job.optimistic /\ few THEN {} ELSE Cheapest(s, num)
  BY Zenon DEF CheapestVols, Cheapest
<1>3. extra \subseteq s.extra
  BY <1>1
<1> HIDE DEF extra, few
<1> QED
  BY <1>2, <1>3

\* A step that queues volumes after the last file has been retrieved.
LEMMA ChosenAre ==
  ASSUME TypeOK, SetInv, [Next]_vars, pc = "next", Known, ChosenVols # {}
  PROVE  /\ Claimed(set) \in ParInfos /\ \A p \in Claimed(set).vols : p.role = "vol"
         /\ job.ver = 1 => ChosenVols = FirstVols(Claimed(set), Needed, GoodPackets)
         /\ job.ver = 2 => ChosenVols = Cheapest(Claimed(set), Needed)
<1> DEFINE c == Claimed(set)
<1>1. set \in ParInfos /\ c \in ParInfos /\ job.ver \in 1 .. 2
  BY ClaimedIs DEF TypeOK, Job
<1>2. NextFile
  <2>1. ~ Start
    BY DEF Start
  <2> QED
    BY <2>1, OnlyDropsFiles DEF ChosenVols
<1>3. files' = InitialPars(c) \cup Volumes(c)
  BY <1>2, NextFileIs DEF ChosenVols, MorePars
<1>4. /\ c.vols = set.vols \cup set.loose /\ c.loose = {} /\ c.pars = set.pars /\ c.extra = set.extra
  BY <1>1, ClaimedFields
<1> HIDE DEF c
<1>5. /\ \A p \in c.vols : p.role = "vol" /\ p \notin files
      /\ \A p \in c.pars : p.role # "vol"
      /\ job.ver = 2 => \A p \in c.extra : p.role # "vol"
  <2>1. /\ \A p \in set.loose \cup set.vols : p.role = "vol" /\ p \notin files
        /\ \A p \in set.pars : p.role = "par"
        /\ job.ver = 2 => \A p \in set.extra : p.role = "data"
    BY DEF SetInv, Sorted, Unqueued
  <2> QED
    BY <1>4, <2>1
<1>6. InitialPars(c) \subseteq c.pars
  BY <1>4 DEF InitialPars, Smallest
<1>7. ChosenVols = {p \in Volumes(c) \ files : p.role = "vol"}
  BY <1>3, <1>5, <1>6 DEF ChosenVols
<1>8. Volumes(c) # {}
  BY <1>7
<1>9. CASE job.ver = 1
  <2>1. Volumes(c) = FirstVols(c, Needed, GoodPackets)
    BY <1>8, <1>9 DEF Volumes
  <2>2. FirstVols(c, Needed, GoodPackets) \subseteq c.vols
    BY DEF FirstVols
  <2>3. ChosenVols = FirstVols(c, Needed, GoodPackets)
    BY <1>5, <1>7, <2>1, <2>2
  <2> QED
    BY <1>1, <1>5, <1>9, <2>3 DEF c
<1>10. CASE job.ver = 2
  <2>1. Volumes(c) = CheapestVols(c, Needed, GoodPackets)
    BY <1>8, <1>10 DEF Volumes
  <2>2. Volumes(c) = Cheapest(c, Needed)
    <3> SUFFICES ASSUME Volumes(c) \subseteq c.extra PROVE FALSE
      BY <2>1, CheapestVolsAre
    <3>1. \A p \in Volumes(c) : p.role # "vol"
      BY <1>5, <1>10
    <3> QED
      BY <1>7, <3>1
  <2>3. Cheapest(c, Needed) \subseteq c.vols
    BY DEF Cheapest
  <2>4. ChosenVols = Cheapest(c, Needed)
    BY <1>5, <1>7, <2>2, <2>3
  <2> QED
    BY <1>1, <1>5, <1>10, <2>4 DEF c
<1> QED
  BY <1>1, <1>9, <1>10

\* Autopar downloads no more than is needed (par.cc get_pxxs,
\* get_recoverypackets), for any posts, whatever is damaged, missing or posted
\* twice.
THEOREM NoMoreThanNeeded == Spec => AsNeeded
<1> DEFINE D == pc = "next" /\ Known /\ ChosenVols # {} =>
                  IF job.ver = 1
                  THEN /\ Cardinality(ChosenVols) = Min({Needed, Cardinality(Brings(Claimed(set).vols))})
                       /\ Cardinality(Brings(ChosenVols)) = Cardinality(ChosenVols)
                  ELSE Regular(Claimed(set).vols) =>
                         \A S \in SUBSET Claimed(set).vols :
                           Cardinality(Brings(S)) >= Needed =>
                             Cardinality(Brings(ChosenVols)) >= Needed /\ Weight(ChosenVols) <= Weight(S)
<1>1. Init => ParInv /\ SetInv
  BY ParInvInit, SetInvInit
<1>2. IInv /\ IInv' /\ ParInv /\ SetInv /\ [Next]_vars => ParInv' /\ SetInv'
  BY ParInvNext, SetInvNext DEF IInv
<1>3. IInv /\ ParInv /\ SetInv /\ [Next]_vars => D
  <2> SUFFICES ASSUME IInv, ParInv, SetInv, [Next]_vars, pc = "next", Known, ChosenVols # {}
               PROVE  IF job.ver = 1
                      THEN /\ Cardinality(ChosenVols) = Min({Needed, Cardinality(Brings(Claimed(set).vols))})
                           /\ Cardinality(Brings(ChosenVols)) = Cardinality(ChosenVols)
                      ELSE Regular(Claimed(set).vols) =>
                             \A S \in SUBSET Claimed(set).vols :
                               Cardinality(Brings(S)) >= Needed =>
                                 Cardinality(Brings(ChosenVols)) >= Needed /\ Weight(ChosenVols) <= Weight(S)
    OBVIOUS
  <2>1. TypeOK /\ InOrderNow
    BY DEF IInv, ParInv, InOrderNow
  <2>2. Needed \in Nat /\ job.ver \in 1 .. 2
    BY <2>1, NeededType DEF TypeOK, Job
  <2>3. /\ Claimed(set) \in ParInfos /\ \A p \in Claimed(set).vols : p.role = "vol"
        /\ job.ver = 1 => ChosenVols = FirstVols(Claimed(set), Needed, GoodPackets)
        /\ job.ver = 2 => ChosenVols = Cheapest(Claimed(set), Needed)
    BY <2>1, ChosenAre
  <2>4. CASE job.ver = 1
    <3>1. FirstVols(Claimed(set), Needed, GoodPackets) # {}
      BY <2>3, <2>4
    <3>2. /\ Cardinality(FirstVols(Claimed(set), Needed, GoodPackets)) =
               Min({Needed, Cardinality(Brings(Claimed(set).vols))})
          /\ Cardinality(Brings(FirstVols(Claimed(set), Needed, GoodPackets))) =
               Cardinality(FirstVols(Claimed(set), Needed, GoodPackets))
      BY <2>1, <2>2, <2>3, <2>4, <3>1, FirstVolsSuffice
    <3> QED
      BY <2>3, <2>4, <3>2
  <2>5. CASE job.ver = 2
    <3>1. ASSUME Regular(Claimed(set).vols), NEW S \in SUBSET Claimed(set).vols, Cardinality(Brings(S)) >= Needed
          PROVE  /\ Cardinality(Brings(Cheapest(Claimed(set), Needed))) >= Needed
                 /\ Weight(Cheapest(Claimed(set), Needed)) <= Weight(S)
      BY <2>1, <2>2, <2>3, <3>1, CheapestSuffice
    <3>2. ChosenVols = Cheapest(Claimed(set), Needed)
      BY <2>3, <2>5
    <3> QED
      BY <2>5, <3>1, <3>2
  <2> QED
    BY <2>2, <2>4, <2>5
<1> HIDE DEF D
<1>4. Spec => [][D]_vars
  BY Invariance, <1>1, <1>2, <1>3, PTL DEF Spec
<1> QED
  BY <1>4 DEF AsNeeded, D
=============================================================================
