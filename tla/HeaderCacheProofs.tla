------------------------- MODULE HeaderCacheProofs -------------------------
(***************************************************************************)
(* Theorems about HeaderCache for any servers, messages, keys and numbers: *)
(* its counters and its window agree with its articles, have is never too  *)
(* low, and the whole implements ArticleStore.                             *)
(***************************************************************************)
EXTENDS HeaderCache, FiniteSetTheorems, SequenceTheorems, WellFoundedInduction, TLAPS

-----------------------------------------------------------------------------
(* The inductive invariant. *)

ServerArticle == [server : Server, num : Number]
Part == {PartOf[m] : m \in Msg}

\* A file, also while it has no parts.
FileOK(f) ==
  /\ f \in File
  /\ IsFiniteSet(DOMAIN f.parts)

\* A list of files in which no file is without parts and no part without
\* articles.
FilesOK(fs) ==
  /\ fs \in Seq(File)
  /\ \A i \in DOMAIN fs :
       /\ FileOK(fs[i]) /\ NotEmpty(fs[i])
       /\ \A p \in DOMAIN fs[i].parts : fs[i].parts[p].arts # {}

\* The articles of a server have different numbers, and there are finitely many.
ArticlesOK(A) ==
  /\ A \subseteq Store!Article /\ IsFiniteSet(A)
  /\ \A a, b \in A : a.server = b.server /\ a.num = b.num => a = b

\* The articles are between low and high of their servers; there are none when
\* low is 0.
Window(A, inf) ==
  /\ \A s \in Server : inf[s].high \in 0 .. MaxNum
  /\ \A a \in A : /\ inf[a.server].low # 0
                  /\ inf[a.server].low <= a.num /\ a.num <= inf[a.server].high

\* num of each server.
NumRight(fs, inf) == \A s \in Server : inf[s].num = Cardinality(NumsOf(fs, s))
NumCovers(fs, inf) == \A s \in Server : inf[s].num >= Cardinality(NumsOf(fs, s))

Types ==
  /\ open \in BOOLEAN /\ saveit \in BOOLEAN /\ fileread \in BOOLEAN
  /\ totalnum \in Int /\ cfg \subseteq Server /\ cut \in BOOLEAN /\ disk.exists \in BOOLEAN
  /\ info \in [Server -> [high : ULong, low : ULong, num : Nat]]
  /\ disk.info \in [Server -> [high : ULong, low : ULong, num : Nat]]
  /\ FilesOK(files) /\ FilesOK(disk.files)
  /\ ArticlesOK(Articles(files)) /\ ArticlesOK(Articles(disk.files))
  /\ ~open => files = <<>>

\* What is in memory.
Counts ==
  /\ Window(Articles(files), info) \/ ~open
  /\ open => NumCovers(files, info)
  /\ open /\ ~cut => NumRight(files, info) /\ totalnum = NumParts(files)

\* The cache file, as long as it has not been cut short.
DiskCounts ==
  ~cut => Window(Articles(disk.files), disk.info) /\ NumRight(disk.files, disk.info)

\* Whether closing without saving loses nothing.
Unsaved ==
  /\ ~disk.exists => disk.files = <<>>
  /\ open /\ ~cut /\ ~fileread => ~disk.exists
  /\ open /\ ~cut /\ ~saveit => Articles(files) = Store!Of(Articles(disk.files), cfg)

IInv == Types /\ Counts /\ DiskCounts /\ Unsaved /\ HaveCovers

-----------------------------------------------------------------------------
(* Filtering lists of files. *)

LEMMA Numbers == /\ MaxNum \in Nat \ {0} /\ ULongMax = MaxNum + 1 /\ Number \subseteq Nat
                 /\ Number = 1 .. MaxNum /\ ULong = 0 .. MaxNum + 1
  BY HeaderCacheAssumption DEF HeaderCacheAssumption, ULongMax, Number, ULong

LEMMA LeastExists ==
  ASSUME NEW S \in SUBSET Nat, S # {}
  PROVE  \E x \in S : \A y \in S : x <= y
<1> DEFINE Less == {ss \in Nat \X Nat : ss[1] < ss[2]}
<1>1. IsWellFoundedOn(Less, Nat)
  BY NatLessThanWellFounded DEF OpToRel
<1> HIDE DEF Less
<1>2. PICK x \in S : \A y \in S : ~(<<y, x>> \in Less)
  BY <1>1, WFMin
<1>3. ASSUME NEW y \in S PROVE x <= y
  <2>1. x \in Nat /\ y \in Nat /\ ~(<<y, x>> \in Less)
    BY <1>2
  <2>2. <<y, x>> \in Nat \X Nat /\ <<y, x>>[1] = y /\ <<y, x>>[2] = x
    BY <2>1
  <2>3. ~(y < x)
    BY <2>1, <2>2 DEF Less
  <2> QED
    BY <2>1, <2>3
<1> QED
  BY <1>3

\* Nth() counts a set through.
LEMMA NthIs ==
  ASSUME NEW S \in SUBSET Nat, IsFiniteSet(S)
  PROVE  /\ Cardinality(S) \in Nat
         /\ \A i \in 1 .. Cardinality(S) : Nth(S, i) \in S
         /\ \A n \in S : \E i \in 1 .. Cardinality(S) : Nth(S, i) = n
<1> DEFINE Below(n) == {m \in S : m < n}
           T == 0 .. Cardinality(S) - 1
           rank == [n \in S |-> Cardinality(Below(n))]
<1>1. Cardinality(S) \in Nat
  BY FS_CardinalityType
<1>2. \A n \in S : IsFiniteSet(Below(n)) /\ Cardinality(Below(n)) \in Nat
  BY FS_Subset, FS_CardinalityType
<1>3. \A n \in S : Cardinality(Below(n)) < Cardinality(S)
  <2> TAKE n \in S
  <2>1. IsFiniteSet(S \ {n}) /\ Cardinality(S \ {n}) = Cardinality(S) - 1
    BY FS_RemoveElement
  <2>2. Below(n) \subseteq S \ {n}
    OBVIOUS
  <2>3. Cardinality(Below(n)) <= Cardinality(S \ {n})
    BY <2>1, <2>2, FS_Subset
  <2> QED
    BY <1>1, <1>2, <2>1, <2>3
<1>4. \A n, k \in S : n < k => Cardinality(Below(n)) < Cardinality(Below(k))
  <2> SUFFICES ASSUME NEW n \in S, NEW k \in S, n < k
               PROVE  Cardinality(Below(n)) < Cardinality(Below(k))
    OBVIOUS
  <2>1. n \notin Below(n) /\ Below(n) \cup {n} \subseteq Below(k)
    <3>1. \A m \in S : m \in Nat
      OBVIOUS
    <3>2. \A m \in S : m < n => m < k
      BY <3>1
    <3>3. ~(n < n)
      BY <3>1
    <3> QED
      BY <3>2, <3>3
  <2>2. Cardinality(Below(n) \cup {n}) = Cardinality(Below(n)) + 1
    BY <1>2, <2>1, FS_AddElement
  <2>3. Cardinality(Below(n) \cup {n}) <= Cardinality(Below(k))
    BY <1>2, <2>1, FS_Subset
  <2> QED
    BY <1>2, <2>2, <2>3
<1> HIDE DEF Below
<1>5. \A n, k \in S : Cardinality(Below(n)) = Cardinality(Below(k)) => n = k
  <2> SUFFICES ASSUME NEW n \in S, NEW k \in S, Cardinality(Below(n)) = Cardinality(Below(k)), n # k
               PROVE  FALSE
    OBVIOUS
  <2>1. n < k \/ k < n
    OBVIOUS
  <2> QED
    BY <1>2, <1>4, <2>1
<1>6. rank \in [S -> T]
  BY <1>1, <1>2, <1>3
<1>7. rank \in Injection(S, T)
  BY <1>5, <1>6 DEF Injection, IsInjective
<1>8. IsFiniteSet(T) /\ Cardinality(T) = Cardinality(S)
  <2>1. IsFiniteSet(T) /\ Cardinality(T) = IF 0 > Cardinality(S) - 1 THEN 0 ELSE Cardinality(S) - 1 - 0 + 1
    BY <1>1, FS_Interval
  <2> QED
    BY <1>1, <2>1
<1> HIDE DEF T
<1>9. rank \in Surjection(S, T)
  <2> HIDE DEF rank
  <2> QED
    BY <1>7, <1>8, FS_Injection
<1>10. \A i \in T : \E n \in S : Cardinality(Below(n)) = i
  BY <1>9 DEF Surjection
<1>11. \A i \in 1 .. Cardinality(S) : Nth(S, i) \in S /\ Cardinality(Below(Nth(S, i))) = i - 1
  <2> TAKE i \in 1 .. Cardinality(S)
  <2>1. i - 1 \in T
    BY <1>1 DEF T
  <2>2. \E n \in S : Cardinality({m \in S : m < n}) = i - 1
    BY <1>10, <2>1 DEF Below
  <2> QED
    BY <2>2 DEF Nth, Below
<1>12. \A n \in S : \E i \in 1 .. Cardinality(S) : Nth(S, i) = n
  <2> TAKE n \in S
  <2> DEFINE i == Cardinality(Below(n)) + 1
  <2>1. i \in 1 .. Cardinality(S)
    BY <1>1, <1>2, <1>3
  <2>2. Nth(S, i) \in S /\ Cardinality(Below(Nth(S, i))) = i - 1
    BY <1>11, <2>1
  <2>3. i - 1 = Cardinality(Below(n))
    BY <1>2
  <2> QED
    BY <1>5, <2>1, <2>2, <2>3
<1> QED
  BY <1>1, <1>11, <1>12

\* NonEmpty() keeps the files that have parts, and no articles are in the others.
LEMMA NonEmptyIs ==
  ASSUME NEW fs, NEW n \in Nat, DOMAIN fs = 1 .. n
  PROVE  /\ DOMAIN NonEmpty(fs) = 1 .. Len(NonEmpty(fs))
         /\ \A X : (\A i \in DOMAIN fs : fs[i] \in X) => NonEmpty(fs) \in Seq(X)
         /\ \A j \in DOMAIN NonEmpty(fs) : \E i \in DOMAIN fs : NonEmpty(fs)[j] = fs[i] /\ NotEmpty(fs[i])
         /\ Articles(NonEmpty(fs)) = Articles(fs)
<1> DEFINE left == {i \in DOMAIN fs : NotEmpty(fs[i])}
           k == Cardinality(left)
           kept == NonEmpty(fs)
<1>1. left \in SUBSET Nat /\ IsFiniteSet(left)
  <2>1. IsFiniteSet(1 .. n)
    BY FS_Interval
  <2> QED
    BY <2>1, FS_Subset
<1>2. /\ k \in Nat
      /\ \A i \in 1 .. k : Nth(left, i) \in left
      /\ \A m \in left : \E i \in 1 .. k : Nth(left, i) = m
  BY <1>1, NthIs
<1>3. kept = [i \in 1 .. k |-> fs[Nth(left, i)]]
  BY DEF NonEmpty
<1> HIDE DEF k, kept
<1>4. \A i \in 1 .. k : Nth(left, i) \in DOMAIN fs /\ NotEmpty(fs[Nth(left, i)])
  BY <1>2
<1>5. \A m \in DOMAIN fs : NotEmpty(fs[m]) => \E i \in 1 .. k : Nth(left, i) = m
  BY <1>2
<1> HIDE DEF left
<1>6. DOMAIN kept = 1 .. k /\ \A i \in 1 .. k : kept[i] = fs[Nth(left, i)]
  BY <1>3
<1>7. ASSUME NEW X, \A i \in DOMAIN fs : fs[i] \in X PROVE kept \in Seq(X)
  <2>1. kept \in [1 .. k -> X]
    BY <1>3, <1>4, <1>7
  <2> QED
    BY <1>2, <2>1, IsASeq
<1>8. Len(kept) = k
  BY <1>2, <1>3, LenProperties
<1>9. Articles(kept) = Articles(fs)
  <2>1. \A m \in DOMAIN fs : ~NotEmpty(fs[m]) => ArticlesIn(fs[m]) = {}
    BY DEF NotEmpty, ArticlesIn
  <2>2. ASSUME NEW x \in Articles(kept) PROVE x \in Articles(fs)
    BY <1>4, <1>6, <2>2 DEF Articles
  <2>3. ASSUME NEW x \in Articles(fs) PROVE x \in Articles(kept)
    <3>1. PICK m \in DOMAIN fs : x \in ArticlesIn(fs[m])
      BY DEF Articles
    <3>2. PICK i \in 1 .. k : Nth(left, i) = m
      BY <1>5, <2>1, <3>1
    <3> QED
      BY <1>6, <3>1, <3>2 DEF Articles
  <2> QED
    BY <2>2, <2>3
<1> QED
  BY <1>4, <1>6, <1>7, <1>8, <1>9 DEF kept

-----------------------------------------------------------------------------
(* Files. *)

LEMMA FileIs ==
  ASSUME NEW f \in File
  PROVE  /\ f = [key |-> f.key, have |-> f.have, parts |-> f.parts]
         /\ f.key \in Key /\ f.have \in Int
         /\ f.parts = [p \in DOMAIN f.parts |-> f.parts[p]] /\ DOMAIN f.parts \subseteq Part
         /\ \A p \in DOMAIN f.parts :
              /\ f.parts[p] = [msg |-> f.parts[p].msg, arts |-> f.parts[p].arts]
              /\ f.parts[p].msg \in Msg /\ f.parts[p].arts \subseteq ServerArticle
<1>1. /\ f = [key |-> f.key, have |-> f.have, parts |-> f.parts]
      /\ f.key \in Key /\ f.have \in Int
      /\ f.parts \in UNION {[P -> [msg : Msg, arts : SUBSET ServerArticle]] : P \in SUBSET Part}
  BY DEF File, ServerArticle, Part
<1>2. PICK P \in SUBSET Part : f.parts \in [P -> [msg : Msg, arts : SUBSET ServerArticle]]
  BY <1>1
<1> QED
  BY <1>1, <1>2

LEMMA FileMade ==
  ASSUME NEW k \in Key, NEW h \in Int, NEW parts, DOMAIN parts \subseteq Part,
         parts \in [DOMAIN parts -> [msg : Msg, arts : SUBSET ServerArticle]]
  PROVE  [key |-> k, have |-> h, parts |-> parts] \in File
<1>1. parts \in UNION {[P -> [msg : Msg, arts : SUBSET ServerArticle]] : P \in SUBSET Part}
  OBVIOUS
<1> QED
  BY <1>1 DEF File, ServerArticle, Part

\* The article that a message is.
Named(x) == [server |-> x.server, num |-> x.num]

LEMMA InFile ==
  ASSUME NEW f \in File
  PROVE  \A x : x \in ArticlesIn(f) <=>
            /\ x \in Store!Article
            /\ \E p \in DOMAIN f.parts : f.parts[p].msg = x.msg /\ Named(x) \in f.parts[p].arts
<1>1. \A p \in DOMAIN f.parts : f.parts[p].msg \in Msg /\ f.parts[p].arts \subseteq ServerArticle
  BY FileIs
<1>2. ASSUME NEW x \in ArticlesIn(f)
      PROVE  /\ x \in Store!Article
             /\ \E p \in DOMAIN f.parts : f.parts[p].msg = x.msg /\ Named(x) \in f.parts[p].arts
  <2>1. PICK p \in DOMAIN f.parts :
          x \in {[server |-> a.server, num |-> a.num, msg |-> f.parts[p].msg] : a \in f.parts[p].arts}
    BY <1>2 DEF ArticlesIn
  <2>2. PICK a \in f.parts[p].arts : x = [server |-> a.server, num |-> a.num, msg |-> f.parts[p].msg]
    BY <2>1
  <2>3. a \in ServerArticle /\ f.parts[p].msg \in Msg
    BY <1>1, <2>1, <2>2
  <2>4. a = [server |-> a.server, num |-> a.num] /\ a.server \in Server /\ a.num \in Number
    BY <2>3 DEF ServerArticle
  <2>5. x.server = a.server /\ x.num = a.num /\ x.msg = f.parts[p].msg /\ x \in Store!Article
    BY <2>2, <2>3, <2>4 DEF Store!Article
  <2>6. Named(x) = a
    BY <2>4, <2>5 DEF Named
  <2> QED
    BY <2>2, <2>5, <2>6
<1>3. ASSUME NEW x \in Store!Article, NEW p \in DOMAIN f.parts, f.parts[p].msg = x.msg, Named(x) \in f.parts[p].arts
      PROVE  x \in ArticlesIn(f)
  <2>1. x = [server |-> x.server, num |-> x.num, msg |-> x.msg]
    BY DEF Store!Article
  <2>2. Named(x).server = x.server /\ Named(x).num = x.num
    BY DEF Named
  <2>3. x = [server |-> Named(x).server, num |-> Named(x).num, msg |-> f.parts[p].msg]
    BY <1>3, <2>1, <2>2
  <2> HIDE DEF Named
  <2> QED
    BY <1>3, <2>3 DEF ArticlesIn
<1> QED
  BY <1>2, <1>3

\* The parts that are left when articles have gone.
LEMMA PartsLeftIs ==
  ASSUME NEW f, FileOK(f), NEW gone
  PROVE  LET parts == PartsLeft(f, gone)
         IN /\ DOMAIN parts \subseteq DOMAIN f.parts /\ IsFiniteSet(DOMAIN parts) /\ DOMAIN parts \subseteq Part
            /\ parts \in [DOMAIN parts -> [msg : Msg, arts : SUBSET ServerArticle]]
            /\ \A p \in DOMAIN parts :
                 /\ parts[p].msg = f.parts[p].msg
                 /\ parts[p].arts = f.parts[p].arts \ gone /\ parts[p].arts # {}
            /\ \A p \in DOMAIN f.parts : ~(f.parts[p].arts \subseteq gone) => p \in DOMAIN parts
<1> DEFINE left == {q \in DOMAIN f.parts : ~(f.parts[q].arts \subseteq gone)}
           parts == PartsLeft(f, gone)
<1>1. /\ DOMAIN f.parts \subseteq Part
      /\ \A p \in DOMAIN f.parts :
           /\ f.parts[p] = [msg |-> f.parts[p].msg, arts |-> f.parts[p].arts]
           /\ f.parts[p].msg \in Msg /\ f.parts[p].arts \subseteq ServerArticle
  BY FileIs DEF FileOK
<1>2. parts = [p \in left |-> [f.parts[p] EXCEPT !.arts = @ \ gone]]
  BY DEF PartsLeft
<1>3. \A p \in left : [f.parts[p] EXCEPT !.arts = @ \ gone] = [msg |-> f.parts[p].msg, arts |-> f.parts[p].arts \ gone]
  <2> TAKE p \in left
  <2>1. f.parts[p] = [msg |-> f.parts[p].msg, arts |-> f.parts[p].arts]
    BY <1>1
  <2> QED
    BY <2>1
<1>4. left \subseteq DOMAIN f.parts /\ \A p \in left : f.parts[p].arts \ gone # {}
  OBVIOUS
<1>5. \A p \in DOMAIN f.parts : ~(f.parts[p].arts \subseteq gone) => p \in left
  OBVIOUS
<1> HIDE DEF left, parts
<1>6. DOMAIN parts = left /\ \A p \in left : parts[p] = [msg |-> f.parts[p].msg, arts |-> f.parts[p].arts \ gone]
  BY <1>2, <1>3
<1>7. \A p \in left : parts[p].msg = f.parts[p].msg /\ parts[p].arts = f.parts[p].arts \ gone
  BY <1>6
<1>8. IsFiniteSet(left)
  BY <1>4, FS_Subset DEF FileOK
<1>9. \A p \in left : parts[p] \in [msg : Msg, arts : SUBSET ServerArticle]
  <2> TAKE p \in left
  <2>1. f.parts[p].msg \in Msg /\ f.parts[p].arts \ gone \in SUBSET ServerArticle
    BY <1>1, <1>4
  <2> QED
    BY <1>6, <2>1
<1>10. parts \in [DOMAIN parts -> [msg : Msg, arts : SUBSET ServerArticle]]
  BY <1>2, <1>6, <1>9
<1> QED
  BY <1>1, <1>4, <1>5, <1>6, <1>7, <1>8, <1>10 DEF parts

CountedIn(k, P) == Cardinality({p \in P : Counted(k, p)})

LEMMA CountedInIs ==
  ASSUME NEW k, NEW P, IsFiniteSet(P), NEW Q \in SUBSET P
  PROVE  /\ CountedIn(k, P) \in Nat /\ CountedIn(k, Q) \in Nat /\ CountedIn(k, Q) <= CountedIn(k, P)
         /\ \A p : p \notin P => CountedIn(k, P \cup {p}) = CountedIn(k, P) + IF Counted(k, p) THEN 1 ELSE 0
<1> DEFINE Of(R) == {p \in R : Counted(k, p)}
<1>1. IsFiniteSet(Of(P)) /\ IsFiniteSet(Of(Q)) /\ Of(Q) \subseteq Of(P)
  BY FS_Subset
<1>2. CountedIn(k, P) \in Nat /\ CountedIn(k, Q) \in Nat /\ CountedIn(k, Q) <= CountedIn(k, P)
  BY <1>1, FS_Subset, FS_CardinalityType DEF CountedIn
<1>3. ASSUME NEW p, p \notin P
      PROVE  CountedIn(k, P \cup {p}) = CountedIn(k, P) + IF Counted(k, p) THEN 1 ELSE 0
  <2>1. CASE Counted(k, p)
    <3>1. Of(P \cup {p}) = Of(P) \cup {p} /\ p \notin Of(P)
      BY <1>3, <2>1
    <3>2. Cardinality(Of(P) \cup {p}) = Cardinality(Of(P)) + 1
      BY <1>1, <3>1, FS_AddElement
    <3> QED
      BY <2>1, <3>1, <3>2 DEF CountedIn
  <2>2. CASE ~Counted(k, p)
    <3>1. Of(P \cup {p}) = Of(P)
      BY <2>2
    <3> QED
      BY <1>2, <2>2, <3>1 DEF CountedIn
  <2> QED
    BY <2>1, <2>2
<1> QED
  BY <1>2, <1>3

\* What FlushedFile() and ReadFile() make of a file that has enough in have.
Enough(f) == f.have >= CountedParts(f)

LEMMA FlushedFileIs ==
  ASSUME NEW f, FileOK(f), NEW gone
  PROVE  /\ FileOK(FlushedFile(f, gone))
         /\ Enough(f) => Enough(FlushedFile(f, gone))
         /\ \A p \in DOMAIN FlushedFile(f, gone).parts : FlushedFile(f, gone).parts[p].arts # {}
         /\ \A x : x \in ArticlesIn(FlushedFile(f, gone)) <=> x \in ArticlesIn(f) /\ Named(x) \notin gone
<1> DEFINE parts == PartsLeft(f, gone)
           left == [f EXCEPT !.parts = parts]
           g == FlushedFile(f, gone)
<1>1. /\ DOMAIN parts \subseteq DOMAIN f.parts /\ IsFiniteSet(DOMAIN parts) /\ DOMAIN parts \subseteq Part
      /\ parts \in [DOMAIN parts -> [msg : Msg, arts : SUBSET ServerArticle]]
      /\ \A p \in DOMAIN parts :
           /\ parts[p].msg = f.parts[p].msg
           /\ parts[p].arts = f.parts[p].arts \ gone /\ parts[p].arts # {}
      /\ \A p \in DOMAIN f.parts : ~(f.parts[p].arts \subseteq gone) => p \in DOMAIN parts
  BY PartsLeftIs
<1> HIDE DEF parts
<1>2. /\ f = [key |-> f.key, have |-> f.have, parts |-> f.parts]
      /\ f.key \in Key /\ f.have \in Int
  BY FileIs DEF FileOK
<1>3. left = [key |-> f.key, have |-> f.have, parts |-> parts]
  BY <1>2
<1>4. CountedParts(f) = CountedIn(f.key, DOMAIN f.parts) /\ CountedParts(left) = CountedIn(f.key, DOMAIN parts)
  BY <1>3 DEF CountedParts, CountedIn
<1>5. CountedParts(f) \in Nat /\ CountedParts(left) \in Nat
  BY <1>1, <1>4, CountedInIs DEF FileOK
<1> DEFINE h == f.have - (CountedParts(f) - CountedParts(left))
<1>6. h \in Int /\ (Enough(f) => h >= CountedParts(left))
  BY <1>2, <1>5 DEF Enough
<1>7. g = [left EXCEPT !.have = h]
  BY DEF FlushedFile, parts
<1> HIDE DEF left, h
<1>8. g = [key |-> f.key, have |-> h, parts |-> parts]
  BY <1>3, <1>7
<1> HIDE DEF g
<1>9. g.key = f.key /\ g.have = h /\ g.parts = parts
  BY <1>8
<1>10. g \in File
  BY <1>1, <1>2, <1>6, <1>8, FileMade
<1>11. Enough(f) => Enough(g)
  BY <1>4, <1>6, <1>9 DEF Enough, CountedParts, CountedIn
<1>12. ASSUME NEW x PROVE x \in ArticlesIn(g) <=> x \in ArticlesIn(f) /\ Named(x) \notin gone
  <2>1. x \in ArticlesIn(g) <=>
            /\ x \in Store!Article
            /\ \E p \in DOMAIN parts : parts[p].msg = x.msg /\ Named(x) \in parts[p].arts
    BY <1>9, <1>10, InFile
  <2>2. x \in ArticlesIn(f) <=>
            /\ x \in Store!Article
            /\ \E p \in DOMAIN f.parts : f.parts[p].msg = x.msg /\ Named(x) \in f.parts[p].arts
    BY InFile DEF FileOK
  <2>3. ASSUME NEW p \in DOMAIN f.parts, Named(x) \in f.parts[p].arts, Named(x) \notin gone
        PROVE  p \in DOMAIN parts
    BY <1>1, <2>3
  <2> QED
    BY <1>1, <2>1, <2>2, <2>3
<1> QED
  BY <1>1, <1>9, <1>10, <1>11, <1>12 DEF FileOK, g

\* What a file is after loading.
LEMMA ReadFileIs ==
  ASSUME NEW f, FileOK(f), NEW servers
  PROVE  /\ FileOK(ReadFile(f, servers))
         /\ Enough(ReadFile(f, servers))
         /\ \A p \in DOMAIN ReadFile(f, servers).parts : ReadFile(f, servers).parts[p].arts # {}
         /\ \A x : x \in ArticlesIn(ReadFile(f, servers)) <=>
                     x \in ArticlesIn(f) /\ Named(x) \notin [server : Server \ servers, num : Number]
<1> DEFINE gone == [server : Server \ servers, num : Number]
           parts == PartsLeft(f, gone)
           h == CountedParts(f)
           g == ReadFile(f, servers)
<1>1. /\ DOMAIN parts \subseteq DOMAIN f.parts /\ IsFiniteSet(DOMAIN parts) /\ DOMAIN parts \subseteq Part
      /\ parts \in [DOMAIN parts -> [msg : Msg, arts : SUBSET ServerArticle]]
      /\ \A p \in DOMAIN parts :
           /\ parts[p].msg = f.parts[p].msg
           /\ parts[p].arts = f.parts[p].arts \ gone /\ parts[p].arts # {}
      /\ \A p \in DOMAIN f.parts : ~(f.parts[p].arts \subseteq gone) => p \in DOMAIN parts
  BY PartsLeftIs
<1>2. /\ f = [key |-> f.key, have |-> f.have, parts |-> f.parts]
      /\ f.key \in Key /\ f.have \in Int
  BY FileIs DEF FileOK
<1>3. g = [f EXCEPT !.have = h, !.parts = parts]
  BY DEF ReadFile
<1>4. h = CountedIn(f.key, DOMAIN f.parts)
  BY DEF CountedParts, CountedIn
<1> HIDE DEF parts, gone, h, g
<1>5. g = [key |-> f.key, have |-> h, parts |-> parts]
  BY <1>2, <1>3
<1>6. g.key = f.key /\ g.have = h /\ g.parts = parts
  BY <1>5
<1>7. CountedParts(g) = CountedIn(f.key, DOMAIN parts)
  BY <1>6 DEF CountedParts, CountedIn
<1>8. h \in Nat /\ h >= CountedParts(g)
  BY <1>1, <1>4, <1>7, CountedInIs DEF FileOK
<1>9. g \in File
  BY <1>1, <1>2, <1>5, <1>8, FileMade
<1>10. ASSUME NEW x PROVE x \in ArticlesIn(g) <=> x \in ArticlesIn(f) /\ Named(x) \notin gone
  <2>1. x \in ArticlesIn(g) <=>
            /\ x \in Store!Article
            /\ \E p \in DOMAIN parts : parts[p].msg = x.msg /\ Named(x) \in parts[p].arts
    BY <1>6, <1>9, InFile
  <2>2. x \in ArticlesIn(f) <=>
            /\ x \in Store!Article
            /\ \E p \in DOMAIN f.parts : f.parts[p].msg = x.msg /\ Named(x) \in f.parts[p].arts
    BY InFile DEF FileOK
  <2>3. ASSUME NEW p \in DOMAIN f.parts, Named(x) \in f.parts[p].arts, Named(x) \notin gone
        PROVE  p \in DOMAIN parts
    BY <1>1, <2>3
  <2> QED
    BY <1>1, <2>1, <2>2, <2>3
<1> QED
  BY <1>1, <1>6, <1>8, <1>9, <1>10 DEF FileOK, Enough, g, gone

\* An article and a message.
Carried(a, m) == [server |-> a.server, num |-> a.num, msg |-> m]

\* addnewpart() and addserverarticle() add one article to a file.
LEMMA WithArticleIs ==
  ASSUME NEW f, FileOK(f), NEW m \in Msg, NEW a \in ServerArticle, Fits(f, m)
  PROVE  /\ FileOK(WithArticle(f, m, a)) /\ NotEmpty(WithArticle(f, m, a))
         /\ Enough(f) => Enough(WithArticle(f, m, a))
         /\ (\A p \in DOMAIN f.parts : f.parts[p].arts # {}) =>
              \A p \in DOMAIN WithArticle(f, m, a).parts : WithArticle(f, m, a).parts[p].arts # {}
         /\ ArticlesIn(WithArticle(f, m, a)) = ArticlesIn(f) \cup {Carried(a, m)}
<1> DEFINE p == PartOf[m]
           g == WithArticle(f, m, a)
           D == DOMAIN f.parts
           arts(q) == IF q \in D THEN f.parts[q].arts ELSE {}
           msg(q) == IF q \in D THEN f.parts[q].msg ELSE m
           parts == [q \in D \cup {p} |-> [msg |-> msg(q), arts |-> IF q = p THEN arts(q) \cup {a} ELSE arts(q)]]
           h == IF p \notin D /\ Counted(f.key, p) THEN f.have + 1 ELSE f.have
<1>1. /\ f = [key |-> f.key, have |-> f.have, parts |-> f.parts]
      /\ f.key \in Key /\ f.have \in Int
      /\ f.parts = [q \in D |-> f.parts[q]] /\ D \subseteq Part
      /\ \A q \in D :
           /\ f.parts[q] = [msg |-> f.parts[q].msg, arts |-> f.parts[q].arts]
           /\ f.parts[q].msg \in Msg /\ f.parts[q].arts \subseteq ServerArticle
  BY FileIs DEF FileOK
<1>2. p \in Part /\ (p \in D => f.parts[p].msg = m)
  BY DEF Part, Fits
<1>3. g = [key |-> f.key, have |-> h, parts |-> parts]
  <2>1. CASE p \in D
    <3>1. parts = [f.parts EXCEPT ![p].arts = @ \cup {a}]
      <4>1. D \cup {p} = D
        BY <2>1
      <4>2. \A q \in D : [f.parts EXCEPT ![p].arts = @ \cup {a}][q] =
                           [msg |-> msg(q), arts |-> IF q = p THEN arts(q) \cup {a} ELSE arts(q)]
        <5> TAKE q \in D
        <5>1. f.parts[q] = [msg |-> f.parts[q].msg, arts |-> f.parts[q].arts]
          BY <1>1
        <5>2. [f.parts[q] EXCEPT !.arts = @ \cup {a}] = [msg |-> f.parts[q].msg, arts |-> f.parts[q].arts \cup {a}]
          BY <5>1
        <5>3. CASE q = p
          BY <1>1, <5>2, <5>3
        <5>4. CASE q # p
          BY <1>1, <5>1, <5>4
        <5> QED
          BY <5>3, <5>4
      <4> QED
        BY <1>1, <4>1, <4>2
    <3>2. g = [f EXCEPT !.parts = [f.parts EXCEPT ![p].arts = @ \cup {a}]]
      BY <1>1, <2>1 DEF WithArticle
    <3> HIDE DEF parts
    <3>3. g = [f EXCEPT !.parts = parts] /\ h = f.have
      BY <2>1, <3>1, <3>2
    <3> QED
      BY <1>1, <3>3
  <2>2. CASE p \notin D
    <3>1. parts = [q \in D \cup {p} |-> IF q = p THEN [msg |-> m, arts |-> {a}] ELSE f.parts[q]]
      BY <1>1, <2>2
    <3>2. g = [f EXCEPT !.have = h, !.parts = [q \in D \cup {p} |-> IF q = p THEN [msg |-> m, arts |-> {a}] ELSE f.parts[q]]]
      BY <2>2 DEF WithArticle
    <3> HIDE DEF parts, h
    <3>3. g = [f EXCEPT !.have = h, !.parts = parts]
      BY <3>1, <3>2
    <3> QED
      BY <1>1, <3>3
  <2> QED
    BY <2>1, <2>2
<1>4. /\ DOMAIN parts = D \cup {p}
      /\ \A q \in D \cup {p} : /\ parts[q].msg = msg(q)
                               /\ parts[q].arts = IF q = p THEN arts(q) \cup {a} ELSE arts(q)
  OBVIOUS
<1>5. parts \in [D \cup {p} -> [msg : Msg, arts : SUBSET ServerArticle]]
  <2>1. \A q \in D \cup {p} : msg(q) \in Msg /\ arts(q) \subseteq ServerArticle
    BY <1>1
  <2> HIDE DEF msg, arts
  <2> QED
    BY <2>1
<1>6. h \in Int
  BY <1>1
<1>7. IsFiniteSet(D) /\ IsFiniteSet(D \cup {p})
  BY FS_AddElement DEF FileOK
<1> HIDE DEF g, parts
<1>8. g.key = f.key /\ g.have = h /\ g.parts = parts
  BY <1>3
<1>9. g \in File
  BY <1>1, <1>2, <1>3, <1>4, <1>5, <1>6, FileMade
<1>10. Enough(f) => Enough(g)
  <2>1. CountedParts(f) = CountedIn(f.key, D) /\ CountedParts(g) = CountedIn(f.key, D \cup {p})
    BY <1>4, <1>8 DEF CountedParts, CountedIn
  <2>2. CountedIn(f.key, D) \in Nat
    BY <1>7, CountedInIs
  <2>3. CASE p \in D
    <3>1. D \cup {p} = D /\ h = f.have
      BY <2>3
    <3> QED
      BY <1>8, <2>1, <3>1 DEF Enough
  <2>4. CASE p \notin D
    <3>1. CountedIn(f.key, D \cup {p}) = CountedIn(f.key, D) + IF Counted(f.key, p) THEN 1 ELSE 0
      BY <1>7, <2>4, CountedInIs
    <3>2. h = f.have + IF Counted(f.key, p) THEN 1 ELSE 0
      BY <1>1, <2>4
    <3> QED
      BY <1>1, <1>8, <2>1, <2>2, <3>1, <3>2 DEF Enough
  <2> QED
    BY <2>3, <2>4
<1>11. ASSUME NEW x PROVE x \in ArticlesIn(g) <=> x \in ArticlesIn(f) \/ x = Carried(a, m)
  <2>1. x \in ArticlesIn(g) <=>
            /\ x \in Store!Article
            /\ \E q \in D \cup {p} : msg(q) = x.msg /\ Named(x) \in (IF q = p THEN arts(q) \cup {a} ELSE arts(q))
    <3>1. x \in ArticlesIn(g) <=>
            /\ x \in Store!Article
            /\ \E q \in DOMAIN g.parts : g.parts[q].msg = x.msg /\ Named(x) \in g.parts[q].arts
      BY <1>9, InFile
    <3> DEFINE new(q) == IF q = p THEN arts(q) \cup {a} ELSE arts(q)
    <3>2. /\ DOMAIN g.parts = D \cup {p}
          /\ \A q \in D \cup {p} : g.parts[q].msg = msg(q) /\ g.parts[q].arts = new(q)
      BY <1>4, <1>8
    <3>3. ASSUME NEW q \in D \cup {p}
          PROVE  (g.parts[q].msg = x.msg /\ Named(x) \in g.parts[q].arts) <=> (msg(q) = x.msg /\ Named(x) \in new(q))
      <4>1. g.parts[q].msg = msg(q) /\ g.parts[q].arts = new(q)
        BY <3>2
      <4> HIDE DEF msg, new
      <4> QED
        BY <4>1
    <3> HIDE DEF msg, new
    <3>4. x \in ArticlesIn(g) <=>
            /\ x \in Store!Article
            /\ \E q \in D \cup {p} : msg(q) = x.msg /\ Named(x) \in new(q)
      BY <3>1, <3>2, <3>3
    <3> QED
      BY <3>4 DEF new
  <2>2. x \in ArticlesIn(f) <=>
            /\ x \in Store!Article
            /\ \E q \in D : f.parts[q].msg = x.msg /\ Named(x) \in f.parts[q].arts
    BY InFile DEF FileOK
  <2>3. Carried(a, m) \in Store!Article /\ Carried(a, m).msg = m /\ Named(Carried(a, m)) = a
    BY DEF Carried, Named, Store!Article, ServerArticle
  <2>4. x \in Store!Article /\ Named(x) = a /\ x.msg = m => x = Carried(a, m)
    <3> SUFFICES ASSUME x \in Store!Article, Named(x) = a, x.msg = m PROVE x = Carried(a, m)
      OBVIOUS
    <3>1. x = [server |-> x.server, num |-> x.num, msg |-> x.msg]
      BY DEF Store!Article
    <3>2. a.server = x.server /\ a.num = x.num
      BY DEF Named
    <3> QED
      BY <3>1, <3>2 DEF Carried
  <2>5. msg(p) = m
    BY <1>2
  <2>6. ASSUME x \in ArticlesIn(g) PROVE x \in ArticlesIn(f) \/ x = Carried(a, m)
    <3>1. PICK q \in D \cup {p} : msg(q) = x.msg /\ Named(x) \in (IF q = p THEN arts(q) \cup {a} ELSE arts(q))
      BY <2>1, <2>6
    <3>2. CASE Named(x) \in arts(q)
      BY <2>1, <2>2, <2>6, <3>1, <3>2
    <3>3. CASE q = p /\ Named(x) = a
      BY <2>1, <2>4, <2>5, <2>6, <3>1, <3>3
    <3> QED
      BY <3>1, <3>2, <3>3
  <2>7. ASSUME x \in ArticlesIn(f) PROVE x \in ArticlesIn(g)
    <3>1. PICK q \in D : f.parts[q].msg = x.msg /\ Named(x) \in f.parts[q].arts
      BY <2>2, <2>7
    <3>2. msg(q) = x.msg /\ Named(x) \in (IF q = p THEN arts(q) \cup {a} ELSE arts(q))
      BY <3>1
    <3> QED
      BY <2>1, <2>2, <2>7, <3>2
  <2>8. Carried(a, m) \in ArticlesIn(g)
    <3>1. g \in File
      BY <1>9
    <3>2. p \in DOMAIN g.parts /\ g.parts[p].msg = m /\ a \in g.parts[p].arts
      BY <1>4, <1>8, <2>5
    <3> QED
      BY <2>3, <3>1, <3>2, InFile
  <2> QED
    BY <2>6, <2>7, <2>8
<1>12. NotEmpty(g)
  BY <1>4, <1>8 DEF NotEmpty
<1>13. (\A q \in D : f.parts[q].arts # {}) => \A q \in DOMAIN g.parts : g.parts[q].arts # {}
  <2> SUFFICES ASSUME \A q \in D : f.parts[q].arts # {}, NEW q \in D \cup {p} PROVE parts[q].arts # {}
    BY <1>4, <1>8
  <2>1. CASE q = p
    <3>1. a \in arts(q) \cup {a}
      OBVIOUS
    <3> HIDE DEF arts
    <3> QED
      BY <1>4, <2>1, <3>1
  <2>2. CASE q # p
    <3>1. parts[q].arts = arts(q) /\ q \in D
      BY <1>4, <2>2
    <3> QED
      BY <3>1
  <2> QED
    BY <2>1, <2>2
<1> QED
  BY <1>4, <1>7, <1>8, <1>9, <1>10, <1>11, <1>12, <1>13 DEF FileOK, g

-----------------------------------------------------------------------------
(* Lists of files. *)

LEMMA NoFiles == FilesOK(<<>>) /\ Articles(<<>>) = {} /\ ArticlesOK({})
<1>1. <<>> \in Seq(File) /\ DOMAIN <<>> = {}
  BY EmptySeq
<1>2. IsFiniteSet({})
  BY FS_EmptySet
<1> QED
  BY <1>1, <1>2 DEF FilesOK, Articles, ArticlesOK

AllEnough(fs) == \A i \in DOMAIN fs : Enough(fs[i])

\* The files that are not empty of a list in which each file has lost articles.
LEMMA LessFiles ==
  ASSUME NEW fs, FilesOK(fs), NEW gone, NEW new, DOMAIN new = DOMAIN fs,
         \A i \in DOMAIN fs :
           /\ FileOK(new[i])
           /\ \A p \in DOMAIN new[i].parts : new[i].parts[p].arts # {}
           /\ \A x : x \in ArticlesIn(new[i]) <=> x \in ArticlesIn(fs[i]) /\ Named(x) \notin gone
  PROVE  /\ FilesOK(NonEmpty(new))
         /\ Articles(NonEmpty(new)) = {x \in Articles(fs) : Named(x) \notin gone}
         /\ AllEnough(new) => AllEnough(NonEmpty(new))
<1>1. DOMAIN new = 1 .. Len(fs) /\ Len(fs) \in Nat
  BY LenProperties DEF FilesOK
<1>2. /\ DOMAIN NonEmpty(new) = 1 .. Len(NonEmpty(new))
      /\ \A X : (\A i \in DOMAIN new : new[i] \in X) => NonEmpty(new) \in Seq(X)
      /\ \A j \in DOMAIN NonEmpty(new) : \E i \in DOMAIN new : NonEmpty(new)[j] = new[i] /\ NotEmpty(new[i])
      /\ Articles(NonEmpty(new)) = Articles(new)
  BY <1>1, NonEmptyIs
<1>3. NonEmpty(new) \in Seq(File)
  BY <1>2 DEF FileOK
<1>4. FilesOK(NonEmpty(new))
  BY <1>2, <1>3 DEF FilesOK
<1>5. Articles(new) = {x \in Articles(fs) : Named(x) \notin gone}
  BY DEF Articles
<1>6. AllEnough(new) => AllEnough(NonEmpty(new))
  BY <1>2 DEF AllEnough
<1> QED
  BY <1>2, <1>4, <1>5, <1>6

LEMMA FlushedFilesIs ==
  ASSUME NEW fs, FilesOK(fs), NEW gone, NEW new, new = NonEmpty([j \in DOMAIN fs |-> FlushedFile(fs[j], gone)])
  PROVE  /\ FilesOK(new)
         /\ Articles(new) = {x \in Articles(fs) : Named(x) \notin gone}
         /\ AllEnough(fs) => AllEnough(new)
<1> DEFINE all == [j \in DOMAIN fs |-> FlushedFile(fs[j], gone)]
<1>1. DOMAIN all = DOMAIN fs /\ \A j \in DOMAIN fs : all[j] = FlushedFile(fs[j], gone)
  OBVIOUS
<1>2. new = NonEmpty(all)
  OBVIOUS
<1> HIDE DEF all
<1>3. \A i \in DOMAIN fs :
        /\ FileOK(all[i]) /\ (Enough(fs[i]) => Enough(all[i]))
        /\ \A p \in DOMAIN all[i].parts : all[i].parts[p].arts # {}
        /\ \A x : x \in ArticlesIn(all[i]) <=> x \in ArticlesIn(fs[i]) /\ Named(x) \notin gone
  <2> TAKE i \in DOMAIN fs
  <2>1. FileOK(fs[i]) /\ all[i] = FlushedFile(fs[i], gone)
    BY <1>1 DEF FilesOK
  <2> QED
    BY <2>1, FlushedFileIs
<1>4. AllEnough(fs) => AllEnough(all)
  BY <1>1, <1>3 DEF AllEnough
<1> QED
  BY <1>1, <1>2, <1>3, <1>4, LessFiles

LEMMA ReadFilesIs ==
  ASSUME NEW fs, FilesOK(fs), NEW servers
  PROVE  /\ FilesOK(ReadFiles(fs, servers)) /\ AllEnough(ReadFiles(fs, servers))
         /\ Articles(ReadFiles(fs, servers)) =
              {x \in Articles(fs) : Named(x) \notin [server : Server \ servers, num : Number]}
<1> DEFINE all == [j \in DOMAIN fs |-> ReadFile(fs[j], servers)]
           gone == [server : Server \ servers, num : Number]
<1>1. DOMAIN all = DOMAIN fs /\ \A j \in DOMAIN fs : all[j] = ReadFile(fs[j], servers)
  OBVIOUS
<1>2. ReadFiles(fs, servers) = NonEmpty(all)
  BY DEF ReadFiles
<1> HIDE DEF all
<1>3. \A i \in DOMAIN fs :
        /\ FileOK(all[i]) /\ Enough(all[i])
        /\ \A p \in DOMAIN all[i].parts : all[i].parts[p].arts # {}
        /\ \A x : x \in ArticlesIn(all[i]) <=> x \in ArticlesIn(fs[i]) /\ Named(x) \notin gone
  <2> TAKE i \in DOMAIN fs
  <2>1. FileOK(fs[i]) /\ all[i] = ReadFile(fs[i], servers)
    BY <1>1 DEF FilesOK
  <2> QED
    BY <2>1, ReadFileIs
<1> HIDE DEF gone
<1>4. AllEnough(all)
  BY <1>1, <1>3 DEF AllEnough
<1>5. /\ FilesOK(NonEmpty(all))
      /\ Articles(NonEmpty(all)) = {x \in Articles(fs) : Named(x) \notin gone}
      /\ AllEnough(all) => AllEnough(NonEmpty(all))
  BY <1>1, <1>3, LessFiles
<1> QED
  BY <1>2, <1>4, <1>5 DEF gone

\* additem() adds one article.
LEMMA AddedIs ==
  ASSUME NEW fs, FilesOK(fs), NEW m \in Msg, NEW a \in ServerArticle
  PROVE  /\ FilesOK(Added(fs, m, a))
         /\ Articles(Added(fs, m, a)) = Articles(fs) \cup {Carried(a, m)}
         /\ AllEnough(fs) => AllEnough(Added(fs, m, a))
<1> DEFINE fits == {i \in DOMAIN fs : Fits(fs[i], m)}
<1>1. DOMAIN fs = 1 .. Len(fs) /\ Len(fs) \in Nat /\ fs \in Seq(File)
  BY LenProperties DEF FilesOK
<1>2. CASE fits # {}
  <2>1. Min(fits) \in fits
    <3>1. fits \in SUBSET Nat
      BY <1>1
    <3>2. \E x \in fits : \A y \in fits : x <= y
      BY <1>2, <3>1, LeastExists
    <3> QED
      BY <3>2 DEF Min
  <2>2. Added(fs, m, a) = [fs EXCEPT ![Min(fits)] = WithArticle(fs[Min(fits)], m, a)]
    BY <1>2 DEF Added
  <2> DEFINE i == Min(fits)
             g == WithArticle(fs[i], m, a)
             new == Added(fs, m, a)
  <2>3. i \in DOMAIN fs /\ Fits(fs[i], m)
    BY <2>1
  <2> HIDE DEF fits, i
  <2>4. FileOK(fs[i]) /\ NotEmpty(fs[i]) /\ \A p \in DOMAIN fs[i].parts : fs[i].parts[p].arts # {}
    BY <2>3 DEF FilesOK
  <2>5. /\ FileOK(g) /\ NotEmpty(g) /\ (Enough(fs[i]) => Enough(g))
        /\ \A p \in DOMAIN g.parts : g.parts[p].arts # {}
        /\ ArticlesIn(g) = ArticlesIn(fs[i]) \cup {Carried(a, m)}
    BY <2>3, <2>4, WithArticleIs
  <2>6. new = [fs EXCEPT ![i] = g]
    BY <2>2 DEF i
  <2> HIDE DEF g, new
  <2>7. new \in Seq(File)
    BY <1>1, <2>3, <2>5, <2>6, ExceptSeq DEF FileOK
  <2>8. DOMAIN new = DOMAIN fs /\ new[i] = g /\ \A j \in DOMAIN fs : j # i => new[j] = fs[j]
    BY <1>1, <2>3, <2>6
  <2>9. FilesOK(new)
    BY <2>5, <2>7, <2>8 DEF FilesOK
  <2>10. Articles(new) = Articles(fs) \cup {Carried(a, m)}
    BY <2>3, <2>5, <2>8 DEF Articles
  <2>11. AllEnough(fs) => AllEnough(new)
    BY <2>3, <2>5, <2>8 DEF AllEnough
  <2> QED
    BY <2>9, <2>10, <2>11 DEF new
<1>3. CASE fits = {}
  <2> DEFINE f == NewFile(KeyOf[m])
             g == WithArticle(f, m, a)
             new == Added(fs, m, a)
             n == Len(fs) + 1
  <2>1. new = Append(fs, g)
    BY <1>3 DEF Added
  <2>2. FileOK(f) /\ Enough(f) /\ Fits(f, m) /\ DOMAIN f.parts = {} /\ ArticlesIn(f) = {}
    <3>1. f.key = KeyOf[m] /\ f.have = 0 /\ f.parts = [p \in {} |-> {}]
      BY DEF NewFile
    <3>2. KeyOf[m] \in Key
      BY DEF Key
    <3>3. DOMAIN f.parts = {} /\ f.parts \in [{} -> [msg : Msg, arts : SUBSET ServerArticle]]
      BY <3>1
    <3>4. f \in File
      <4> DEFINE none == [p \in {} |-> {}]
      <4>1. DOMAIN none \subseteq Part /\ none \in [DOMAIN none -> [msg : Msg, arts : SUBSET ServerArticle]]
        OBVIOUS
      <4>2. f = [key |-> KeyOf[m], have |-> 0, parts |-> none]
        BY DEF NewFile
      <4> HIDE DEF none, f
      <4>3. 0 \in Int
        OBVIOUS
      <4> QED
        BY <3>2, <4>1, <4>2, <4>3, FileMade
    <3>5. CountedParts(f) = 0
      <4>1. {p \in DOMAIN f.parts : Counted(f.key, p)} = {}
        BY <3>3
      <4> QED
        BY <4>1, FS_EmptySet DEF CountedParts
    <3> HIDE DEF f
    <3>6. FileOK(f) /\ ArticlesIn(f) = {} /\ Fits(f, m) /\ Enough(f)
      BY <3>1, <3>3, <3>4, <3>5, FS_EmptySet DEF FileOK, ArticlesIn, Fits, Enough
    <3> QED
      BY <3>3, <3>6
  <2> HIDE DEF f
  <2>3. /\ FileOK(g) /\ NotEmpty(g) /\ Enough(g)
        /\ \A p \in DOMAIN g.parts : g.parts[p].arts # {}
        /\ ArticlesIn(g) = {Carried(a, m)}
    BY <2>2, WithArticleIs
  <2> HIDE DEF g, new
  <2>4. /\ new \in Seq(File) /\ DOMAIN new = 1 .. n /\ new[n] = g
        /\ \A j \in DOMAIN fs : new[j] = fs[j]
    <3>1. /\ Append(fs, g) \in Seq(File) /\ Len(Append(fs, g)) = Len(fs) + 1
          /\ \A j \in 1 .. Len(fs) : Append(fs, g)[j] = fs[j]
          /\ Append(fs, g)[Len(fs) + 1] = g
      BY <1>1, <2>3, AppendProperties DEF FileOK
    <3>2. DOMAIN Append(fs, g) = 1 .. Len(Append(fs, g))
      BY <3>1, LenProperties
    <3> QED
      BY <1>1, <2>1, <3>1, <3>2
  <2>5. DOMAIN new = DOMAIN fs \cup {n}
    BY <1>1, <2>4
  <2>6. FilesOK(new)
    BY <2>3, <2>4, <2>5 DEF FilesOK
  <2>7. Articles(new) = Articles(fs) \cup {Carried(a, m)}
    BY <2>3, <2>4, <2>5 DEF Articles
  <2>8. AllEnough(fs) => AllEnough(new)
    BY <2>3, <2>4, <2>5 DEF AllEnough
  <2> QED
    BY <2>6, <2>7, <2>8 DEF new
<1> QED
  BY <1>2, <1>3

\* Saving forgets have, and loading counts it again.
LEMMA SavedIs ==
  ASSUME NEW fs, FilesOK(fs), NEW new, new = [i \in DOMAIN fs |-> [fs[i] EXCEPT !.have = 0]]
  PROVE  FilesOK(new) /\ Articles(new) = Articles(fs)
<1>1. DOMAIN fs = 1 .. Len(fs) /\ Len(fs) \in Nat
  BY LenProperties DEF FilesOK
<1>2. ASSUME NEW i \in DOMAIN fs
      PROVE  new[i] \in File /\ new[i].parts = fs[i].parts /\ ArticlesIn(new[i]) = ArticlesIn(fs[i])
  <2> DEFINE f == fs[i]
  <2>1. f \in File
    BY DEF FilesOK, FileOK
  <2>2. new[i] = [f EXCEPT !.have = 0]
    OBVIOUS
  <2> HIDE DEF f
  <2>3. f.key \in Key /\ f = [key |-> f.key, have |-> f.have, parts |-> f.parts]
    BY <2>1, FileIs
  <2>4. new[i] = [key |-> f.key, have |-> 0, parts |-> f.parts]
    BY <2>2, <2>3
  <2>5. [key |-> f.key, have |-> 0, parts |-> f.parts] \in File
    BY <2>1 DEF File
  <2>6. new[i] \in File /\ new[i].parts = f.parts
    BY <2>4, <2>5
  <2> QED
    BY <2>6 DEF ArticlesIn, f
<1>3. DOMAIN new = DOMAIN fs
  OBVIOUS
<1>4. new \in Seq(File)
  <2>1. new \in [1 .. Len(fs) -> File]
    BY <1>1, <1>2
  <2> QED
    BY <1>1, <2>1, IsASeq
<1>5. FilesOK(new)
  <2>1. \A i \in DOMAIN fs : /\ IsFiniteSet(DOMAIN fs[i].parts) /\ NotEmpty(fs[i])
                             /\ \A p \in DOMAIN fs[i].parts : fs[i].parts[p].arts # {}
    BY DEF FilesOK, FileOK
  <2>2. \A i \in DOMAIN new : /\ FileOK(new[i]) /\ NotEmpty(new[i])
                              /\ \A p \in DOMAIN new[i].parts : new[i].parts[p].arts # {}
    BY ONLY <1>2, <1>3, <2>1 DEF FileOK, NotEmpty
  <2> QED
    BY ONLY <1>4, <2>2 DEF FilesOK
<1> QED
  BY <1>2, <1>3, <1>5 DEF Articles

\* The files before the one that a cut has damaged.
LEMMA FirstFiles ==
  ASSUME NEW fs, FilesOK(fs), NEW k \in 1 .. Len(fs)
  PROVE  FilesOK(SubSeq(fs, 1, k - 1)) /\ Articles(SubSeq(fs, 1, k - 1)) \subseteq Articles(fs)
<1> DEFINE new == SubSeq(fs, 1, k - 1)
<1>1. fs \in Seq(File) /\ Len(fs) \in Nat /\ DOMAIN fs = 1 .. Len(fs)
  BY LenProperties DEF FilesOK
<1>2. \A i \in 1 .. k - 1 : i \in DOMAIN fs /\ fs[i] \in File
  BY <1>1 DEF FilesOK, FileOK
<1>3. /\ new \in Seq(File)
      /\ Len(new) = IF 1 <= k - 1 THEN k - 1 - 1 + 1 ELSE 0
      /\ \A i \in 1 .. k - 1 - 1 + 1 : new[i] = fs[1 + i - 1]
  BY <1>1, <1>2, SubSeqProperties
<1> HIDE DEF new
<1>4. DOMAIN new = 1 .. k - 1
  BY <1>1, <1>3, LenProperties
<1>5. \A i \in 1 .. k - 1 : new[i] = fs[i]
  BY <1>1, <1>3
<1>6. FilesOK(new)
  BY <1>2, <1>3, <1>4, <1>5 DEF FilesOK
<1>7. Articles(new) \subseteq Articles(fs)
  BY <1>2, <1>4, <1>5 DEF Articles
<1> QED
  BY <1>6, <1>7 DEF new

\* There are finitely many parts.
LEMMA PartsCounted ==
  ASSUME NEW fs, FilesOK(fs)
  PROVE  NumParts(fs) \in Nat
<1> DEFINE F == [i \in DOMAIN fs |-> {i} \X DOMAIN fs[i].parts]
           sets == {{i} \X DOMAIN fs[i].parts : i \in DOMAIN fs}
<1>1. IsFiniteSet(DOMAIN fs)
  <2>1. DOMAIN fs = 1 .. Len(fs) /\ Len(fs) \in Nat
    BY LenProperties DEF FilesOK
  <2> QED
    BY <2>1, FS_Interval
<1>2. F \in Surjection(DOMAIN fs, sets)
  BY DEF Surjection
<1>3. IsFiniteSet(sets)
  <2> HIDE DEF F, sets
  <2> QED
    BY <1>1, <1>2, FS_Surjection
<1>4. \A T \in sets : IsFiniteSet(T)
  <2> SUFFICES ASSUME NEW i \in DOMAIN fs PROVE IsFiniteSet({i} \X DOMAIN fs[i].parts)
    OBVIOUS
  <2>1. IsFiniteSet({i}) /\ IsFiniteSet(DOMAIN fs[i].parts)
    BY FS_Singleton DEF FilesOK, FileOK
  <2> QED
    BY <2>1, FS_Product
<1>5. IsFiniteSet(UNION sets)
  <2> HIDE DEF sets
  <2> QED
    BY <1>3, <1>4, FS_UNION
<1> QED
  BY <1>5, FS_CardinalityType DEF NumParts

-----------------------------------------------------------------------------
(* Counting articles. *)

OfServer(A, s) == {a \in A : a.server = s}
NumsIn(A, s) == {a.num : a \in OfServer(A, s)}

\* A server has as many articles as it has numbers.
LEMMA ServerCount ==
  ASSUME NEW A, ArticlesOK(A), NEW s
  PROVE  /\ IsFiniteSet(NumsIn(A, s)) /\ IsFiniteSet(OfServer(A, s))
         /\ Cardinality(NumsIn(A, s)) = Cardinality(OfServer(A, s))
         /\ Cardinality(NumsIn(A, s)) \in Nat
<1> DEFINE S == OfServer(A, s)
           T == NumsIn(A, s)
           F == [a \in S |-> a.num]
<1>1. IsFiniteSet(S)
  BY FS_Subset DEF OfServer, ArticlesOK
<1>2. F \in Surjection(S, T)
  BY DEF Surjection, NumsIn
<1>3. \A a, b \in S : a.num = b.num => a = b
  BY DEF OfServer, ArticlesOK
<1>4. F \in Injection(S, T)
  BY <1>2, <1>3 DEF Injection, Surjection, IsInjective
<1> HIDE DEF S, T, F
<1>5. IsFiniteSet(T) /\ Cardinality(T) = Cardinality(S)
  BY <1>1, <1>2, <1>4, FS_Surjection
<1> QED
  BY <1>1, <1>5, FS_CardinalityType DEF S, T

\* An article with a number its server does not have yet.
LEMMA OneMore ==
  ASSUME NEW A, ArticlesOK(A), NEW x \in Store!Article,
         \A b \in A : b.server # x.server \/ b.num # x.num
  PROVE  /\ ArticlesOK(A \cup {x})
         /\ \A s : s # x.server => NumsIn(A \cup {x}, s) = NumsIn(A, s)
         /\ Cardinality(NumsIn(A \cup {x}, x.server)) = Cardinality(NumsIn(A, x.server)) + 1
<1>1. ArticlesOK(A \cup {x})
  <2>1. IsFiniteSet(A \cup {x})
    BY FS_AddElement DEF ArticlesOK
  <2> QED
    BY <2>1 DEF ArticlesOK
<1>2. \A s : s # x.server => OfServer(A \cup {x}, s) = OfServer(A, s)
  BY DEF OfServer
<1>3. NumsIn(A \cup {x}, x.server) = NumsIn(A, x.server) \cup {x.num}
  BY DEF OfServer, NumsIn
<1>4. x.num \notin NumsIn(A, x.server)
  BY DEF OfServer, NumsIn
<1>5. Cardinality(NumsIn(A, x.server) \cup {x.num}) = Cardinality(NumsIn(A, x.server)) + 1
  BY <1>4, ServerCount, FS_AddElement
<1> QED
  BY <1>1, <1>2, <1>3, <1>5 DEF NumsIn

\* A server loses numbers.
LEMMA SomeLess ==
  ASSUME NEW A, ArticlesOK(A), NEW s, NEW B, B \subseteq A, \A a \in A \ B : a.server = s
  PROVE  /\ ArticlesOK(B)
         /\ \A t : t # s => NumsIn(B, t) = NumsIn(A, t)
         /\ Cardinality(A) - Cardinality(B) = Cardinality(NumsIn(A, s)) - Cardinality(NumsIn(B, s))
<1>1. IsFiniteSet(A) /\ IsFiniteSet(B)
  BY FS_Subset DEF ArticlesOK
<1>2. ArticlesOK(B)
  BY <1>1 DEF ArticlesOK
<1>3. \A t : t # s => OfServer(B, t) = OfServer(A, t)
  BY DEF OfServer
<1> DEFINE As == OfServer(A, s)
           Bs == OfServer(B, s)
<1>4. A \ As = B \ Bs /\ A \cap As = As /\ B \cap Bs = Bs
  BY DEF OfServer
<1>5. /\ Cardinality(NumsIn(A, s)) = Cardinality(As) /\ Cardinality(NumsIn(B, s)) = Cardinality(Bs)
      /\ Cardinality(As) \in Nat /\ Cardinality(Bs) \in Nat
  BY <1>2, ServerCount
<1> HIDE DEF As, Bs
<1>6. Cardinality(A \ As) = Cardinality(A) - Cardinality(As)
  <2>1. Cardinality(A \ As) = Cardinality(A) - Cardinality(A \cap As)
    BY <1>1, FS_Difference
  <2> QED
    BY <1>4, <2>1
<1>7. Cardinality(B \ Bs) = Cardinality(B) - Cardinality(Bs)
  <2>1. Cardinality(B \ Bs) = Cardinality(B) - Cardinality(B \cap Bs)
    BY <1>1, FS_Difference
  <2> QED
    BY <1>4, <2>1
<1>8. Cardinality(A) \in Nat /\ Cardinality(B) \in Nat
  BY <1>1, FS_CardinalityType
<1>9. Cardinality(A) - Cardinality(B) = Cardinality(As) - Cardinality(Bs)
  BY <1>4, <1>5, <1>6, <1>7, <1>8
<1>10. Cardinality(A) - Cardinality(B) = Cardinality(NumsIn(A, s)) - Cardinality(NumsIn(B, s))
  BY <1>5, <1>9
<1> QED
  BY <1>2, <1>3, <1>10 DEF NumsIn

\* Articles that are taken away do not make any server's numbers more.
LEMMA NotMore ==
  ASSUME NEW A, ArticlesOK(A), NEW B, B \subseteq A, NEW s
  PROVE  ArticlesOK(B) /\ Cardinality(NumsIn(B, s)) <= Cardinality(NumsIn(A, s))
<1>1. ArticlesOK(B)
  BY FS_Subset DEF ArticlesOK
<1>2. NumsIn(B, s) \subseteq NumsIn(A, s)
  BY DEF NumsIn, OfServer
<1> QED
  BY <1>1, <1>2, ServerCount, FS_Subset

LEMMA NoNumbers == \A s : NumsIn({}, s) = {} /\ Cardinality(NumsIn({}, s)) = 0
<1>1. \A s : NumsIn({}, s) = {}
  BY DEF NumsIn, OfServer
<1> QED
  BY <1>1, FS_EmptySet

LEMMA NumsAre == \A fs, s : NumsOf(fs, s) = NumsIn(Articles(fs), s)
  BY DEF NumsOf, NumsIn, OfServer

-----------------------------------------------------------------------------
(* The invariant holds. *)

LEMMA InvInit == Init => IInv
<1> SUFFICES ASSUME Init PROVE IInv
  OBVIOUS
<1>1. /\ files = <<>> /\ disk.files = <<>> /\ info = NoInfo /\ disk.info = NoInfo
      /\ ~open /\ ~disk.exists /\ ~saveit /\ ~fileread /\ ~cut /\ totalnum = 0 /\ cfg = Server
  BY DEF Init, NoFile
<1>2. Reset \in [high : ULong, low : ULong, num : Nat] /\ Reset.high = 0 /\ Reset.num = 0
  BY Numbers DEF Reset
<1>3. NoInfo \in [Server -> [high : ULong, low : ULong, num : Nat]]
  BY <1>2 DEF NoInfo
<1>4. Types
  <2>1. /\ FilesOK(files) /\ FilesOK(disk.files)
        /\ ArticlesOK(Articles(files)) /\ ArticlesOK(Articles(disk.files))
    BY <1>1, NoFiles
  <2>2. info \in [Server -> [high : ULong, low : ULong, num : Nat]] /\ disk.info \in [Server -> [high : ULong, low : ULong, num : Nat]]
    BY ONLY <1>1, <1>3
  <2>3. open \in BOOLEAN /\ saveit \in BOOLEAN /\ fileread \in BOOLEAN /\ cut \in BOOLEAN /\ disk.exists \in BOOLEAN
    BY DEF Init, NoFile
  <2> QED
    BY <1>1, <2>1, <2>2, <2>3 DEF Types
<1>5. Counts
  BY <1>1 DEF Counts
<1>6. DiskCounts
  <2>1. \A s \in Server : NoInfo[s].high = 0 /\ NoInfo[s].num = 0
    BY <1>2 DEF NoInfo
  <2>2. Window({}, NoInfo)
    BY <2>1, Numbers DEF Window
  <2>3. NumRight(<<>>, NoInfo)
    BY <2>1, NoFiles, NoNumbers, NumsAre DEF NumRight
  <2> QED
    BY <1>1, <2>2, <2>3, NoFiles DEF DiskCounts
<1>7. Unsaved
  BY <1>1 DEF Unsaved
<1>8. HaveCovers
  BY <1>1, EmptySeq DEF HaveCovers
<1> QED
  BY <1>4, <1>5, <1>6, <1>7, <1>8 DEF IInv

LEMMA CoversIs == HaveCovers <=> AllEnough(files)
  BY DEF HaveCovers, AllEnough, Enough

InfoType == [high : ULong, low : ULong, num : Nat]

\* Raising high and lowering low.
LEMMA SeenIs ==
  ASSUME NEW i \in InfoType, NEW n \in Number
  PROVE  /\ Seen(i, n) \in InfoType
         /\ Seen(i, n).high \in {i.high, n} /\ Seen(i, n).high >= i.high /\ Seen(i, n).high >= n
         /\ Seen(i, n).low \in {i.low, n} /\ Seen(i, n).low <= i.low /\ Seen(i, n).low <= n
         /\ Seen(i, n).num = i.num + 1
<1>1. i.high \in ULong /\ i.low \in ULong /\ i.num \in Nat /\ n \in ULong
  BY Numbers DEF InfoType
<1>2. i.high \in Nat /\ i.low \in Nat /\ n \in Nat
  BY <1>1, Numbers
<1>3. /\ Max({i.high, n}) \in {i.high, n} /\ Max({i.high, n}) >= i.high /\ Max({i.high, n}) >= n
  <2>1. \E x \in {i.high, n} : \A y \in {i.high, n} : x >= y
    BY <1>2
  <2> QED
    BY <2>1 DEF Max
<1>4. /\ Min({i.low, n}) \in {i.low, n} /\ Min({i.low, n}) <= i.low /\ Min({i.low, n}) <= n
  <2>1. \E x \in {i.low, n} : \A y \in {i.low, n} : x <= y
    BY <1>2
  <2> QED
    BY <2>1 DEF Min
<1> DEFINE hi == Max({i.high, n})
           lo == Min({i.low, n})
<1>5. Seen(i, n) = [high |-> hi, low |-> lo, num |-> i.num + 1]
  BY DEF Seen
<1> HIDE DEF hi, lo
<1>6. hi \in ULong /\ lo \in ULong /\ i.num + 1 \in Nat
  BY <1>1, <1>3, <1>4 DEF hi, lo
<1> QED
  BY <1>3, <1>4, <1>5, <1>6 DEF hi, lo, InfoType

\* additem().
LEMMA AddItemKeeps ==
  ASSUME IInv, NEW s \in Server, NEW n \in Number, NEW m \in Msg, AddItem(s, n, m)
  PROVE  /\ IInv'
         /\ \E a \in Store!Article : Articles(files)' = Articles(files) \cup {a}
<1> DEFINE a == [server |-> s, num |-> n]
           x == Carried(a, m)
           A == Articles(files)
           B == Articles(files')
<1>1. /\ Types /\ Counts /\ DiskCounts /\ Unsaved /\ AllEnough(files)
  BY CoversIs DEF IInv
<1>2. /\ FilesOK(files) /\ ArticlesOK(A) /\ info \in [Server -> InfoType]
      /\ open /\ open' = open /\ saveit' = TRUE /\ fileread' = fileread /\ disk' = disk /\ cfg' = cfg /\ cut' = cut
      /\ files' = Added(files, m, a)
      /\ totalnum' = totalnum + (NumParts(files') - NumParts(files))
      /\ info[s].low > 0
      /\ info' = [info EXCEPT ![s] = Seen(info[s], n)]
      /\ \A b \in A : b.server # s \/ b.num # n
  BY <1>1 DEF Types, AddItem, InfoType
<1>3. a \in ServerArticle /\ x \in Store!Article /\ x.server = s /\ x.num = n
  BY DEF ServerArticle, Carried, Store!Article
<1>4. FilesOK(files') /\ B = A \cup {x} /\ AllEnough(files')
  <2> HIDE DEF a
  <2> QED
    BY <1>1, <1>2, <1>3, AddedIs
<1> HIDE DEF A, B, x, a
<1>5. /\ ArticlesOK(B)
      /\ \A t : t # s => NumsIn(B, t) = NumsIn(A, t)
      /\ Cardinality(NumsIn(B, s)) = Cardinality(NumsIn(A, s)) + 1
  BY <1>2, <1>3, <1>4, OneMore
<1>6. /\ info[s] \in InfoType
      /\ info'[s] \in InfoType
      /\ info'[s].high \in {info[s].high, n} /\ info'[s].high >= info[s].high /\ info'[s].high >= n
      /\ info'[s].low \in {info[s].low, n} /\ info'[s].low <= info[s].low /\ info'[s].low <= n
      /\ info'[s].num = info[s].num + 1
  BY <1>2, SeenIs
<1>7. info' \in [Server -> InfoType] /\ \A t \in Server : t # s => info'[t] = info[t]
  BY <1>2, <1>6
<1>8. totalnum' \in Int /\ (totalnum = NumParts(files) => totalnum' = NumParts(files'))
  <2>1. NumParts(files) \in Nat /\ NumParts(files') \in Nat
    BY <1>2, <1>4, PartsCounted
  <2> QED
    BY <1>1, <1>2, <2>1 DEF Types
<1>9. Types'
  BY <1>1, <1>2, <1>4, <1>5, <1>7, <1>8 DEF Types, InfoType, B
<1>10. Window(B, info')
  <2>1. Window(A, info)
    BY <1>1, <1>2 DEF Counts, A
  <2>2. \A t \in Server : info'[t].high \in 0 .. MaxNum
    <3> TAKE t \in Server
    <3>1. info[t].high \in 0 .. MaxNum
      BY <2>1 DEF Window
    <3>2. n \in 0 .. MaxNum
      BY Numbers
    <3> QED
      BY <1>6, <1>7, <3>1, <3>2
  <2>3. ASSUME NEW b \in B
        PROVE  /\ info'[b.server].low # 0
               /\ info'[b.server].low <= b.num /\ b.num <= info'[b.server].high
    <3>1. b.server \in Server /\ b.num \in Number
      BY <1>5 DEF ArticlesOK, Store!Article
    <3>2. CASE b.server # s
      <4>1. b \in A /\ info'[b.server] = info[b.server]
        BY <1>3, <1>4, <1>7, <3>1, <3>2
      <4> QED
        BY <2>1, <4>1 DEF Window
    <3>3. CASE b.server = s
      <4>1. info'[s].low # 0 /\ n \in Nat /\ info[s].low \in Nat /\ info[s].high \in Nat
        BY <1>2, <1>6, Numbers DEF InfoType
      <4>2. CASE b \in A
        <5>1. info[s].low <= b.num /\ b.num <= info[s].high /\ b.num \in Nat
          BY <2>1, <3>1, <3>3, <4>2, Numbers DEF Window
        <5>2. info'[s].low \in Nat /\ info'[s].high \in Nat
          BY <1>6, <4>1
        <5> QED
          BY <1>6, <3>3, <4>1, <5>1, <5>2
      <4>3. CASE b = x
        BY <1>3, <1>6, <3>3, <4>1, <4>3
      <4> QED
        BY <1>4, <4>2, <4>3
    <3> QED
      BY <3>2, <3>3
  <2> QED
    BY <2>2, <2>3 DEF Window
<1>11. /\ NumCovers(files', info')
       /\ NumRight(files, info) => NumRight(files', info')
  <2>1. ASSUME NEW t \in Server
        PROVE  /\ info[t].num >= Cardinality(NumsIn(A, t)) => info'[t].num >= Cardinality(NumsIn(B, t))
               /\ info[t].num = Cardinality(NumsIn(A, t)) => info'[t].num = Cardinality(NumsIn(B, t))
    <3>1. Cardinality(NumsIn(A, t)) \in Nat /\ info[t].num \in Nat
      BY <1>2, ServerCount DEF InfoType
    <3>2. CASE t = s
      BY <1>5, <1>6, <3>1, <3>2
    <3>3. CASE t # s
      BY <1>5, <1>7, <3>1, <3>3
    <3> QED
      BY <3>2, <3>3
  <2>2. NumCovers(files, info)
    BY <1>1, <1>2 DEF Counts
  <2> QED
    BY <2>1, <2>2, NumsAre DEF NumCovers, NumRight, A, B
<1>12. Counts'
  <2>1. ~cut => NumRight(files, info) /\ totalnum = NumParts(files)
    BY <1>1, <1>2 DEF Counts
  <2> QED
    BY <1>2, <1>8, <1>10, <1>11, <2>1 DEF Counts, B
<1>13. DiskCounts'
  BY <1>1, <1>2 DEF DiskCounts
<1>14. Unsaved'
  BY <1>1, <1>2 DEF Unsaved
<1>15. HaveCovers'
  BY <1>4 DEF HaveCovers, AllEnough, Enough
<1> QED
  BY <1>3, <1>4, <1>9, <1>12, <1>13, <1>14, <1>15 DEF IInv, A, B

\* What every flush does to the files: the range that flush() is left with after
\* cutting it down to low .. high still holds all articles it was asked to erase,
\* also where low - 1 or high + 1 would wrap.
LEMMA FlushIs ==
  ASSUME IInv, NEW s \in Server, NEW N \in SUBSET ULong, Flush(s, N)
  PROVE  LET A == Articles(files)
             B == Articles(files')
         IN /\ open /\ open' = open /\ fileread' = fileread /\ disk' = disk /\ cfg' = cfg /\ cut' = cut
            /\ FilesOK(files') /\ AllEnough(files') /\ ArticlesOK(A) /\ ArticlesOK(B) /\ B \subseteq A
            /\ \A x \in A : x \in B <=> ~(x.server = s /\ x.num \in N)
            /\ \A t \in Server : t # s => NumsIn(B, t) = NumsIn(A, t)
            /\ NumLeft(s) \in Nat /\ NumLeft(s) >= Cardinality(NumsIn(B, s))
            /\ info[s].num = Cardinality(NumsIn(A, s)) => NumLeft(s) = Cardinality(NumsIn(B, s))
            /\ totalnum' \in Int /\ (totalnum = NumParts(files) => totalnum' = NumParts(files'))
            /\ saveit' \in BOOLEAN /\ (~saveit' => ~saveit /\ B = A)
<1> DEFINE A == Articles(files)
           B == Articles(files')
           lo == info[s].low
           hi == info[s].high
           N1 == (N \ (0 .. Pred(lo))) \ (Succ(hi) .. ULongMax)
           gone == [server : {s}, num : N1]
<1>1. /\ Types /\ Counts /\ AllEnough(files)
  BY CoversIs DEF IInv
<1>2. /\ FilesOK(files) /\ ArticlesOK(A) /\ info \in [Server -> InfoType]
      /\ open /\ open' = open /\ fileread' = fileread /\ disk' = disk /\ cfg' = cfg /\ cut' = cut
      /\ totalnum \in Int /\ saveit \in BOOLEAN
      /\ files' = NonEmpty([j \in DOMAIN files |-> FlushedFile(files[j], gone)])
      /\ totalnum' = totalnum - PartsErased(files, files')
      /\ saveit' = (saveit \/ B # A)
  BY <1>1 DEF Types, Flush, InfoType
<1>3. Window(A, info)
  BY <1>1, <1>2 DEF Counts
<1> HIDE DEF A, B, N1, gone, lo, hi
<1>4. FilesOK(files') /\ AllEnough(files') /\ B = {x \in A : Named(x) \notin gone}
  BY <1>1, <1>2, FlushedFilesIs DEF A, B
<1>5. ASSUME NEW x \in A PROVE Named(x) \in gone <=> x.server = s /\ x.num \in N
  <2>1. x.server \in Server /\ x.num \in Number /\ x.num \in ULong
    BY <1>2, Numbers DEF ArticlesOK, Store!Article
  <2>2. Named(x) \in gone <=> x.server = s /\ x.num \in N1
    BY DEF gone, Named
  <2>3. ASSUME x.server = s, x.num \in N PROVE x.num \in N1
    <3>1. lo # 0 /\ lo <= x.num /\ x.num <= hi /\ hi \in 0 .. MaxNum /\ lo \in 0 .. ULongMax
      BY <1>2, <1>3, <2>3, Numbers DEF Window, InfoType, lo, hi
    <3>2. ULongMax \in Nat /\ MaxNum \in Nat /\ ULongMax = MaxNum + 1 /\ x.num \in Nat
      BY <2>1, Numbers
    <3>3. Pred(lo) = lo - 1
      <4>1. lo \in 1 .. ULongMax
        BY <3>1, <3>2
      <4>2. (lo + ULongMax) % (ULongMax + 1) = lo - 1
        BY ONLY <3>2, <4>1
      <4> QED
        BY <4>2 DEF Pred
    <3>4. Succ(hi) = hi + 1
      <4>1. hi \in 0 .. ULongMax - 1
        BY <3>1, <3>2
      <4>2. (hi + 1) % (ULongMax + 1) = hi + 1
        BY ONLY <3>2, <4>1
      <4> QED
        BY <4>2 DEF Succ
    <3>5. x.num \notin 0 .. lo - 1 /\ x.num \notin hi + 1 .. ULongMax
      BY <3>1, <3>2
    <3> QED
      BY <2>3, <3>3, <3>4, <3>5 DEF N1
  <2>4. N1 \subseteq N
    BY DEF N1
  <2> QED
    BY <2>2, <2>3, <2>4
<1>6. B \subseteq A /\ \A x \in A : x \in B <=> ~(x.server = s /\ x.num \in N)
  BY <1>4, <1>5
<1>7. /\ ArticlesOK(B)
      /\ \A t : t # s => NumsIn(B, t) = NumsIn(A, t)
      /\ Cardinality(A) - Cardinality(B) = Cardinality(NumsIn(A, s)) - Cardinality(NumsIn(B, s))
  <2>1. ArticlesOK(A) /\ B \subseteq A /\ \A a \in A \ B : a.server = s
    BY <1>2, <1>6
  <2> QED
    BY ONLY <2>1, SomeLess
<1>8. /\ NumLeft(s) \in Nat /\ NumLeft(s) >= Cardinality(NumsIn(B, s))
      /\ info[s].num = Cardinality(NumsIn(A, s)) => NumLeft(s) = Cardinality(NumsIn(B, s))
  <2>1. NumLeft(s) = info[s].num - (Cardinality(NumsIn(A, s)) - Cardinality(NumsIn(B, s)))
    BY <1>7 DEF NumLeft, A, B
  <2>2. info[s].num \in Nat /\ Cardinality(NumsIn(A, s)) \in Nat /\ Cardinality(NumsIn(B, s)) \in Nat
    BY <1>2, <1>7, ServerCount DEF InfoType
  <2>3. info[s].num >= Cardinality(NumsIn(A, s))
    BY <1>1, <1>2, NumsAre DEF Counts, NumCovers, A
  <2> QED
    BY <2>1, <2>2, <2>3
<1>9. totalnum' \in Int /\ (totalnum = NumParts(files) => totalnum' = NumParts(files'))
  <2>1. NumParts(files) \in Nat /\ NumParts(files') \in Nat
    BY <1>2, <1>4, PartsCounted
  <2> QED
    BY <1>2, <2>1 DEF PartsErased
<1>10. saveit' \in BOOLEAN /\ (~saveit' => ~saveit /\ B = A)
  BY <1>2
<1> QED
  BY <1>2, <1>4, <1>6, <1>7, <1>8, <1>9, <1>10 DEF A, B

\* A flush after which the server's window is right again.
LEMMA FlushKeeps ==
  ASSUME IInv, NEW s \in Server, NEW N \in SUBSET ULong, Flush(s, N), NEW i \in InfoType,
         info' = [info EXCEPT ![s] = i], i.high \in 0 .. MaxNum,
         \A b \in Articles(files') : b.server = s => i.low # 0 /\ i.low <= b.num /\ b.num <= i.high,
         i.num >= Cardinality(NumsIn(Articles(files'), s)),
         info[s].num = Cardinality(NumsIn(Articles(files), s)) => i.num = Cardinality(NumsIn(Articles(files'), s))
  PROVE  IInv' /\ Store!ASFlush
<1> DEFINE A == Articles(files)
           B == Articles(files')
<1>1. /\ Types /\ Counts /\ DiskCounts /\ Unsaved
  BY DEF IInv
<1>2. /\ open /\ open' = open /\ fileread' = fileread /\ disk' = disk /\ cfg' = cfg /\ cut' = cut
      /\ FilesOK(files') /\ AllEnough(files') /\ ArticlesOK(A) /\ ArticlesOK(B) /\ B \subseteq A
      /\ \A x \in A : x \in B <=> ~(x.server = s /\ x.num \in N)
      /\ \A t \in Server : t # s => NumsIn(B, t) = NumsIn(A, t)
      /\ totalnum' \in Int /\ (totalnum = NumParts(files) => totalnum' = NumParts(files'))
      /\ saveit' \in BOOLEAN /\ (~saveit' => ~saveit /\ B = A)
  BY FlushIs
<1>3. /\ info \in [Server -> InfoType]
      /\ info' \in [Server -> InfoType] /\ info'[s] = i /\ \A t \in Server : t # s => info'[t] = info[t]
  BY <1>1 DEF Types, InfoType
<1>4. Types'
  BY <1>1, <1>2, <1>3 DEF Types, InfoType
<1>5. Window(B, info')
  <2>1. Window(A, info)
    BY <1>1, <1>2 DEF Counts
  <2>2. ASSUME NEW b \in B
        PROVE  /\ info'[b.server].low # 0
               /\ info'[b.server].low <= b.num /\ b.num <= info'[b.server].high
    <3>1. b.server \in Server /\ b \in A
      BY <1>2 DEF ArticlesOK, Store!Article
    <3> QED
      BY <1>3, <2>1, <3>1 DEF Window
  <2> QED
    BY <1>3, <2>1, <2>2 DEF Window
<1>6. /\ NumCovers(files', info')
      /\ NumRight(files, info) => NumRight(files', info')
  <2>1. ASSUME NEW t \in Server
        PROVE  /\ info[t].num >= Cardinality(NumsIn(A, t)) => info'[t].num >= Cardinality(NumsIn(B, t))
               /\ info[t].num = Cardinality(NumsIn(A, t)) => info'[t].num = Cardinality(NumsIn(B, t))
    BY <1>2, <1>3
  <2>2. NumCovers(files, info)
    BY <1>1, <1>2 DEF Counts
  <2> HIDE DEF A, B
  <2> QED
    BY <2>1, <2>2, NumsAre DEF NumCovers, NumRight, A, B
<1>7. Counts'
  <2>1. ~cut => NumRight(files, info) /\ totalnum = NumParts(files)
    BY <1>1, <1>2 DEF Counts
  <2> QED
    BY <1>2, <1>5, <1>6, <2>1 DEF Counts
<1>8. DiskCounts'
  BY <1>1, <1>2 DEF DiskCounts
<1>9. Unsaved'
  BY <1>1, <1>2 DEF Unsaved
<1>10. HaveCovers'
  BY <1>2 DEF HaveCovers, AllEnough, Enough
<1>11. Store!ASFlush
  <2>1. \A a \in A \ B : a.server = s
    BY <1>2
  <2>2. \A a \in A \ B, b \in B : a.server # b.server \/ a.num # b.num
    BY <1>2
  <2> QED
    BY <1>2, <2>1, <2>2 DEF Store!ASFlush
<1> QED
  BY <1>4, <1>7, <1>8, <1>9, <1>10, <1>11 DEF IInv

\* Setting low and num of a server.
WithLow(inf, s, l, n) == [inf EXCEPT ![s].low = l, ![s].num = n]
WithInfo(inf, s, i) == [inf EXCEPT ![s] = i]

LEMMA InfoSet ==
  ASSUME NEW inf \in [Server -> InfoType], NEW s \in Server, NEW l, NEW n
  PROVE  WithLow(inf, s, l, n) = WithInfo(inf, s, [high |-> inf[s].high, low |-> l, num |-> n])
<1> DEFINE one == [inf EXCEPT ![s].low = l]
           two == [one EXCEPT ![s].num = n]
           r == [high |-> inf[s].high, low |-> l, num |-> n]
<1>1. inf[s] = [high |-> inf[s].high, low |-> inf[s].low, num |-> inf[s].num]
  BY DEF InfoType
<1>2. [inf[s] EXCEPT !.low = l] = [high |-> inf[s].high, low |-> l, num |-> inf[s].num]
  BY <1>1
<1>3. one = [inf EXCEPT ![s] = [high |-> inf[s].high, low |-> l, num |-> inf[s].num]]
  BY <1>2
<1> HIDE DEF one
<1>4. DOMAIN one = Server /\ one[s] = [high |-> inf[s].high, low |-> l, num |-> inf[s].num]
  BY <1>3
<1>5. [one[s] EXCEPT !.num = n] = r
  BY <1>4
<1>6. two = [one EXCEPT ![s] = r]
  BY <1>5
<1> HIDE DEF r, two
<1>7. two = [inf EXCEPT ![s] = r]
  BY <1>3, <1>4, <1>6
<1> QED
  BY <1>7 DEF one, two, r, WithLow, WithInfo

\* flushlow().
LEMMA FlushLowKeeps ==
  ASSUME IInv, NEW s \in Server, NEW newlow \in 1 .. MaxNum, FlushLow(s, newlow)
  PROVE  IInv' /\ Store!ASFlush
<1> DEFINE N == 0 .. newlow - 1
           i == [high |-> info[s].high, low |-> newlow, num |-> NumLeft(s)]
           B == Articles(files')
<1>1. Flush(s, N) /\ info' = [info EXCEPT ![s].low = newlow, ![s].num = NumLeft(s)]
  BY DEF FlushLow
<1>2. N \in SUBSET ULong
  BY Numbers
<1>3. info \in [Server -> InfoType] /\ Window(Articles(files), info)
  BY <1>1 DEF IInv, Types, Counts, Flush, InfoType
<1>4. /\ NumLeft(s) \in Nat /\ NumLeft(s) >= Cardinality(NumsIn(B, s)) /\ ArticlesOK(B)
      /\ info[s].num = Cardinality(NumsIn(Articles(files), s)) => NumLeft(s) = Cardinality(NumsIn(B, s))
      /\ B \subseteq Articles(files)
      /\ \A x \in Articles(files) : x \in B <=> ~(x.server = s /\ x.num \in N)
  BY <1>1, <1>2, FlushIs
<1>5. info' = [info EXCEPT ![s] = i]
  <2> DEFINE n == NumLeft(s)
  <2>1. WithLow(info, s, newlow, n) = WithInfo(info, s, i)
    <3> HIDE DEF n
    <3> QED
      BY <1>3, InfoSet DEF n
  <2>2. WithLow(info, s, newlow, n) = [info EXCEPT ![s].low = newlow, ![s].num = n]
    BY DEF WithLow
  <2> QED
    BY <1>1, <2>1, <2>2 DEF WithInfo
<1>6. i \in InfoType /\ i.high \in 0 .. MaxNum
  BY <1>3, <1>4, Numbers DEF InfoType, Window
<1>7. ASSUME NEW b \in B, b.server = s
      PROVE  newlow # 0 /\ newlow <= b.num /\ b.num <= info[s].high
  <2>1. b \in Articles(files) /\ b.num \notin N /\ b.num \in Nat
    BY <1>4, <1>7, Numbers DEF ArticlesOK, Store!Article
  <2>2. b.num <= info[s].high
    BY <1>3, <1>7, <2>1 DEF Window
  <2>3. newlow \in Nat
    BY Numbers
  <2> QED
    BY <2>1, <2>2, <2>3
<1>8. i.high = info[s].high /\ i.low = newlow /\ i.num = NumLeft(s)
  OBVIOUS
<1> HIDE DEF N, i
<1>9. \A b \in B : b.server = s => i.low # 0 /\ i.low <= b.num /\ b.num <= i.high
  BY <1>7, <1>8
<1>10. /\ i.num >= Cardinality(NumsIn(B, s))
       /\ info[s].num = Cardinality(NumsIn(Articles(files), s)) => i.num = Cardinality(NumsIn(B, s))
  BY <1>4, <1>8
<1> QED
  BY ONLY IInv, s \in Server, <1>1, <1>2, <1>5, <1>6, <1>9, <1>10, FlushKeeps

\* The flush that follows LISTGROUP.
LEMMA FlushMissingKeeps ==
  ASSUME IInv, NEW s \in Server, NEW existing \in SUBSET Number, NEW low \in 0 .. MaxNum,
         FlushMissing(s, existing, low)
  PROVE  IInv' /\ Store!ASFlush
<1> DEFINE N == ULong \ existing
           l == IF existing = {} THEN low ELSE Min(existing)
           i == [high |-> info[s].high, low |-> l, num |-> NumLeft(s)]
           B == Articles(files')
<1>1. Flush(s, N) /\ info' = [info EXCEPT ![s].low = l, ![s].num = NumLeft(s)]
  BY DEF FlushMissing
<1>2. N \in SUBSET ULong
  OBVIOUS
<1>3. info \in [Server -> InfoType] /\ Window(Articles(files), info)
  BY <1>1 DEF IInv, Types, Counts, Flush, InfoType
<1>4. /\ NumLeft(s) \in Nat /\ NumLeft(s) >= Cardinality(NumsIn(B, s)) /\ ArticlesOK(B)
      /\ info[s].num = Cardinality(NumsIn(Articles(files), s)) => NumLeft(s) = Cardinality(NumsIn(B, s))
      /\ B \subseteq Articles(files)
      /\ \A x \in Articles(files) : x \in B <=> ~(x.server = s /\ x.num \in N)
  BY <1>1, <1>2, FlushIs
<1>5. l \in ULong /\ (existing # {} => l \in existing /\ \A n \in existing : l <= n)
  <2>1. CASE existing = {}
    BY <2>1, Numbers
  <2>2. CASE existing # {}
    <3>1. existing \in SUBSET Nat
      BY Numbers
    <3>2. \E x \in existing : \A y \in existing : x <= y
      BY <2>2, <3>1, LeastExists
    <3>3. Min(existing) \in existing /\ \A n \in existing : Min(existing) <= n
      BY <3>2 DEF Min
    <3>4. l = Min(existing)
      BY <2>2
    <3> HIDE DEF l
    <3>5. l \in existing
      BY <3>3, <3>4
    <3>6. l \in ULong
      BY <3>5, Numbers
    <3> QED
      BY <2>2, <3>3, <3>4, <3>5, <3>6
  <2> QED
    BY <2>1, <2>2
<1> HIDE DEF l
<1>6. info' = [info EXCEPT ![s] = i]
  <2> DEFINE n == NumLeft(s)
  <2>1. WithLow(info, s, l, n) = WithInfo(info, s, i)
    <3> HIDE DEF n
    <3> QED
      BY <1>3, InfoSet DEF n
  <2>2. WithLow(info, s, l, n) = [info EXCEPT ![s].low = l, ![s].num = n]
    BY DEF WithLow
  <2> QED
    BY <1>1, <2>1, <2>2 DEF WithInfo
<1>7. i \in InfoType /\ i.high \in 0 .. MaxNum
  BY <1>3, <1>4, <1>5, Numbers DEF InfoType, Window
<1>8. ASSUME NEW b \in B, b.server = s
      PROVE  l # 0 /\ l <= b.num /\ b.num <= info[s].high
  <2>1. b \in Articles(files) /\ b.num \in existing
    <3>1. b.num \in ULong
      BY <1>4, Numbers DEF ArticlesOK, Store!Article
    <3> QED
      BY <1>4, <1>8, <3>1
  <2>2. b.num <= info[s].high
    BY <1>3, <1>8, <2>1 DEF Window
  <2>3. l \in existing /\ l <= b.num
    BY <1>5, <2>1
  <2>4. l # 0
    BY <2>3, Numbers
  <2> QED
    BY <2>2, <2>3, <2>4
<1>9. i.high = info[s].high /\ i.low = l /\ i.num = NumLeft(s)
  OBVIOUS
<1> HIDE DEF N, i
<1>10. \A b \in B : b.server = s => i.low # 0 /\ i.low <= b.num /\ b.num <= i.high
  BY <1>8, <1>9
<1>11. /\ i.num >= Cardinality(NumsIn(B, s))
       /\ info[s].num = Cardinality(NumsIn(Articles(files), s)) => i.num = Cardinality(NumsIn(B, s))
  BY <1>4, <1>9
<1> QED
  BY ONLY IInv, s \in Server, <1>1, <1>2, <1>6, <1>7, <1>10, <1>11, FlushKeeps

\* nget -F.
LEMMA FlushServerKeeps ==
  ASSUME IInv, NEW s \in Server, FlushServer(s)
  PROVE  IInv' /\ Store!ASFlush
<1> DEFINE N == 0 .. ULongMax - 1
           B == Articles(files')
<1>1. Flush(s, N) /\ info' = [info EXCEPT ![s] = Reset]
  BY DEF FlushServer
<1>2. N \in SUBSET ULong
  BY Numbers
<1>3. /\ ArticlesOK(B) /\ B \subseteq Articles(files)
      /\ \A x \in Articles(files) : x \in B <=> ~(x.server = s /\ x.num \in N)
  BY <1>1, <1>2, FlushIs
<1>4. \A b \in B : b.server # s
  <2>1. \A b \in B : b.num \in N
    BY <1>3, Numbers DEF ArticlesOK, Store!Article
  <2> QED
    BY <1>3, <2>1
<1>5. Cardinality(NumsIn(B, s)) = 0
  <2>1. NumsIn(B, s) = {}
    BY <1>4 DEF NumsIn, OfServer
  <2> QED
    BY <2>1, FS_EmptySet
<1>6. Reset \in InfoType /\ Reset.high = 0 /\ Reset.num = 0 /\ Reset.high \in 0 .. MaxNum
  BY Numbers DEF Reset, InfoType
<1> HIDE DEF N
<1>7. Reset.num >= Cardinality(NumsIn(B, s)) /\ Reset.num = Cardinality(NumsIn(B, s))
  BY <1>5, <1>6
<1> QED
  BY <1>1, <1>2, <1>4, <1>6, <1>7, FlushKeeps

\* What loading makes of the server infos.
LEMMA ReadInfoIs ==
  ASSUME Types, NEW S \in SUBSET Server
  PROVE  /\ ReadInfo(S) \in [Server -> InfoType]
         /\ \A s \in S : ReadInfo(S)[s] = disk.info[s]
         /\ \A s \in Server \ S : ReadInfo(S)[s].high = 0 /\ ReadInfo(S)[s].num = 0
<1>1. Reset \in InfoType /\ Reset.high = 0 /\ Reset.num = 0
  BY Numbers DEF Reset, InfoType
<1>2. disk.info \in [Server -> InfoType]
  BY DEF Types, InfoType
<1> QED
  BY <1>1, <1>2 DEF ReadInfo

\* What loading makes of the articles.
LEMMA ReadArticles ==
  ASSUME NEW fs, FilesOK(fs), ArticlesOK(Articles(fs)), NEW S \in SUBSET Server
  PROVE  /\ FilesOK(ReadFiles(fs, S)) /\ AllEnough(ReadFiles(fs, S))
         /\ Articles(ReadFiles(fs, S)) = Store!Of(Articles(fs), S)
         /\ ArticlesOK(Articles(ReadFiles(fs, S)))
<1> DEFINE A == Articles(fs)
           B == Articles(ReadFiles(fs, S))
           gone == [server : Server \ S, num : Number]
<1>1. FilesOK(ReadFiles(fs, S)) /\ AllEnough(ReadFiles(fs, S)) /\ B = {x \in A : Named(x) \notin gone}
  BY ReadFilesIs
<1> HIDE DEF A, B
<1>2. \A x \in A : Named(x) \notin gone <=> x.server \in S
  <2>1. \A x \in A : x.server \in Server /\ x.num \in Number
    BY DEF A, ArticlesOK, Store!Article
  <2> QED
    BY <2>1 DEF Named
<1> HIDE DEF gone
<1>3. B = Store!Of(A, S)
  BY <1>1, <1>2 DEF Store!Of
<1>4. B \subseteq A
  BY <1>1
<1>5. ArticlesOK(B)
  BY <1>4, NotMore DEF A
<1> QED
  BY <1>1, <1>3, <1>5 DEF A, B

\* Loading the whole file.
LEMMA OpenKeeps ==
  ASSUME IInv, Open
  PROVE  IInv' /\ Store!ASOpen
<1> DEFINE A == Articles(disk.files)
           B == Articles(files')
<1>1. Types /\ DiskCounts /\ Unsaved
  BY DEF IInv
<1>2. /\ ~open /\ ~cut /\ open' = TRUE /\ saveit' = FALSE
      /\ files' = ReadFiles(disk.files, cfg) /\ info' = ReadInfo(cfg)
      /\ totalnum' = NumParts(files') /\ fileread' = disk.exists
      /\ disk' = disk /\ cfg' = cfg /\ cut' = cut
  BY DEF Open
<1>3. FilesOK(disk.files) /\ ArticlesOK(A) /\ cfg \subseteq Server /\ Window(A, disk.info) /\ NumRight(disk.files, disk.info)
  BY <1>1, <1>2 DEF Types, DiskCounts
<1>4. /\ FilesOK(files') /\ AllEnough(files') /\ ArticlesOK(B) /\ B = Store!Of(A, cfg)
  BY <1>2, <1>3, ReadArticles
<1>5. /\ info' \in [Server -> InfoType]
      /\ \A s \in cfg : info'[s] = disk.info[s]
      /\ \A s \in Server \ cfg : info'[s].high = 0 /\ info'[s].num = 0
  BY <1>1, <1>2, <1>3, ReadInfoIs
<1>6. B \subseteq A /\ \A b \in B : b.server \in cfg
  BY <1>4 DEF Store!Of
<1>7. Window(B, info')
  <2>1. \A s \in Server : info'[s].high \in 0 .. MaxNum
    <3>1. 0 \in 0 .. MaxNum
      BY Numbers
    <3> QED
      BY <1>3, <1>5, <3>1 DEF Window
  <2>2. \A b \in B : info'[b.server].low # 0 /\ info'[b.server].low <= b.num /\ b.num <= info'[b.server].high
    BY <1>3, <1>5, <1>6 DEF Window
  <2> QED
    BY <2>1, <2>2 DEF Window
<1>8. NumRight(files', info')
  <2> SUFFICES ASSUME NEW s \in Server PROVE info'[s].num = Cardinality(NumsIn(B, s))
    BY NumsAre DEF NumRight
  <2>1. CASE s \in cfg
    <3>1. OfServer(B, s) = OfServer(A, s)
      BY <1>4, <2>1 DEF OfServer, Store!Of
    <3>2. NumsIn(B, s) = NumsIn(A, s)
      BY <3>1 DEF NumsIn
    <3>3. disk.info[s].num = Cardinality(NumsIn(A, s))
      BY <1>3, NumsAre DEF NumRight
    <3> QED
      BY <1>5, <2>1, <3>2, <3>3
  <2>2. CASE s \notin cfg
    <3>1. NumsIn(B, s) = {}
      BY <1>6, <2>2 DEF NumsIn, OfServer
    <3> QED
      BY <1>5, <2>2, <3>1, FS_EmptySet
  <2> QED
    BY <2>1, <2>2
<1>9. NumCovers(files', info')
  <2>1. \A s \in Server : Cardinality(NumsOf(files', s)) \in Nat
    BY <1>4, ServerCount, NumsAre
  <2> QED
    BY <1>8, <2>1 DEF NumRight, NumCovers
<1>10. Types'
  <2>1. totalnum' \in Int
    BY <1>2, <1>4, PartsCounted
  <2>2. fileread' \in BOOLEAN /\ disk'.exists \in BOOLEAN
    BY <1>1, <1>2 DEF Types
  <2> QED
    BY <1>1, <1>2, <1>3, <1>4, <1>5, <2>1, <2>2 DEF Types, InfoType
<1>11. Counts'
  BY <1>2, <1>7, <1>8, <1>9 DEF Counts
<1>12. DiskCounts'
  BY <1>1, <1>2 DEF DiskCounts
<1>13. Unsaved'
  BY <1>1, <1>2, <1>4 DEF Unsaved
<1>14. HaveCovers'
  BY <1>4 DEF HaveCovers, AllEnough, Enough
<1>15. Store!ASOpen
  BY <1>2, <1>4 DEF Store!ASOpen
<1> QED
  BY <1>10, <1>11, <1>12, <1>13, <1>14, <1>15 DEF IInv

\* A file that ends early.
LEMMA OpenTruncatedKeeps ==
  ASSUME IInv, OpenTruncated
  PROVE  IInv' /\ Store!ASOpen
<1> DEFINE A == Articles(disk.files)
           B == Articles(files')
<1>1. Types /\ DiskCounts /\ Unsaved
  BY DEF IInv
<1>2. /\ ~open /\ ~cut /\ cut' = TRUE /\ open' = TRUE /\ saveit' = FALSE /\ fileread' = FALSE /\ totalnum' = 0
      /\ disk' = disk /\ cfg' = cfg /\ disk.exists
  BY DEF OpenTruncated
<1>3. FilesOK(disk.files) /\ ArticlesOK(A) /\ cfg \subseteq Server /\ Window(A, disk.info) /\ NumRight(disk.files, disk.info)
  BY <1>1, <1>2 DEF Types, DiskCounts
<1>4. \E S \in SUBSET cfg :
        /\ info' = ReadInfo(S)
        /\ FilesOK(files') /\ AllEnough(files') /\ B \subseteq Store!Of(A, S)
  <2>1. CASE \E S \in SUBSET cfg : info' = ReadInfo(S) /\ files' = <<>>
    <3>1. AllEnough(<<>>)
      BY EmptySeq DEF AllEnough
    <3> QED
      BY <2>1, <3>1, NoFiles
  <2>2. CASE \E k \in 1 .. Len(disk.files) :
               info' = ReadInfo(cfg) /\ files' = ReadFiles(SubSeq(disk.files, 1, k - 1), cfg)
    <3>1. PICK k \in 1 .. Len(disk.files) :
            info' = ReadInfo(cfg) /\ files' = ReadFiles(SubSeq(disk.files, 1, k - 1), cfg)
      BY <2>2
    <3> DEFINE fs == SubSeq(disk.files, 1, k - 1)
    <3>2. FilesOK(fs) /\ Articles(fs) \subseteq A
      BY <1>3, FirstFiles
    <3> HIDE DEF fs
    <3>3. ArticlesOK(Articles(fs))
      BY <1>3, <3>2, NotMore
    <3>4. FilesOK(files') /\ AllEnough(files') /\ B = Store!Of(Articles(fs), cfg)
      BY <1>3, <3>1, <3>2, <3>3, ReadArticles DEF fs
    <3>5. B \subseteq Store!Of(A, cfg)
      BY <3>2, <3>4 DEF Store!Of
    <3> QED
      BY <3>1, <3>4, <3>5
  <2> QED
    BY <2>1, <2>2 DEF OpenTruncated
<1>5. PICK S \in SUBSET cfg :
        /\ info' = ReadInfo(S)
        /\ FilesOK(files') /\ AllEnough(files') /\ B \subseteq Store!Of(A, S)
  BY <1>4
<1>6. B \subseteq A /\ \A b \in B : b.server \in S
  BY <1>5 DEF Store!Of
<1>7. ArticlesOK(B)
  BY <1>3, <1>6, NotMore
<1>8. /\ info' \in [Server -> InfoType]
      /\ \A s \in S : info'[s] = disk.info[s]
      /\ \A s \in Server \ S : info'[s].high = 0 /\ info'[s].num = 0
  BY <1>1, <1>3, <1>5, ReadInfoIs
<1>9. Window(B, info')
  <2>1. \A s \in Server : info'[s].high \in 0 .. MaxNum
    <3>1. 0 \in 0 .. MaxNum
      BY Numbers
    <3> QED
      BY <1>3, <1>8, <3>1 DEF Window
  <2>2. \A b \in B : info'[b.server].low # 0 /\ info'[b.server].low <= b.num /\ b.num <= info'[b.server].high
    BY <1>3, <1>6, <1>8 DEF Window
  <2> QED
    BY <2>1, <2>2 DEF Window
<1>10. NumCovers(files', info')
  <2> SUFFICES ASSUME NEW s \in Server PROVE info'[s].num >= Cardinality(NumsIn(B, s))
    BY NumsAre DEF NumCovers
  <2>1. CASE s \in S
    <3>1. disk.info[s].num = Cardinality(NumsIn(A, s))
      BY <1>3, NumsAre DEF NumRight
    <3>2. Cardinality(NumsIn(B, s)) <= Cardinality(NumsIn(A, s))
      BY <1>3, <1>6, NotMore
    <3>3. Cardinality(NumsIn(B, s)) \in Nat /\ Cardinality(NumsIn(A, s)) \in Nat
      BY <1>3, <1>7, ServerCount
    <3> QED
      BY <1>8, <2>1, <3>1, <3>2, <3>3
  <2>2. CASE s \notin S
    <3>1. NumsIn(B, s) = {}
      BY <1>6, <2>2 DEF NumsIn, OfServer
    <3> QED
      BY <1>8, <2>2, <3>1, FS_EmptySet
  <2> QED
    BY <2>1, <2>2
<1>11. Types'
  <2>1. open' \in BOOLEAN /\ saveit' \in BOOLEAN /\ fileread' \in BOOLEAN /\ cut' \in BOOLEAN
    BY <1>2
  <2>2. totalnum' \in Int
    BY <1>2
  <2>3. disk'.info \in [Server -> InfoType] /\ disk'.exists \in BOOLEAN
    BY <1>1, <1>2 DEF Types, InfoType
  <2> QED
    BY <1>2, <1>3, <1>5, <1>7, <1>8, <2>1, <2>2, <2>3 DEF Types, InfoType
<1>12. Counts'
  BY <1>2, <1>9, <1>10 DEF Counts
<1>13. DiskCounts'
  BY <1>2 DEF DiskCounts
<1>14. Unsaved'
  BY <1>1, <1>2 DEF Unsaved
<1>15. HaveCovers'
  BY <1>5 DEF HaveCovers, AllEnough, Enough
<1>16. Store!ASOpen
  <2>1. B \in SUBSET Store!Of(A, cfg)
    BY <1>5 DEF Store!Of
  <2> QED
    BY <1>2, <2>1 DEF Store!ASOpen
<1> QED
  BY <1>11, <1>12, <1>13, <1>14, <1>15, <1>16 DEF IInv

\* Nothing is in memory afterwards.
LEMMA ForgetIs ==
  ASSUME Forget, FilesOK(disk'.files), ArticlesOK(Articles(disk'.files)), cfg' \subseteq Server, cut' \in BOOLEAN,
         disk'.exists \in BOOLEAN, disk'.info \in [Server -> InfoType]
  PROVE  Types' /\ Counts' /\ HaveCovers' /\ open' = FALSE /\ Articles(files') = {}
<1>1. /\ open' = FALSE /\ files' = <<>> /\ info' = NoInfo /\ totalnum' = 0 /\ saveit' = FALSE /\ fileread' = FALSE
  BY DEF Forget
<1>2. NoInfo \in [Server -> InfoType]
  BY Numbers DEF NoInfo, Reset, InfoType
<1>3. FilesOK(files') /\ Articles(files') = {} /\ ArticlesOK(Articles(files'))
  BY <1>1, NoFiles
<1>4. Types'
  <2>1. open' \in BOOLEAN /\ saveit' \in BOOLEAN /\ fileread' \in BOOLEAN
    BY <1>1
  <2>2. totalnum' \in Int
    BY <1>1
  <2>3. info' \in [Server -> InfoType]
    BY <1>1, <1>2
  <2> QED
    BY <1>1, <1>3, <2>1, <2>2, <2>3 DEF Types, InfoType
<1>5. Counts'
  BY <1>1 DEF Counts
<1>6. HaveCovers'
  BY <1>1, EmptySeq DEF HaveCovers
<1> QED
  BY <1>1, <1>3, <1>4, <1>5, <1>6

\* Saving: when the new file is not written there was nothing that is not in the
\* old one.
LEMMA CloseKeeps ==
  ASSUME IInv, Close
  PROVE  IInv' /\ Store!ASClose
<1> DEFINE write == saveit /\ (fileread \/ files # <<>>)
           saved == [i \in DOMAIN files |-> [files[i] EXCEPT !.have = 0]]
<1>1. Types /\ Counts /\ DiskCounts /\ Unsaved /\ open /\ Forget /\ cfg' = cfg /\ cut' = cut
  BY DEF IInv, Close
<1>2. disk' = IF write THEN [files |-> saved, info |-> info, totalnum |-> totalnum, exists |-> TRUE] ELSE disk
  BY DEF Close
<1>3. FilesOK(saved) /\ Articles(saved) = Articles(files)
  BY <1>1, SavedIs DEF Types
<1> HIDE DEF saved
<1>4. \/ /\ write /\ disk'.files = saved /\ disk'.info = info /\ disk'.exists = TRUE
      \/ ~write /\ disk' = disk
  BY <1>2
<1> HIDE DEF write
<1>5. /\ FilesOK(disk'.files) /\ ArticlesOK(Articles(disk'.files)) /\ cfg' \subseteq Server /\ cut' \in BOOLEAN
      /\ disk'.exists \in BOOLEAN /\ disk'.info \in [Server -> InfoType]
  BY <1>1, <1>3, <1>4 DEF Types, InfoType
<1>6. Types' /\ Counts' /\ HaveCovers' /\ open' = FALSE /\ Articles(files') = {}
  BY <1>1, <1>5, ForgetIs
<1>7. DiskCounts'
  <2> SUFFICES ASSUME ~cut PROVE Window(Articles(disk'.files), disk'.info) /\ NumRight(disk'.files, disk'.info)
    BY <1>1 DEF DiskCounts
  <2>1. CASE write /\ disk'.files = saved /\ disk'.info = info
    <3>1. Window(Articles(files), info) /\ NumRight(files, info)
      BY <1>1 DEF Counts
    <3>2. NumRight(saved, info)
      BY <1>3, <3>1, NumsAre DEF NumRight
    <3> QED
      BY <1>3, <2>1, <3>1, <3>2
  <2>2. CASE disk' = disk
    BY <1>1, <2>2 DEF DiskCounts
  <2> QED
    BY <1>4, <2>1, <2>2
<1>8. Unsaved'
  BY <1>1, <1>4, <1>6 DEF Unsaved
<1>9. \/ Articles(disk'.files) = Articles(files)
      \/ Articles(disk'.files) = Articles(disk.files) /\ (cut \/ Articles(files) = Store!Of(Articles(disk.files), cfg))
  <2>1. CASE write
    BY <1>3, <1>4, <2>1
  <2>2. CASE ~write
    <3>1. ~cut => Articles(files) = Store!Of(Articles(disk.files), cfg)
      <4> SUFFICES ASSUME ~cut PROVE Articles(files) = Store!Of(Articles(disk.files), cfg)
        OBVIOUS
      <4>1. CASE ~saveit
        BY <1>1, <4>1 DEF Unsaved
      <4>2. CASE saveit
        <5>1. ~fileread /\ files = <<>>
          BY <2>2, <4>2 DEF write
        <5>2. disk.files = <<>>
          BY <1>1, <5>1 DEF Unsaved
        <5> QED
          BY <5>1, <5>2, NoFiles DEF Store!Of
      <4> QED
        BY <4>1, <4>2
    <3> QED
      BY <1>4, <2>2, <3>1
  <2> QED
    BY <2>1, <2>2
<1>10. Store!ASClose
  BY <1>1, <1>6, <1>9 DEF Store!ASClose
<1> QED
  BY <1>6, <1>7, <1>8, <1>10 DEF IInv

LEMMA CrashKeeps ==
  ASSUME IInv, Crash
  PROVE  IInv' /\ Store!ASCrash
<1>1. Types /\ DiskCounts /\ Unsaved /\ open /\ Forget /\ disk' = disk /\ cfg' = cfg /\ cut' = cut
  BY DEF IInv, Crash
<1>2. Types' /\ Counts' /\ HaveCovers' /\ open' = FALSE /\ Articles(files') = {}
  BY <1>1, ForgetIs DEF Types, InfoType
<1>3. DiskCounts' /\ Unsaved'
  BY <1>1, <1>2 DEF DiskCounts, Unsaved
<1>4. Store!ASCrash
  BY <1>1, <1>2 DEF Store!ASCrash
<1> QED
  BY <1>2, <1>3, <1>4 DEF IInv

LEMMA ConfigureKeeps ==
  ASSUME IInv, Configure
  PROVE  IInv' /\ Store!ASConfigure
<1>1. /\ ~open /\ cfg' \in SUBSET Server
      /\ open' = open /\ files' = files /\ info' = info /\ totalnum' = totalnum
      /\ saveit' = saveit /\ fileread' = fileread /\ disk' = disk /\ cut' = cut
  BY DEF Configure
<1>2. IInv'
  BY <1>1 DEF IInv, Types, Counts, DiskCounts, Unsaved, HaveCovers
<1>3. Store!ASConfigure
  BY <1>1 DEF Store!ASConfigure
<1> QED
  BY <1>2, <1>3

\* A step keeps the invariant and is a step of ArticleStore.
LEMMA Step ==
  ASSUME IInv, Next
  PROVE  IInv' /\ Store!ASNext
<1>1. ASSUME NEW s \in Server, NEW n \in Number, NEW m \in Msg, AddItem(s, n, m)
      PROVE  IInv' /\ Store!ASNext
  <2>1. IInv' /\ \E a \in Store!Article : Articles(files)' = Articles(files) \cup {a}
    BY <1>1, AddItemKeeps
  <2>2. open /\ open' = open /\ disk' = disk /\ cfg' = cfg /\ cut' = cut
    BY <1>1 DEF AddItem
  <2> QED
    BY <2>1, <2>2 DEF Store!ASNext, Store!ASAdd
<1>2. ASSUME NEW s \in Server, NEW n \in 1 .. MaxNum, FlushLow(s, n)
      PROVE  IInv' /\ Store!ASNext
  BY <1>2, FlushLowKeeps DEF Store!ASNext
<1>3. ASSUME NEW s \in Server, NEW low \in Number, NEW N \in SUBSET (low .. MaxNum), FlushMissing(s, N, low)
      PROVE  IInv' /\ Store!ASNext
  <2>1. N \in SUBSET Number /\ low \in 0 .. MaxNum
    BY Numbers
  <2> QED
    BY <1>3, <2>1, FlushMissingKeeps DEF Store!ASNext
<1>4. ASSUME NEW s \in Server, FlushMissing(s, {}, 0)
      PROVE  IInv' /\ Store!ASNext
  <2>1. {} \in SUBSET Number /\ 0 \in 0 .. MaxNum
    BY Numbers
  <2> QED
    BY <1>4, <2>1, FlushMissingKeeps DEF Store!ASNext
<1>5. ASSUME NEW s \in Server, FlushServer(s)
      PROVE  IInv' /\ Store!ASNext
  BY <1>5, FlushServerKeeps DEF Store!ASNext
<1>6. CASE Open
  BY <1>6, OpenKeeps DEF Store!ASNext
<1>7. CASE OpenTruncated
  BY <1>7, OpenTruncatedKeeps DEF Store!ASNext
<1>8. CASE Close
  BY <1>8, CloseKeeps DEF Store!ASNext
<1>9. CASE Crash
  BY <1>9, CrashKeeps DEF Store!ASNext
<1>10. CASE Configure
  BY <1>10, ConfigureKeeps DEF Store!ASNext
<1> QED
  BY <1>1, <1>2, <1>3, <1>4, <1>5, <1>6, <1>7, <1>8, <1>9, <1>10 DEF Next

LEMMA Stutter ==
  ASSUME IInv, UNCHANGED vars
  PROVE  IInv' /\ UNCHANGED <<open, Articles(files), Articles(disk.files), cfg, cut>>
BY DEF IInv, Types, Counts, DiskCounts, Unsaved, HaveCovers, vars

\* The cache's numbers and its files always agree: for any servers, messages and
\* article numbers, whatever additem(), the flushes, loading, saving, crashes and
\* edits of ngetrc do.
THEOREM Invariance == Spec => []IInv
<1>1. IInv /\ [Next]_vars => IInv'
  BY Step, Stutter
<1> QED
  BY InvInit, <1>1, PTL DEF Spec

\* What the code asserts whenever it walks the files: no file without parts and
\* no part without articles.
THEOREM TypeCorrect == Spec => []TypeOK
<1>1. IInv => TypeOK
  BY DEF IInv, Types, TypeOK, FilesOK, FileOK, NotEmpty
<1> QED
  BY Invariance, <1>1, PTL

\* num and totalnum, which are added to and subtracted from as articles come and
\* go, are the numbers of articles and parts, and flush() finds every article in
\* low .. high (cache.cc c_nntp_cache::additem, flush, flushlow).
THEOREM CountersAreRight == Spec => []CountersRight
<1>1. IInv => CountersRight
  <2> SUFFICES ASSUME IInv, open PROVE CountersRight
    BY DEF CountersRight
  <2>1. Types /\ Counts
    BY DEF IInv
  <2>2. /\ Window(Articles(files), info) /\ NumCovers(files, info)
        /\ ~cut => NumRight(files, info) /\ totalnum = NumParts(files)
    BY <2>1 DEF Counts
  <2>3. ASSUME NEW s \in Server, NEW n \in NumsOf(files, s) PROVE info[s].low <= n /\ n <= info[s].high
    <3>1. PICK a \in Articles(files) : a.server = s /\ n = a.num
      BY DEF NumsOf
    <3> QED
      BY <2>2, <3>1 DEF Window
  <2> QED
    BY <2>2, <2>3 DEF CountersRight, NumRight, NumCovers
<1> QED
  BY Invariance, <1>1, PTL

\* iscomplete() is never false of a file that has all its parts.
THEOREM NoFileGivenUp == Spec => []HaveCovers
<1>1. IInv => HaveCovers
  BY DEF IInv
<1> QED
  BY Invariance, <1>1, PTL

\* The files, parts and server articles of the code are a set of articles to
\* which additem() adds one, from which a flush takes those of one server with
\* certain numbers, and which saving and loading keep.
THEOREM ImplementsStore == Spec => IsArticleStore
<1>1. Init => Store!ASInit
  BY NoFiles DEF Init, NoFile, Store!ASInit
<1>2. IInv /\ [Next]_vars => [Store!ASNext]_<<open, Articles(files), Articles(disk.files), cfg, cut>>
  BY Step, Stutter
<1> QED
  BY Invariance, <1>1, <1>2, PTL DEF Spec, IsArticleStore, Store!ASSpec
=============================================================================
