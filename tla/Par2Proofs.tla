------------------------------ MODULE Par2Proofs -----------------------------
(***************************************************************************)
(* Theorems about Par2Verify: for any par2 sets and directories, any block *)
(* size, any number of buckets and any CRC, the window shows the file, a   *)
(* block that is found is where it is said to be, enough recovery packets  *)
(* are asked for, every step brings the end nearer, and what is intact is  *)
(* found.                                                                  *)
(*                                                                         *)
(* The order: sequences of bytes, the window of FileCheckSummer, the table *)
(* of VerificationHashTable and what FindMatch returns, the packets, and   *)
(* the repairer, whose inductive invariant (IInv) joins them; then what    *)
(* has been looked for, which needs more: the search trees, an intact      *)
(* block in the window, and where ScanDataFile() has been (Traced,         *)
(* LookedFor, WholeFound).                                                 *)
(***************************************************************************)
EXTENDS Par2Verify, FiniteSetTheorems, SequenceTheorems, WellFoundedInduction, TLAPS

-----------------------------------------------------------------------------
(* Sequences of bytes. *)

\* A part of a file.
LEMMA PartIs ==
  ASSUME NEW S, NEW data \in Seq(S), NEW m \in Nat, NEW n \in Nat, n <= Len(data)
  PROVE  /\ SubSeq(data, m + 1, n) \in Seq(S)
         /\ Len(SubSeq(data, m + 1, n)) = IF m < n THEN n - m ELSE 0
         /\ \A i \in 1 .. n - m : SubSeq(data, m + 1, n)[i] = data[m + i]
<1>1. Len(data) \in Nat
  BY LenProperties
<1>2. \A i \in m + 1 .. n : data[i] \in S
  BY <1>1, ElementOfSeq
<1>3. m + 1 \in Int /\ n \in Int
  OBVIOUS
<1>4. /\ SubSeq(data, m + 1, n) \in Seq(S)
      /\ Len(SubSeq(data, m + 1, n)) = IF m + 1 <= n THEN n - (m + 1) + 1 ELSE 0
      /\ \A i \in 1 .. n - (m + 1) + 1 : SubSeq(data, m + 1, n)[i] = data[(m + 1) + i - 1]
  BY <1>2, <1>3, SubSeqProperties
<1>5. n - (m + 1) + 1 = n - m
  OBVIOUS
<1>6. \A i \in 1 .. n - m : SubSeq(data, m + 1, n)[i] = data[m + i]
  <2> TAKE i \in 1 .. n - m
  <2>1. SubSeq(data, m + 1, n)[i] = data[(m + 1) + i - 1]
    BY <1>4, <1>5
  <2>2. (m + 1) + i - 1 = m + i
    OBVIOUS
  <2> QED BY <2>1, <2>2
<1> QED BY <1>4, <1>5, <1>6

\* A part of a part.
LEMMA PartOfPart ==
  ASSUME NEW S, NEW data \in Seq(S), NEW m \in Nat, NEW n \in Nat, m <= n, n <= Len(data),
         NEW k \in Nat, NEW l \in Nat, l <= n - m
  PROVE  SubSeq(SubSeq(data, m + 1, n), k + 1, l) = SubSeq(data, m + k + 1, m + l)
<1> DEFINE p == SubSeq(data, m + 1, n)
<1>0. Len(data) \in Nat
  BY LenProperties
<1>1. /\ p \in Seq(S) /\ Len(p) = n - m
      /\ \A i \in 1 .. n - m : p[i] = data[m + i]
  BY PartIs
<1> HIDE DEF p
<1>2. /\ SubSeq(p, k + 1, l) \in Seq(S)
      /\ Len(SubSeq(p, k + 1, l)) = IF k < l THEN l - k ELSE 0
      /\ \A i \in 1 .. l - k : SubSeq(p, k + 1, l)[i] = p[k + i]
  BY <1>1, PartIs
<1>3. m + k \in Nat /\ m + l \in Nat /\ m + l <= Len(data)
  BY <1>0
<1>4. /\ SubSeq(data, m + k + 1, m + l) \in Seq(S)
      /\ Len(SubSeq(data, m + k + 1, m + l)) = IF m + k < m + l THEN (m + l) - (m + k) ELSE 0
      /\ \A i \in 1 .. (m + l) - (m + k) : SubSeq(data, m + k + 1, m + l)[i] = data[m + k + i]
  BY <1>3, PartIs
<1>5. \A i \in 1 .. Len(SubSeq(p, k + 1, l)) : SubSeq(p, k + 1, l)[i] = SubSeq(data, m + k + 1, m + l)[i]
  <2> TAKE i \in 1 .. Len(SubSeq(p, k + 1, l))
  <2>1. i \in 1 .. l - k /\ i \in 1 .. (m + l) - (m + k) /\ k + i \in 1 .. n - m
    BY <1>2
  <2>2. m + (k + i) = m + k + i
    BY <2>1
  <2> QED BY <2>1, <2>2, <1>1, <1>2, <1>4
<1>6. Len(SubSeq(p, k + 1, l)) = Len(SubSeq(data, m + k + 1, m + l))
  BY <1>2, <1>4
<1>7. SubSeq(p, k + 1, l) = SubSeq(data, m + k + 1, m + l)
  BY <1>2, <1>4, <1>5, <1>6, SeqEqual
<1> QED BY <1>7 DEF p

\* Two parts that follow each other.
LEMMA PartsJoin ==
  ASSUME NEW S, NEW data \in Seq(S), NEW k \in Nat, NEW m \in Nat, NEW n \in Nat,
         k <= m, m <= n, n <= Len(data)
  PROVE  SubSeq(data, k + 1, m) \o SubSeq(data, m + 1, n) = SubSeq(data, k + 1, n)
<1> DEFINE p == SubSeq(data, k + 1, m)
           q == SubSeq(data, m + 1, n)
           r == SubSeq(data, k + 1, n)
<1>0. Len(data) \in Nat /\ m <= Len(data)
  BY LenProperties
<1>1. p \in Seq(S) /\ Len(p) = m - k /\ \A i \in 1 .. m - k : p[i] = data[k + i]
  BY <1>0, PartIs
<1>2. q \in Seq(S) /\ Len(q) = n - m /\ \A i \in 1 .. n - m : q[i] = data[m + i]
  BY PartIs
<1>3. r \in Seq(S) /\ Len(r) = n - k /\ \A i \in 1 .. n - k : r[i] = data[k + i]
  <2>1. k <= n
    OBVIOUS
  <2> QED BY <2>1, PartIs
<1> HIDE DEF p, q, r
<1>4. /\ p \o q \in Seq(S) /\ Len(p \o q) = Len(p) + Len(q)
      /\ \A i \in 1 .. Len(p) + Len(q) : (p \o q)[i] = IF i <= Len(p) THEN p[i] ELSE q[i - Len(p)]
  BY <1>1, <1>2, ConcatProperties
<1>5. Len(p \o q) = Len(r)
  BY <1>1, <1>2, <1>3, <1>4
<1>6. \A i \in 1 .. Len(p \o q) : (p \o q)[i] = r[i]
  <2> TAKE i \in 1 .. Len(p \o q)
  <2>1. i \in 1 .. n - k /\ i \in 1 .. Len(p) + Len(q)
    BY <1>1, <1>2, <1>4
  <2>2. CASE i <= m - k
    <3>1. i \in 1 .. m - k
      BY <2>1, <2>2
    <3> QED BY <3>1, <2>1, <1>1, <1>3, <1>4
  <2>3. CASE ~(i <= m - k)
    <3>1. i - (m - k) \in 1 .. n - m /\ m + (i - (m - k)) = k + i
      BY <2>1, <2>3
    <3>2. (p \o q)[i] = q[i - (m - k)]
      BY <2>1, <2>3, <1>1, <1>4
    <3> QED BY <3>1, <3>2, <2>1, <1>2, <1>3
  <2> QED BY <2>2, <2>3
<1>7. p \o q = r
  BY <1>3, <1>4, <1>5, <1>6, SeqEqual
<1> QED BY <1>7 DEF p, q, r

\* All of a sequence.
LEMMA AllOfIt ==
  ASSUME NEW S, NEW data \in Seq(S)
  PROVE  SubSeq(data, 1, Len(data)) = data
<1> DEFINE r == SubSeq(data, 0 + 1, Len(data))
<1>0. Len(data) \in Nat
  BY LenProperties
<1>1. r \in Seq(S) /\ Len(r) = Len(data) - 0 /\ \A i \in 1 .. Len(data) - 0 : r[i] = data[0 + i]
  <2>1. 0 <= Len(data)
    BY <1>0
  <2> QED BY <1>0, <2>1, PartIs
<1>2. Len(data) - 0 = Len(data) /\ \A i \in 1 .. Len(data) : 0 + i = i
  BY <1>0
<1>3. r = data
  <2> HIDE DEF r
  <2> QED BY <1>1, <1>2, SeqEqual
<1> QED BY <1>3

\* What is read of a file: n bytes, or those up to its end.
LEMMA BytesIs ==
  ASSUME NEW S, NEW data \in Seq(S), NEW from \in Nat, NEW n \in Nat, from <= Len(data)
  PROVE  LET bytes == Bytes(data, from, n) IN
         /\ bytes \in Seq(S) /\ Len(bytes) \in Nat
         /\ Len(bytes) <= n /\ from + Len(bytes) <= Len(data)
         /\ Len(bytes) = n \/ from + Len(bytes) = Len(data)
         /\ bytes = SubSeq(data, from + 1, from + Len(bytes))
         /\ \A i \in 1 .. Len(bytes) : bytes[i] = data[from + i]
<1> DEFINE end == IF from + n < Len(data) THEN from + n ELSE Len(data)
           bytes == Bytes(data, from, n)
<1>1. Len(data) \in Nat
  BY LenProperties
<1>2. end \in Nat /\ end <= Len(data) /\ from <= end
  BY <1>1
<1>3. end - from \in Nat /\ end - from <= n /\ (end - from = n \/ end = Len(data))
  BY <1>1
<1>4. bytes = SubSeq(data, from + 1, end)
  BY DEF Bytes
<1> HIDE DEF end
<1>5. /\ SubSeq(data, from + 1, end) \in Seq(S)
      /\ Len(SubSeq(data, from + 1, end)) = IF from < end THEN end - from ELSE 0
      /\ \A i \in 1 .. end - from : SubSeq(data, from + 1, end)[i] = data[from + i]
  BY <1>2, PartIs
<1> HIDE DEF bytes
<1>6. Len(bytes) = end - from
  BY <1>2, <1>4, <1>5
<1>7. from + Len(bytes) = end
  BY <1>2, <1>6
<1>8. bytes = SubSeq(data, from + 1, from + Len(bytes))
  BY <1>4, <1>7
<1>9. bytes \in Seq(S) /\ \A i \in 1 .. Len(bytes) : bytes[i] = data[from + i]
  BY <1>4, <1>5, <1>6
<1>10. Len(bytes) \in Nat /\ Len(bytes) <= n /\ from + Len(bytes) <= Len(data)
       /\ (Len(bytes) = n \/ from + Len(bytes) = Len(data))
  BY <1>2, <1>3, <1>6, <1>7
<1> QED BY <1>8, <1>9, <1>10 DEF bytes

\* Zeros are added, and nothing else is changed.
LEMMA PaddedIs ==
  ASSUME NEW s \in Seq(Byte), NEW n \in Nat, Len(s) <= n
  PROVE  /\ Padded(s, n) \in Seq(Byte) /\ Len(Padded(s, n)) = n
         /\ \A i \in 1 .. Len(s) : Padded(s, n)[i] = s[i]
<1> DEFINE z == [i \in 1 .. n - Len(s) |-> 0]
<1>1. Len(s) \in Nat
  BY LenProperties
<1>2. z \in Seq(Byte) /\ Len(z) = n - Len(s)
  <2>1. n - Len(s) \in Nat
    BY <1>1
  <2>2. z \in [1 .. n - Len(s) -> Byte]
    BY CrcAssumption
  <2>3. DOMAIN z = 1 .. n - Len(s)
    OBVIOUS
  <2> HIDE DEF z
  <2>4. z \in Seq(Byte)
    BY <2>1, <2>2
  <2> QED BY <2>1, <2>3, <2>4
<1>3. Padded(s, n) = s \o z
  BY DEF Padded
<1> HIDE DEF z
<1>4. /\ s \o z \in Seq(Byte) /\ Len(s \o z) = Len(s) + Len(z)
      /\ \A i \in 1 .. Len(s) + Len(z) : (s \o z)[i] = IF i <= Len(s) THEN s[i] ELSE z[i - Len(s)]
  BY <1>2, ConcatProperties
<1>5. Len(s) + Len(z) = n
  BY <1>1, <1>2
<1>6. \A i \in 1 .. Len(s) : (s \o z)[i] = s[i]
  <2> TAKE i \in 1 .. Len(s)
  <2>1. i \in 1 .. Len(s) + Len(z) /\ i <= Len(s)
    BY <1>1, <1>5
  <2> QED BY <2>1, <1>4
<1> QED BY <1>3, <1>4, <1>5, <1>6

-----------------------------------------------------------------------------
(* The window. *)

\* What has been read for the hashes.
Hashed(c, data) ==
  /\ c.first = SubSeq(data, 1, IF c.read < HashedFirst THEN c.read ELSE HashedFirst)
  /\ c.full = IF c.read < HashedFirst THEN <<>> ELSE SubSeq(data, 1, c.read)

\* The buffer holds the bytes of the file from currentoffset - outpointer on, up
\* to tailpointer, which is where the next bytes that are read belong.
Holds(c, data) ==
  /\ c.out < BlockSize /\ c.out <= c.at
  /\ c.read = c.at - c.out + c.tail
  /\ \A i \in 1 .. c.tail : c.buffer[i] = data[c.at - c.out + i]

Sound(c, data) ==
  /\ c \in Checksummers
  /\ Len(c.buffer) = 2 * BlockSize
  /\ c.at <= Len(data) /\ c.read <= Len(data)
  /\ Hashed(c, data)

\* And as much of the file as can be.
CheckSummerInv(c, data) ==
  /\ Sound(c, data)
  /\ IF c.at < Len(data) THEN Holds(c, data) /\ (c.tail = 2 * BlockSize \/ c.read = Len(data))
     ELSE c.read = Len(data)

\* The hashes go on with what is read.
LEMMA UpdateHashesKeeps ==
  ASSUME NEW data \in Seq(Byte), NEW c \in Checksummers, NEW n \in Nat,
         c.read <= Len(data), Hashed(c, data)
  PROVE  LET bytes == Bytes(data, c.read, n) IN
         \E x, y \in Seq(Byte) :
           /\ UpdateHashes(c, bytes) = [c EXCEPT !.first = x, !.full = y]
           /\ Hashed([first |-> x, full |-> y, read |-> c.read + Len(bytes)], data)
<1> DEFINE r == c.read
           bytes == Bytes(data, r, n)
           e == r + Len(bytes)
           d == UpdateHashes(c, bytes)
<1>0. Len(data) \in Nat /\ HashedFirst \in Nat /\ r \in Nat /\ c.first \in Seq(Byte) /\ c.full \in Seq(Byte)
  BY SizesAssumption, LenProperties DEF Checksummers
<1>1. /\ bytes \in Seq(Byte) /\ Len(bytes) = e - r /\ e <= Len(data) /\ e \in Nat /\ r <= e
      /\ bytes = SubSeq(data, r + 1, e)
  <2>1. r \in Nat /\ r <= Len(data)
    BY <1>0
  <2> HIDE DEF r, bytes
  <2>2. LET b == Bytes(data, r, n) IN
        b \in Seq(Byte) /\ Len(b) \in Nat /\ r + Len(b) <= Len(data) /\ b = SubSeq(data, r + 1, r + Len(b))
    BY <2>1, BytesIs
  <2>3. bytes \in Seq(Byte) /\ Len(bytes) \in Nat /\ r + Len(bytes) <= Len(data) /\ bytes = SubSeq(data, r + 1, r + Len(bytes))
    BY <2>2 DEF bytes
  <2> QED BY <1>0, <2>1, <2>3
<1>2. r = c.read /\ (c.read + Len(bytes) = e) /\ (r + Len(bytes) = e)
  OBVIOUS
<1>3. Hashed(c, data)
  OBVIOUS
<1> SUFFICES \E x, y \in Seq(Byte) :
                /\ d = [c EXCEPT !.first = x, !.full = y]
                /\ Hashed([first |-> x, full |-> y, read |-> e], data)
  OBVIOUS
<1> HIDE DEF r, e, bytes
<1>z. 0 + 1 = 1
  OBVIOUS
<1>5. CASE r >= HashedFirst
  <2>1. d = [c EXCEPT !.first = c.first, !.full = c.full \o bytes]
    <3>1. d = [c EXCEPT !.full = c.full \o bytes]
      BY <1>0, <1>2, <1>5 DEF UpdateHashes
    <3> HIDE DEF d
    <3> QED BY <3>1 DEF Checksummers
  <2>2. c.full = SubSeq(data, 1, r) /\ c.first = SubSeq(data, 1, HashedFirst)
    BY <1>0, <1>2, <1>3, <1>5 DEF Hashed
  <2>3. c.full \o bytes = SubSeq(data, 0 + 1, e)
    BY <1>0, <1>1, <2>2, PartsJoin
  <2>4. c.full \o bytes \in Seq(Byte)
    BY <1>0, <1>1, ConcatProperties
  <2>5. ~(e < HashedFirst)
    BY <1>0, <1>1, <1>5
  <2> HIDE DEF d
  <2>6. Hashed([first |-> c.first, full |-> c.full \o bytes, read |-> e], data)
    BY <1>z, <2>2, <2>3, <2>5 DEF Hashed
  <2> QED BY <1>0, <2>1, <2>4, <2>6
<1>6. CASE r < HashedFirst /\ e >= HashedFirst
  <2> DEFINE want == HashedFirst - r
             first == c.first \o SubSeq(bytes, 1, want)
             full == first \o SubSeq(bytes, want + 1, Len(bytes))
  <2>1. d = [c EXCEPT !.first = first, !.full = full]
    BY <1>0, <1>2, <1>6 DEF UpdateHashes
  <2>2. want \in Nat /\ r + want = HashedFirst /\ want <= e - r
    BY <1>0, <1>1, <1>6
  <2> HIDE DEF want
  <2>3. c.first = SubSeq(data, 1, r)
    BY <1>2, <1>3, <1>6 DEF Hashed
  <2>4. SubSeq(bytes, 1, want) = SubSeq(data, r + 1, HashedFirst)
    <3>1. SubSeq(SubSeq(data, r + 1, e), 0 + 1, want) = SubSeq(data, r + 0 + 1, r + want)
      BY <1>0, <1>1, <2>2, PartOfPart
    <3>2. r + 0 + 1 = r + 1
      BY <1>0
    <3> QED BY <1>z, <1>1, <2>2, <3>1, <3>2
  <2>5. SubSeq(bytes, want + 1, Len(bytes)) = SubSeq(data, HashedFirst + 1, e)
    <3>1. e - r \in Nat /\ r + (e - r) = e
      BY <1>0, <1>1
    <3>2. SubSeq(SubSeq(data, r + 1, e), want + 1, e - r) = SubSeq(data, r + want + 1, r + (e - r))
      BY <1>0, <1>1, <2>2, <3>1, PartOfPart
    <3> QED BY <1>1, <2>2, <3>1, <3>2
  <2>6. first = SubSeq(data, 0 + 1, HashedFirst)
    <3>1. 0 \in Nat /\ 0 <= r /\ r <= HashedFirst /\ HashedFirst <= Len(data)
      BY <1>0, <1>1, <1>6
    <3>2. SubSeq(data, 0 + 1, r) \o SubSeq(data, r + 1, HashedFirst) = SubSeq(data, 0 + 1, HashedFirst)
      BY <1>0, <3>1, PartsJoin
    <3> QED BY <1>z, <2>3, <2>4, <3>2
  <2>7. full = SubSeq(data, 0 + 1, e)
    <3>1. 0 <= HashedFirst /\ HashedFirst <= e
      BY <1>0, <1>6
    <3> HIDE DEF first
    <3>2. SubSeq(data, 0 + 1, HashedFirst) \o SubSeq(data, HashedFirst + 1, e) = SubSeq(data, 0 + 1, e)
      BY <1>0, <1>1, <3>1, PartsJoin
    <3> QED BY <2>5, <2>6, <3>2
  <2> HIDE DEF first, full
  <2>8. first \in Seq(Byte) /\ full \in Seq(Byte)
    BY <1>0, <1>1, <1>6, <2>6, <2>7, PartIs
  <2>9. ~(e < HashedFirst)
    BY <1>0, <1>1, <1>6
  <2> HIDE DEF d
  <2>10. Hashed([first |-> first, full |-> full, read |-> e], data)
    BY <1>z, <2>6, <2>7, <2>9 DEF Hashed
  <2> QED BY <2>1, <2>8, <2>10
<1>7. CASE r < HashedFirst /\ e < HashedFirst
  <2>1. d = [c EXCEPT !.first = c.first \o bytes, !.full = c.full]
    <3>1. ~(c.read >= HashedFirst) /\ ~(c.read + Len(bytes) >= HashedFirst)
      <4>1. ~(r >= HashedFirst) /\ ~(e >= HashedFirst)
        BY <1>0, <1>1, <1>7
      <4> QED BY <1>2, <4>1, Zenon
    <3>2. d = [c EXCEPT !.first = c.first \o bytes]
      BY <3>1 DEF UpdateHashes
    <3> HIDE DEF d
    <3> QED BY <3>2 DEF Checksummers
  <2>2. c.full = <<>> /\ c.first = SubSeq(data, 1, r)
    BY <1>2, <1>3, <1>7 DEF Hashed
  <2>3. c.first \o bytes = SubSeq(data, 0 + 1, e)
    <3>1. 0 \in Nat /\ 0 <= r
      BY <1>0
    <3>2. SubSeq(data, 0 + 1, r) \o SubSeq(data, r + 1, e) = SubSeq(data, 0 + 1, e)
      BY <1>0, <1>1, <3>1, PartsJoin
    <3> QED BY <1>z, <1>1, <2>2, <3>2
  <2>4. c.first \o bytes \in Seq(Byte)
    BY <1>0, <1>1, ConcatProperties
  <2> HIDE DEF d
  <2>5. Hashed([first |-> c.first \o bytes, full |-> c.full, read |-> e], data)
    BY <1>z, <1>7, <2>2, <2>3 DEF Hashed
  <2> QED BY <1>0, <2>1, <2>4, <2>5
<1>8. r >= HashedFirst \/ (r < HashedFirst /\ e >= HashedFirst) \/ (r < HashedFirst /\ e < HashedFirst)
  BY <1>0, <1>1
<1> QED BY <1>5, <1>6, <1>7, <1>8

\* What is read from a file.
LEMMA ReadIs ==
  ASSUME NEW c \in Checksummers, NEW first, NEW full, NEW d,
         d = [c EXCEPT !.first = first, !.full = full]
  PROVE  d = [at |-> c.at, buffer |-> c.buffer, out |-> c.out, tail |-> c.tail, read |-> c.read,
              first |-> first, full |-> full]
BY DEF Checksummers

\* Fill() goes on where it stopped, and fills the buffer.
LEMMA FillKeeps ==
  ASSUME NEW data \in Seq(Byte), NEW c, Sound(c, data), Holds(c, data), c.at < Len(data)
  PROVE  CheckSummerInv(Fill(c, data), data) /\ Fill(c, data).at = c.at
<1>0. /\ Len(data) \in Nat /\ BlockSize \in Nat /\ 1 <= BlockSize /\ c \in Checksummers
      /\ c.read \in Nat /\ c.tail \in Nat /\ c.out \in Nat /\ c.at \in Nat
      /\ c.tail <= 2 * BlockSize /\ c.read <= Len(data) /\ 2 * BlockSize \in Nat
      /\ c.buffer \in Seq(Byte) /\ Len(c.buffer) = 2 * BlockSize
  BY SizesAssumption, LenProperties DEF Sound, Checksummers
<1>1. CASE c.read >= Len(data)
  <2>1. Fill(c, data) = c
    BY <1>1 DEF Fill
  <2>2. c.read = Len(data)
    BY <1>0, <1>1
  <2> QED BY <2>1, <2>2 DEF CheckSummerInv
<1>2. CASE ~(c.read >= Len(data))
  <2> DEFINE n == 2 * BlockSize - c.tail
             bytes == Bytes(data, c.read, n)
             d == UpdateHashes(c, bytes)
             f == Fill(c, data)
             kept == SubSeq(c.buffer, 0 + 1, c.tail)
             buffer == Padded(kept \o bytes, 2 * BlockSize)
             m == Len(bytes)
  <2>1. n \in Nat /\ c.tail + n = 2 * BlockSize
    BY <1>0
  <2>2. /\ bytes \in Seq(Byte) /\ m \in Nat /\ m <= n /\ c.read + m <= Len(data)
        /\ m = n \/ c.read + m = Len(data)
        /\ \A i \in 1 .. m : bytes[i] = data[c.read + i]
    <3>1. c.read \in Nat /\ c.read <= Len(data)
      BY <1>0
    <3> HIDE DEF n
    <3> QED BY <2>1, <3>1, BytesIs
  <2>3. PICK x \in Seq(Byte), y \in Seq(Byte) :
           d = [c EXCEPT !.first = x, !.full = y] /\ Hashed([first |-> x, full |-> y, read |-> c.read + m], data)
    <3>1. Hashed(c, data) /\ c.read <= Len(data)
      BY <1>0 DEF Sound
    <3> HIDE DEF n
    <3> QED BY <1>0, <2>1, <3>1, UpdateHashesKeeps
  <2>4. kept \in Seq(Byte) /\ Len(kept) = c.tail /\ \A i \in 1 .. c.tail : kept[i] = c.buffer[i]
    <3>1. /\ SubSeq(c.buffer, 0 + 1, c.tail) \in Seq(Byte)
          /\ Len(SubSeq(c.buffer, 0 + 1, c.tail)) = IF 0 < c.tail THEN c.tail - 0 ELSE 0
          /\ \A i \in 1 .. c.tail - 0 : SubSeq(c.buffer, 0 + 1, c.tail)[i] = c.buffer[0 + i]
      BY <1>0, PartIs
    <3> HIDE DEF kept
    <3>2. \A i \in 1 .. c.tail : i \in 1 .. c.tail - 0 /\ 0 + i = i
      BY <1>0
    <3>3. (IF 0 < c.tail THEN c.tail - 0 ELSE 0) = c.tail
      BY <1>0
    <3> QED BY <3>1, <3>2, <3>3 DEF kept
  <2>5. f = [d EXCEPT !.buffer = buffer, !.read = c.read + m, !.tail = c.tail + m]
    <3>1. f = [d EXCEPT !.buffer = Padded(SubSeq(d.buffer, 1, c.tail) \o bytes, 2 * BlockSize),
                        !.read = d.read + m, !.tail = d.tail + m]
      BY <1>2 DEF Fill
    <3> HIDE DEF bytes, f, d, m
    <3>2. d.buffer = c.buffer /\ d.read = c.read /\ d.tail = c.tail
      BY <1>0, <2>3 DEF Checksummers
    <3>3. 0 + 1 = 1
      OBVIOUS
    <3> QED BY <3>1, <3>2, <3>3
  <2> HIDE DEF n, bytes, d, f, kept, m
  <2>6. f = [at |-> c.at, buffer |-> buffer, out |-> c.out, tail |-> c.tail + m, read |-> c.read + m,
             first |-> x, full |-> y]
    <3> HIDE DEF buffer
    <3>1. d = [at |-> c.at, buffer |-> c.buffer, out |-> c.out, tail |-> c.tail, read |-> c.read,
               first |-> x, full |-> y]
      BY <1>0, <2>3, ReadIs
    <3> QED BY <2>5, <3>1
  <2>7. /\ kept \o bytes \in Seq(Byte) /\ Len(kept \o bytes) = c.tail + m
        /\ \A i \in 1 .. c.tail + m : (kept \o bytes)[i] = IF i <= c.tail THEN kept[i] ELSE bytes[i - c.tail]
    <3>1. m = Len(bytes)
      BY DEF m
    <3>2. /\ kept \o bytes \in Seq(Byte) /\ Len(kept \o bytes) = Len(kept) + Len(bytes)
          /\ \A i \in 1 .. Len(kept) + Len(bytes) :
               (kept \o bytes)[i] = IF i <= Len(kept) THEN kept[i] ELSE bytes[i - Len(kept)]
      <4>1. kept \in Seq(Byte) /\ bytes \in Seq(Byte)
        BY <2>2, <2>4
      <4> QED BY <4>1, ConcatProperties
    <3> QED BY <2>4, <3>1, <3>2
  <2>8. /\ buffer \in Seq(Byte) /\ Len(buffer) = 2 * BlockSize
        /\ \A i \in 1 .. c.tail + m : buffer[i] = (kept \o bytes)[i]
    <3>1. c.tail + m <= 2 * BlockSize
      BY <1>0, <2>1, <2>2
    <3>2. /\ Padded(kept \o bytes, 2 * BlockSize) \in Seq(Byte)
          /\ Len(Padded(kept \o bytes, 2 * BlockSize)) = 2 * BlockSize
          /\ \A i \in 1 .. Len(kept \o bytes) : Padded(kept \o bytes, 2 * BlockSize)[i] = (kept \o bytes)[i]
      BY <1>0, <2>7, <3>1, PaddedIs
    <3> QED BY <2>7, <3>2
  <2> HIDE DEF buffer
  <2>9. Sound(f, data)
    <3>1. Hashed(f, data)
      <4>1. f.first = x /\ f.full = y /\ f.read = c.read + m
        BY <2>6
      <4> QED BY <2>3, <4>1 DEF Hashed
    <3>2. f \in Checksummers
      <4>1. c.tail \in Nat /\ c.read \in Nat /\ c.out \in 0 .. BlockSize
        BY <1>0 DEF Checksummers
      <4>2. m \in Nat /\ m <= n
        BY <2>2
      <4>3. c.tail + m \in 0 .. 2 * BlockSize /\ c.read + m \in Nat
        BY <2>1, <4>1, <4>2
      <4> QED BY <1>0, <2>3, <2>6, <2>8, <4>1, <4>3 DEF Checksummers
    <3>3. f.at = c.at /\ f.read = c.read + m /\ f.buffer = buffer
      BY <2>6
    <3> QED BY <1>0, <2>2, <2>8, <3>1, <3>2, <3>3 DEF Sound
  <2>10. Holds(f, data)
    <3>1. f.at = c.at /\ f.read = c.read + m /\ f.buffer = buffer /\ f.out = c.out /\ f.tail = c.tail + m
      BY <2>6
    <3>2. /\ c.out < BlockSize /\ c.out <= c.at /\ c.read = c.at - c.out + c.tail
          /\ \A i \in 1 .. c.tail : c.buffer[i] = data[c.at - c.out + i]
      BY DEF Holds
    <3>3. c.read + m = c.at - c.out + (c.tail + m)
      BY <1>0, <2>2, <3>2
    <3>4. ASSUME NEW i \in 1 .. c.tail + m
          PROVE  buffer[i] = data[c.at - c.out + i]
      <4>1. CASE i <= c.tail
        <5>1. i \in 1 .. c.tail
          BY <1>0, <2>2, <4>1
        <5> QED BY <4>1, <5>1, <2>4, <2>7, <2>8, <3>2
      <4>2. CASE ~(i <= c.tail)
        <5>1. i - c.tail \in 1 .. m /\ c.read + (i - c.tail) = c.at - c.out + i
          <6>1. c.read = c.at - c.out + c.tail /\ m \in Nat
            BY <2>2, <3>2
          <6>2. c.at \in Nat /\ c.out \in Nat /\ c.tail \in Nat /\ i \in Nat /\ i <= c.tail + m
            BY <1>0, <2>2, <6>1
          <6> HIDE DEF CheckSummerInv, m
          <6>3. i - c.tail \in 1 .. m
            BY <4>2, <6>1, <6>2
          <6>4. c.read + (i - c.tail) = c.at - c.out + i
            BY <6>1, <6>2
          <6> QED BY <6>3, <6>4
        <5>2. buffer[i] = bytes[i - c.tail]
          BY <4>2, <2>7, <2>8
        <5> QED BY <5>1, <5>2, <2>2
      <4> QED BY <4>1, <4>2
    <3> QED BY <3>1, <3>2, <3>3, <3>4 DEF Holds
  <2>11. f.tail = 2 * BlockSize \/ f.read = Len(data)
    BY <2>1, <2>2, <2>6
  <2>12. f.at = c.at
    BY <2>6
  <2> QED BY <2>9, <2>10, <2>11, <2>12 DEF CheckSummerInv, f
<1> QED BY <1>1, <1>2

\* FileCheckSummer::Start: the window at the head of the file.
LEMMA StartRight ==
  ASSUME NEW data \in Seq(Byte)
  PROVE  CheckSummerInv(Start(data), data) /\ Start(data).at = 0
<1> DEFINE zeros == Padded(<<>>, 2 * BlockSize)
           c == [at |-> 0, buffer |-> zeros, out |-> 0, tail |-> 0, read |-> 0, first |-> <<>>, full |-> <<>>]
<1>0. Len(data) \in Nat /\ BlockSize \in Nat /\ 1 <= BlockSize /\ HashedFirst \in Nat /\ 2 * BlockSize \in Nat
  BY SizesAssumption, LenProperties
<1>1. zeros \in Seq(Byte) /\ Len(zeros) = 2 * BlockSize
  <2>1. <<>> \in Seq(Byte) /\ Len(<<>>) = 0
    BY EmptySeq
  <2>2. Len(<<>>) <= 2 * BlockSize
    BY <1>0, <2>1
  <2> QED BY <1>0, <2>1, <2>2, PaddedIs
<1> HIDE DEF zeros
<1>2. Sound(c, data)
  <2>1. c \in Checksummers
    BY <1>0, <1>1, EmptySeq DEF Checksummers
  <2>2. SubSeq(data, 1, 0) = <<>>
    BY SubSeqEmpty
  <2>3. (IF c.read < HashedFirst THEN c.read ELSE HashedFirst) = 0 /\ c.read = 0
    BY <1>0
  <2>4. c.first = <<>> /\ c.full = <<>> /\ c.at = 0 /\ c.buffer = zeros
    OBVIOUS
  <2> HIDE DEF c
  <2>5. Hashed(c, data)
    BY <2>2, <2>3, <2>4 DEF Hashed
  <2> QED BY <1>0, <1>1, <2>1, <2>3, <2>4, <2>5 DEF Sound
<1>3. Start(data) = Fill(c, data)
  BY DEF Start, zeros
<1>4. c.at = 0 /\ c.read = 0 /\ c.tail = 0 /\ c.out = 0
  OBVIOUS
<1> HIDE DEF c
<1>5. CASE Len(data) = 0
  <2>1. Fill(c, data) = c
    BY <1>4, <1>5 DEF Fill
  <2> QED BY <1>2, <1>3, <1>4, <1>5, <2>1 DEF CheckSummerInv
<1>6. CASE Len(data) # 0
  <2>1. c.at < Len(data)
    BY <1>0, <1>4, <1>6
  <2>2. Holds(c, data)
    BY <1>0, <1>4 DEF Holds
  <2>3. CheckSummerInv(Fill(c, data), data) /\ Fill(c, data).at = c.at
    BY <1>2, <2>1, <2>2, FillKeeps
  <2> QED BY <1>3, <1>4, <2>3
<1> QED BY <1>5, <1>6

\* Sizes are numbers.
LEMMA Sizes ==
  ASSUME NEW data \in Seq(Byte), NEW c, CheckSummerInv(c, data)
  PROVE  /\ Len(data) \in Nat /\ BlockSize \in Nat /\ 1 <= BlockSize /\ 2 * BlockSize \in Nat
         /\ c \in Checksummers
         /\ c.read \in Nat /\ c.tail \in Nat /\ c.out \in Nat /\ c.at \in Nat
         /\ c.tail <= 2 * BlockSize /\ c.read <= Len(data) /\ c.at <= Len(data)
         /\ c.buffer \in Seq(Byte) /\ Len(c.buffer) = 2 * BlockSize
         /\ c.first \in Seq(Byte) /\ c.full \in Seq(Byte)
         /\ c.at < Len(data) => /\ c.out < BlockSize /\ c.out <= c.at
                                /\ c.read = c.at - c.out + c.tail
                                /\ c.tail = 2 * BlockSize \/ c.read = Len(data)
BY SizesAssumption, LenProperties DEF CheckSummerInv, Sound, Checksummers, Holds

\* When the end is in reach all has been read.
LEMMA AllIsRead ==
  ASSUME NEW data \in Seq(Byte), NEW c, CheckSummerInv(c, data), c.at < Len(data),
         NEW d \in 1 .. BlockSize, c.at + d >= Len(data)
  PROVE  c.read = Len(data)
<1>1. /\ Len(data) \in Nat /\ BlockSize \in Nat /\ c.read \in Nat /\ c.tail \in Nat /\ c.out \in Nat /\ c.at \in Nat
      /\ c.out < BlockSize /\ c.read = c.at - c.out + c.tail /\ c.read <= Len(data)
      /\ c.tail = 2 * BlockSize \/ c.read = Len(data)
  BY Sizes
<1> QED BY <1>1

\* Step at the end of the file leaves all as it is.
LEMMA AtEndKeeps ==
  ASSUME NEW data \in Seq(Byte), NEW c, CheckSummerInv(c, data), c.read = Len(data)
  PROVE  CheckSummerInv(AtEnd(c, data), data) /\ AtEnd(c, data).at = Len(data)
<1> DEFINE z == Padded(<<>>, BlockSize)
           second == SubSeq(c.buffer, BlockSize + 1, 2 * BlockSize)
           e == AtEnd(c, data)
<1>0. /\ Len(data) \in Nat /\ BlockSize \in Nat /\ 1 <= BlockSize /\ 2 * BlockSize \in Nat
      /\ c \in Checksummers /\ c.read \in Nat
      /\ c.buffer \in Seq(Byte) /\ Len(c.buffer) = 2 * BlockSize
      /\ c.first \in Seq(Byte) /\ c.full \in Seq(Byte)
  BY Sizes
<1>1. z \in Seq(Byte) /\ Len(z) = BlockSize
  <2>1. <<>> \in Seq(Byte) /\ Len(<<>>) = 0
    BY EmptySeq
  <2>2. Len(<<>>) <= BlockSize
    BY <1>0, <2>1
  <2> QED BY <1>0, <2>1, <2>2, PaddedIs
<1>2. second \in Seq(Byte) /\ Len(second) = BlockSize
  <2>1. /\ second \in Seq(Byte)
        /\ Len(second) = IF BlockSize < 2 * BlockSize THEN 2 * BlockSize - BlockSize ELSE 0
    BY <1>0, PartIs
  <2> HIDE DEF second
  <2> QED BY <1>0, <2>1
<1>3. e = [at |-> Len(data), buffer |-> z \o second, out |-> 0, tail |-> 0, read |-> c.read,
           first |-> c.first, full |-> c.full]
  <2>1. e = [c EXCEPT !.at = Len(data), !.out = 0, !.tail = 0, !.buffer = z \o second]
    BY DEF AtEnd
  <2> HIDE DEF z, second, e
  <2>2. c \in Checksummers
    BY <1>0
  <2> QED BY <2>1, <2>2 DEF Checksummers
<1> HIDE DEF z, second, e
<1>4. z \o second \in Seq(Byte) /\ Len(z \o second) = 2 * BlockSize
  <2>1. z \o second \in Seq(Byte) /\ Len(z \o second) = Len(z) + Len(second)
    BY <1>1, <1>2, ConcatProperties
  <2> QED BY <1>0, <1>1, <1>2, <2>1
<1>5. e \in Checksummers
  BY <1>0, <1>3, <1>4 DEF Checksummers
<1>6. e.at = Len(data) /\ e.read = c.read /\ e.buffer = z \o second /\ e.first = c.first /\ e.full = c.full
  BY <1>3
<1>7. Hashed(e, data)
  <2>1. Hashed(c, data)
    BY DEF CheckSummerInv, Sound
  <2> QED BY <1>6, <2>1 DEF Hashed
<1>8. Sound(e, data)
  BY <1>0, <1>4, <1>5, <1>6, <1>7 DEF Sound
<1>9. CheckSummerInv(e, data)
  BY <1>0, <1>6, <1>8 DEF CheckSummerInv
<1> QED BY <1>6, <1>9 DEF e

\* There is something left to keep, for the end is not in reach.
LEMMA SomeIsKept ==
  ASSUME NEW data \in Seq(Byte), NEW c, CheckSummerInv(c, data), c.at < Len(data),
         NEW d \in 1 .. BlockSize, c.at + d < Len(data)
  PROVE  c.tail - (c.out + d) \in Nat
<1>1. /\ Len(data) \in Nat /\ BlockSize \in Nat /\ c.read \in Nat /\ c.tail \in Nat /\ c.out \in Nat /\ c.at \in Nat
      /\ c.out < BlockSize /\ c.read = c.at - c.out + c.tail /\ c.read <= Len(data)
      /\ c.tail = 2 * BlockSize \/ c.read = Len(data)
  BY Sizes
<1> QED BY <1>1

\* The window moves d bytes on, and what is kept of the buffer with it.
Moved(c, d, buffer) ==
  [c EXCEPT !.at = c.at + d, !.out = 0, !.tail = c.tail - (c.out + d), !.buffer = buffer]

\* The window is moved and filled.
LEMMA MoveKeeps ==
  ASSUME NEW data \in Seq(Byte), NEW c, CheckSummerInv(c, data), c.at < Len(data),
         NEW d \in 1 .. BlockSize, c.at + d < Len(data),
         NEW buffer \in Seq(Byte), Len(buffer) = 2 * BlockSize,
         \A i \in 1 .. c.tail - (c.out + d) : buffer[i] = c.buffer[c.out + d + i]
  PROVE  LET f == Fill(Moved(c, d, buffer), data) IN CheckSummerInv(f, data) /\ f.at = c.at + d
<1> DEFINE keep == c.tail - (c.out + d)
           e == Moved(c, d, buffer)
<1>a. keep \in Nat /\ keep = c.tail - (c.out + d) /\ \A i \in 1 .. keep : buffer[i] = c.buffer[c.out + d + i]
  BY SomeIsKept
<1>b. e = [c EXCEPT !.at = c.at + d, !.out = 0, !.tail = keep, !.buffer = buffer]
  BY DEF Moved
<1> SUFFICES CheckSummerInv(Fill(e, data), data) /\ Fill(e, data).at = c.at + d
  OBVIOUS
<1> HIDE DEF keep, e
<1>0. /\ Len(data) \in Nat /\ BlockSize \in Nat /\ 1 <= BlockSize /\ 2 * BlockSize \in Nat
      /\ c \in Checksummers
      /\ c.read \in Nat /\ c.tail \in Nat /\ c.out \in Nat /\ c.at \in Nat
      /\ c.tail <= 2 * BlockSize /\ c.read <= Len(data)
      /\ c.first \in Seq(Byte) /\ c.full \in Seq(Byte)
      /\ c.out < BlockSize /\ c.out <= c.at /\ c.read = c.at - c.out + c.tail
  BY Sizes
<1>9. /\ d \in Nat /\ 1 <= d /\ d <= BlockSize /\ c.at + d \in Nat /\ c.tail = c.out + d + keep
      /\ keep <= 2 * BlockSize /\ c.at + d - 0 = c.at + d /\ c.read = c.at + d + keep
  <2>1. c.tail \in Nat /\ c.out \in Nat /\ c.at \in Nat /\ BlockSize \in Nat /\ d \in 1 .. BlockSize /\ keep \in Nat
        /\ keep = c.tail - (c.out + d) /\ c.read = c.at - c.out + c.tail
        /\ c.tail <= 2 * BlockSize
    BY <1>0, <1>a
  <2>2. c.tail = c.out + d + keep
    BY <2>1
  <2>3. keep <= c.tail
    BY <2>1
  <2>4. c.at - c.out + (c.out + d + keep) = c.at + d + keep
    BY <2>1
  <2>5. c.at + d - 0 = c.at + d /\ d \in Nat /\ 1 <= d /\ d <= BlockSize /\ c.at + d \in Nat
    BY <2>1
  <2>6. keep <= 2 * BlockSize
    BY <2>1, <2>3
  <2> QED BY <2>1, <2>2, <2>4, <2>5, <2>6
<1>1. e = [at |-> c.at + d, buffer |-> buffer, out |-> 0, tail |-> keep, read |-> c.read,
           first |-> c.first, full |-> c.full]
  <2>1. c \in Checksummers
    BY <1>0
  <2> QED BY <1>b, <2>1 DEF Checksummers
<1>2. e.at = c.at + d /\ e.out = 0 /\ e.tail = keep /\ e.read = c.read /\ e.buffer = buffer
      /\ e.first = c.first /\ e.full = c.full
  BY <1>1
<1>3. Sound(e, data)
  <2>1. c.at + d \in Nat /\ keep \in 0 .. 2 * BlockSize /\ 0 \in 0 .. BlockSize
    BY <1>0, <1>9, <1>a
  <2>2. e \in Checksummers
    BY <1>0, <1>1, <2>1 DEF Checksummers
  <2>3. Hashed(c, data)
    BY DEF CheckSummerInv, Sound
  <2>4. Hashed(e, data)
    BY <1>2, <2>3 DEF Hashed
  <2>5. c.at + d <= Len(data)
    BY <1>0
  <2> QED BY <1>0, <1>2, <2>2, <2>4, <2>5 DEF Sound
<1>4. Holds(e, data)
  <2>1. \A i \in 1 .. c.tail : c.buffer[i] = data[c.at - c.out + i]
    BY DEF CheckSummerInv, Holds
  <2>2. ASSUME NEW i \in 1 .. keep
        PROVE  buffer[i] = data[c.at + d - 0 + i]
    <3>0. /\ c.tail \in Nat /\ c.out \in Nat /\ c.at \in Nat /\ d \in Nat /\ i \in Nat /\ 1 <= i /\ i <= keep
          /\ c.tail = c.out + d + keep /\ keep \in Nat
      BY <1>0, <1>9, <1>a
    <3>1. c.out + d + i \in 1 .. c.tail
      BY <3>0
    <3>2. c.at - c.out + (c.out + d + i) = c.at + d - 0 + i
      BY <3>0
    <3>3. c.buffer[c.out + d + i] = data[c.at - c.out + (c.out + d + i)]
      BY <2>1, <3>1
    <3> QED BY <1>a, <3>2, <3>3
  <2>3. c.read = c.at + d - 0 + keep
    BY <1>9
  <2>4. 0 < BlockSize /\ 0 <= c.at + d
    BY <1>0, <1>9
  <2>5. e.at - e.out = c.at + d - 0
    <3>1. e.at = c.at + d /\ e.out = 0 /\ c.at + d \in Int /\ e.at \in Int /\ e.out \in Int
      BY <1>2, <1>9
    <3> QED BY <3>1
  <2>6. e.out < BlockSize /\ e.out <= e.at /\ e.read = e.at - e.out + e.tail
    <3>1. e.out = 0 /\ e.at = c.at + d /\ e.read = c.read /\ e.tail = keep
      BY <1>2
    <3> QED BY <2>3, <2>4, <2>5, <3>1
  <2>7. \A i \in 1 .. e.tail : e.buffer[i] = data[e.at - e.out + i]
    <3>1. e.tail = keep /\ e.buffer = buffer
      BY <1>2
    <3> QED BY <2>2, <2>5, <3>1
  <2> QED BY <2>6, <2>7 DEF Holds
<1>5. e.at < Len(data)
  BY <1>0, <1>2
<1> QED BY <1>2, <1>3, <1>4, <1>5, FillKeeps

\* FileCheckSummer::Step, with the move to the front of the buffer when it is full.
LEMMA StepKeeps ==
  ASSUME NEW data \in Seq(Byte), NEW c, CheckSummerInv(c, data), c.at < Len(data)
  PROVE  CheckSummerInv(Step(c, data), data) /\ Step(c, data).at = c.at + 1
<1>0. /\ Len(data) \in Nat /\ BlockSize \in Nat /\ 1 <= BlockSize /\ 2 * BlockSize \in Nat
      /\ c \in Checksummers
      /\ c.read \in Nat /\ c.tail \in Nat /\ c.out \in Nat /\ c.at \in Nat
      /\ c.tail <= 2 * BlockSize /\ c.read <= Len(data)
      /\ c.buffer \in Seq(Byte) /\ Len(c.buffer) = 2 * BlockSize
      /\ c.first \in Seq(Byte) /\ c.full \in Seq(Byte)
      /\ c.out < BlockSize /\ c.out <= c.at /\ c.read = c.at - c.out + c.tail
  BY Sizes
<1>1. CASE c.at + 1 >= Len(data)
  <2>1. Step(c, data) = AtEnd(c, data)
    BY <1>0, <1>1 DEF Step
  <2>2. c.at + 1 = Len(data)
    BY <1>0, <1>1
  <2>3. 1 \in 1 .. BlockSize
    BY <1>0
  <2>4. c.read = Len(data)
    BY <1>1, <2>3, AllIsRead
  <2> QED BY <2>1, <2>2, <2>4, AtEndKeeps
<1>2. CASE c.at + 1 < Len(data) /\ c.out + 1 < BlockSize
  <2> DEFINE e == Step(c, data)
  <2>1. e = [c EXCEPT !.at = c.at + 1, !.out = c.out + 1]
    BY <1>0, <1>2 DEF Step
  <2> HIDE DEF e
  <2>2. e = [at |-> c.at + 1, buffer |-> c.buffer, out |-> c.out + 1, tail |-> c.tail, read |-> c.read,
             first |-> c.first, full |-> c.full]
    <3>1. c \in Checksummers
      BY <1>0
    <3> QED BY <2>1, <3>1 DEF Checksummers
  <2>3. e.at = c.at + 1 /\ e.out = c.out + 1 /\ e.tail = c.tail /\ e.read = c.read /\ e.buffer = c.buffer
        /\ e.first = c.first /\ e.full = c.full
    BY <2>2
  <2>4. Sound(e, data)
    <3>1. c.at + 1 \in Nat /\ c.out + 1 \in 0 .. BlockSize /\ c.at + 1 <= Len(data)
      <4>1. c.at \in Nat /\ c.out \in Nat /\ BlockSize \in Nat /\ Len(data) \in Nat
        BY <1>0
      <4> QED BY <1>2, <4>1
    <3>0. c.tail \in 0 .. 2 * BlockSize
      BY <1>0
    <3>2. e \in Checksummers
      BY <1>0, <2>2, <3>0, <3>1 DEF Checksummers
    <3>3. Hashed(c, data)
      BY DEF CheckSummerInv, Sound
    <3>4. Hashed(e, data)
      BY <2>3, <3>3 DEF Hashed
    <3> QED BY <1>0, <2>3, <3>1, <3>2, <3>4 DEF Sound
  <2>5. Holds(e, data)
    <3>1. \A i \in 1 .. c.tail : c.buffer[i] = data[c.at - c.out + i]
      BY DEF CheckSummerInv, Holds
    <3>2. c.at + 1 - (c.out + 1) = c.at - c.out
      BY <1>0
    <3>3. c.out + 1 <= c.at + 1
      BY <1>0
    <3>4. c.out + 1 < BlockSize /\ c.read = c.at - c.out + c.tail
      BY <1>0, <1>2
    <3>5. e.at - e.out = c.at - c.out
      <4>1. e.at = c.at + 1 /\ e.out = c.out + 1
        BY <2>3
      <4>2. c.at \in Int /\ c.out \in Int /\ e.at \in Int /\ e.out \in Int
        BY <1>0, <4>1
      <4> QED BY <4>1, <4>2
    <3>6. e.out < BlockSize /\ e.out <= e.at /\ e.read = e.at - e.out + e.tail
      BY <2>3, <3>3, <3>4, <3>5
    <3>7. \A i \in 1 .. e.tail : e.buffer[i] = data[e.at - e.out + i]
      BY <2>3, <3>1, <3>5
    <3> QED BY <3>6, <3>7 DEF Holds
  <2>6. c.tail = 2 * BlockSize \/ c.read = Len(data)
    BY DEF CheckSummerInv
  <2> QED BY <1>2, <2>3, <2>4, <2>5, <2>6 DEF CheckSummerInv, e
<1>3. CASE c.at + 1 < Len(data) /\ ~(c.out + 1 < BlockSize)
  <2> DEFINE second == SubSeq(c.buffer, BlockSize + 1, 2 * BlockSize)
             keep == c.tail - (c.out + 1)
             e == [c EXCEPT !.at = c.at + 1, !.out = 0, !.tail = keep, !.buffer = second \o second]
  <2>1. c.out + 1 = BlockSize /\ 1 \in 1 .. BlockSize /\ c.tail - BlockSize = keep
    BY <1>0, <1>3
  <2>2. Step(c, data) = Fill(e, data)
    <3>1. ~(c.at + 1 >= Len(data))
      BY <1>0, <1>3
    <3>2. Step(c, data) = Fill([c EXCEPT !.at = c.at + 1, !.out = 0, !.tail = c.tail - BlockSize,
                                         !.buffer = second \o second], data)
      BY <1>3, <3>1 DEF Step
    <3> HIDE DEF second, keep
    <3> QED BY <2>1, <3>2
  <2>3. /\ second \in Seq(Byte) /\ Len(second) = BlockSize
        /\ \A i \in 1 .. BlockSize : second[i] = c.buffer[BlockSize + i]
    <3>1. /\ second \in Seq(Byte)
          /\ Len(second) = IF BlockSize < 2 * BlockSize THEN 2 * BlockSize - BlockSize ELSE 0
          /\ \A i \in 1 .. 2 * BlockSize - BlockSize : second[i] = c.buffer[BlockSize + i]
      BY <1>0, PartIs
    <3>2. 2 * BlockSize - BlockSize = BlockSize /\ BlockSize < 2 * BlockSize
      BY <1>0
    <3> HIDE DEF second
    <3> QED BY <3>1, <3>2
  <2> HIDE DEF second
  <2>4. /\ second \o second \in Seq(Byte) /\ Len(second \o second) = 2 * BlockSize
        /\ \A i \in 1 .. BlockSize : (second \o second)[i] = c.buffer[BlockSize + i]
    <3>1. /\ second \o second \in Seq(Byte) /\ Len(second \o second) = Len(second) + Len(second)
          /\ \A i \in 1 .. Len(second) + Len(second) :
               (second \o second)[i] = IF i <= Len(second) THEN second[i] ELSE second[i - Len(second)]
      BY <2>3, ConcatProperties
    <3>2. BlockSize + BlockSize = 2 * BlockSize
      BY <1>0
    <3>3. \A i \in 1 .. BlockSize : i \in 1 .. BlockSize + BlockSize /\ i <= BlockSize
      BY <1>0
    <3> QED BY <2>3, <3>1, <3>2, <3>3
  <2>5. keep \in Nat
    BY <1>3, <2>1, SomeIsKept
  <2>6. \A i \in 1 .. keep : (second \o second)[i] = c.buffer[c.out + 1 + i]
    <3>1. keep <= BlockSize
      BY <1>0, <2>1
    <3> HIDE DEF keep
    <3>2. \A i \in 1 .. keep : i \in 1 .. BlockSize /\ c.out + 1 + i = BlockSize + i
      BY <1>0, <2>1, <2>5, <3>1
    <3> QED BY <2>4, <3>2
  <2>7. CheckSummerInv(Fill(e, data), data) /\ Fill(e, data).at = c.at + 1
    <3> DEFINE buffer == second \o second
               d == 1
    <3>1. d \in 1 .. BlockSize /\ c.at + d < Len(data)
      BY <1>3, <2>1
    <3>2. buffer \in Seq(Byte) /\ Len(buffer) = 2 * BlockSize
      BY <2>4
    <3>3. \A i \in 1 .. c.tail - (c.out + d) : buffer[i] = c.buffer[c.out + d + i]
      BY <2>6
    <3> HIDE DEF buffer, d
    <3>4. LET f == Fill(Moved(c, d, buffer), data) IN CheckSummerInv(f, data) /\ f.at = c.at + d
      BY <3>1, <3>2, <3>3, MoveKeeps
    <3> QED BY <3>4 DEF buffer, d, Moved
  <2> QED BY <2>2, <2>7
<1> QED BY <1>0, <1>1, <1>2, <1>3

\* FileCheckSummer::Jump, over a block that was found.
LEMMA JumpKeeps ==
  ASSUME NEW data \in Seq(Byte), NEW c, CheckSummerInv(c, data), c.at < Len(data), NEW d \in 1 .. BlockSize
  PROVE  /\ CheckSummerInv(Jump(c, data, d), data) /\ Jump(c, data, d).at > c.at
         /\ Jump(c, data, d).at = IF c.at + d < Len(data) THEN c.at + d ELSE Len(data)
<1>0. /\ Len(data) \in Nat /\ BlockSize \in Nat /\ 1 <= BlockSize /\ 2 * BlockSize \in Nat
      /\ c.tail \in Nat /\ c.out \in Nat /\ c.at \in Nat /\ c.tail <= 2 * BlockSize
      /\ c.buffer \in Seq(Byte) /\ Len(c.buffer) = 2 * BlockSize
  BY Sizes
<1>1. CASE d = 1
  <2>1. Jump(c, data, d) = Step(c, data)
    BY <1>1 DEF Jump
  <2>2. CheckSummerInv(Step(c, data), data) /\ Step(c, data).at = c.at + 1
    BY StepKeeps
  <2>3. c.at + 1 > c.at /\ c.at + 1 = IF c.at + 1 < Len(data) THEN c.at + 1 ELSE Len(data)
    BY <1>0
  <2> QED BY <1>1, <2>1, <2>2, <2>3
<1>2. CASE d # 1 /\ c.at + d >= Len(data)
  <2>1. Jump(c, data, d) = AtEnd(c, data)
    BY <1>2 DEF Jump
  <2>2. c.read = Len(data)
    BY <1>2, AllIsRead
  <2>3. CheckSummerInv(AtEnd(c, data), data) /\ AtEnd(c, data).at = Len(data)
    BY <2>2, AtEndKeeps
  <2>4. Len(data) > c.at /\ ~(c.at + d < Len(data))
    BY <1>0, <1>2
  <2> QED BY <2>1, <2>3, <2>4
<1>3. CASE d # 1 /\ ~(c.at + d >= Len(data))
  <2> DEFINE out == c.out + d
             keep == c.tail - out
             front == SubSeq(c.buffer, out + 1, c.tail)
             back == SubSeq(c.buffer, keep + 1, 2 * BlockSize)
             buffer == front \o back
  <2>0. out \in Nat /\ d \in Nat /\ 1 <= d
    BY <1>0
  <2>1. c.at + d < Len(data)
    BY <1>0, <1>3, <2>0
  <2>2. keep \in Nat /\ keep = c.tail - out /\ keep <= 2 * BlockSize
    <3>1. keep \in Nat
      BY <2>1, SomeIsKept
    <3> QED BY <1>0, <2>0, <3>1
  <2>3. Jump(c, data, d) = Fill(Moved(c, d, buffer), data)
    BY <1>0, <1>3 DEF Jump, Moved
  <2>4. front \in Seq(Byte) /\ Len(front) = keep /\ \A i \in 1 .. keep : front[i] = c.buffer[out + i]
    <3>1. /\ front \in Seq(Byte) /\ Len(front) = IF out < c.tail THEN c.tail - out ELSE 0
          /\ \A i \in 1 .. c.tail - out : front[i] = c.buffer[out + i]
      <4> HIDE DEF out
      <4> QED BY <1>0, <2>0, PartIs
    <3> HIDE DEF out, keep, front
    <3>2. (IF out < c.tail THEN c.tail - out ELSE 0) = keep
      BY <1>0, <2>0, <2>2
    <3> QED BY <2>2, <3>1, <3>2
  <2>5. back \in Seq(Byte) /\ Len(back) = 2 * BlockSize - keep
    <3>1. /\ back \in Seq(Byte) /\ Len(back) = IF keep < 2 * BlockSize THEN 2 * BlockSize - keep ELSE 0
      <4> HIDE DEF keep
      <4> QED BY <1>0, <2>2, PartIs
    <3> HIDE DEF keep, back
    <3> QED BY <1>0, <2>2, <3>1
  <2> HIDE DEF out, keep, front, back
  <2>6. /\ buffer \in Seq(Byte) /\ Len(buffer) = 2 * BlockSize
        /\ \A i \in 1 .. keep : buffer[i] = c.buffer[out + i]
    <3>1. /\ buffer \in Seq(Byte) /\ Len(buffer) = Len(front) + Len(back)
          /\ \A i \in 1 .. Len(front) + Len(back) :
               buffer[i] = IF i <= Len(front) THEN front[i] ELSE back[i - Len(front)]
      BY <2>4, <2>5, ConcatProperties
    <3>2. keep + (2 * BlockSize - keep) = 2 * BlockSize
      BY <1>0, <2>2
    <3>3. \A i \in 1 .. keep : i \in 1 .. 2 * BlockSize /\ i <= keep
      BY <1>0, <2>2
    <3> QED BY <2>4, <2>5, <3>1, <3>2, <3>3
  <2> HIDE DEF buffer
  <2>7. LET f == Fill(Moved(c, d, buffer), data) IN CheckSummerInv(f, data) /\ f.at = c.at + d
    <3>1. \A i \in 1 .. c.tail - (c.out + d) : buffer[i] = c.buffer[c.out + d + i]
      BY <2>2, <2>6 DEF out
    <3> QED BY <2>1, <2>6, <3>1, MoveKeeps
  <2>8. c.at + d > c.at
    BY <1>0, <2>0
  <2> QED BY <2>1, <2>3, <2>7, <2>8
<1> QED BY <1>1, <1>2, <1>3

\* What a user of a checksummer relies on.
LEMMA CheckSummerRight ==
  ASSUME NEW data \in Seq(Byte), NEW c, CheckSummerInv(c, data)
  PROVE  c \in Checksummers /\ WindowRight(c, data) /\ HashesRight(c, data)
<1>0. /\ Len(data) \in Nat /\ BlockSize \in Nat /\ 1 <= BlockSize /\ 2 * BlockSize \in Nat
      /\ c \in Checksummers /\ HashedFirst \in Nat
      /\ c.read \in Nat /\ c.tail \in Nat /\ c.out \in Nat /\ c.at \in Nat
      /\ c.tail <= 2 * BlockSize /\ c.buffer \in Seq(Byte) /\ Len(c.buffer) = 2 * BlockSize
  BY SizesAssumption, Sizes
<1>1. WindowRight(c, data)
  <2> SUFFICES ASSUME c.at < Len(data)
               PROVE  /\ Window(c, BlockLength(c, data)) = Bytes(data, c.at, BlockSize)
                      /\ c.tail >= c.out + BlockLength(c, data)
    BY DEF WindowRight
  <2> DEFINE bytes == Bytes(data, c.at, BlockSize)
             n == Len(bytes)
             w == SubSeq(c.buffer, c.out + 1, c.out + n)
  <2>1. BlockLength(c, data) = n /\ Window(c, n) = w
    BY DEF BlockLength, Window
  <2>2. /\ bytes \in Seq(Byte) /\ n \in Nat /\ n <= BlockSize /\ c.at + n <= Len(data)
        /\ \A i \in 1 .. n : bytes[i] = data[c.at + i]
    <3>1. c.at <= Len(data)
      BY <1>0
    <3> QED BY <1>0, <3>1, BytesIs
  <2> HIDE DEF n
  <2>3. /\ c.out < BlockSize /\ c.out <= c.at /\ c.read = c.at - c.out + c.tail
        /\ c.tail = 2 * BlockSize \/ c.read = Len(data)
    BY Sizes
  <2>4. c.out + n <= c.tail /\ c.out + n <= 2 * BlockSize
    BY <1>0, <2>2, <2>3
  <2>5. w \in Seq(Byte) /\ Len(w) = n /\ \A i \in 1 .. n : w[i] = c.buffer[c.out + i]
    <3> DEFINE end == c.out + n
    <3>1. end \in Nat /\ end <= Len(c.buffer) /\ c.out \in Nat /\ c.buffer \in Seq(Byte)
      BY <1>0, <2>2, <2>4
    <3> HIDE DEF end
    <3>2. /\ SubSeq(c.buffer, c.out + 1, end) \in Seq(Byte)
          /\ Len(SubSeq(c.buffer, c.out + 1, end)) = IF c.out < end THEN end - c.out ELSE 0
          /\ \A i \in 1 .. end - c.out : SubSeq(c.buffer, c.out + 1, end)[i] = c.buffer[c.out + i]
      BY <3>1, PartIs
    <3>3. (IF c.out < end THEN end - c.out ELSE 0) = n /\ end - c.out = n
      BY <1>0, <2>2 DEF end
    <3>4. w = SubSeq(c.buffer, c.out + 1, end)
      BY DEF end
    <3> HIDE DEF w
    <3> QED BY <3>2, <3>3, <3>4
  <2>6. \A i \in 1 .. c.tail : c.buffer[i] = data[c.at - c.out + i]
    BY DEF CheckSummerInv, Holds
  <2>7. ASSUME NEW i \in 1 .. n
        PROVE  c.buffer[c.out + i] = data[c.at + i]
    <3>1. c.out + i \in 1 .. c.tail
      BY <1>0, <2>2, <2>4
    <3>2. c.at - c.out + (c.out + i) = c.at + i
      BY <1>0, <2>2
    <3>3. c.buffer[c.out + i] = data[c.at - c.out + (c.out + i)]
      BY <2>6, <3>1
    <3> QED BY <3>2, <3>3
  <2>8. w = bytes
    <3>1. Len(bytes) = n
      BY DEF n
    <3> HIDE DEF w, bytes
    <3> QED BY <2>2, <2>5, <2>7, <3>1, SeqEqual
  <2>9. c.tail >= c.out + n
    BY <1>0, <2>2, <2>4
  <2> QED BY <2>1, <2>8, <2>9
<1>2. HashesRight(c, data)
  <2> SUFFICES ASSUME c.at = Len(data)
               PROVE  HashFull(c, data) = data /\ Hash16k(c) = Bytes(data, 0, HashedFirst)
    BY DEF HashesRight
  <2>1. c.read = Len(data) /\ Hashed(c, data)
    BY <1>0 DEF CheckSummerInv, Sound
  <2>2. SubSeq(data, 1, Len(data)) = data
    BY AllOfIt
  <2>3. Bytes(data, 0, HashedFirst) = SubSeq(data, 1, IF Len(data) < HashedFirst THEN Len(data) ELSE HashedFirst)
    <3>1. 0 + 1 = 1 /\ 0 + HashedFirst = HashedFirst
      BY <1>0
    <3>2. (IF HashedFirst < Len(data) THEN HashedFirst ELSE Len(data))
          = IF Len(data) < HashedFirst THEN Len(data) ELSE HashedFirst
      BY <1>0
    <3> QED BY <3>1, <3>2 DEF Bytes
  <2>4. c.first = Bytes(data, 0, HashedFirst)
    BY <2>1, <2>3 DEF Hashed
  <2>5. HashFull(c, data) = data
    BY <2>1, <2>2 DEF HashFull, Hashed
  <2> QED BY <2>4, <2>5 DEF Hash16k
<1> QED BY <1>0, <1>1, <1>2

-----------------------------------------------------------------------------
(* Induction, folds and lists.  A function that recurs is chosen by its     *)
(* equation: first that there is one, then what any that there is has.      *)

\* A set of numbers has a least one, and so what holds of a number when it
\* holds of all that are smaller holds of every number.
LEMMA LeastExists ==
  ASSUME NEW S \in SUBSET Nat, S # {}
  PROVE  \E x \in S : \A y \in S : x <= y
<1> DEFINE Before == {ss \in Nat \X Nat : ss[1] < ss[2]}
<1>1. IsWellFoundedOn(Before, Nat)
  BY NatLessThanWellFounded DEF OpToRel
<1> HIDE DEF Before
<1>2. PICK x \in S : \A y \in S : ~(<<y, x>> \in Before)
  BY <1>1, WFMin
<1>3. ASSUME NEW y \in S PROVE x <= y
  <2>1. x \in Nat /\ y \in Nat /\ ~(<<y, x>> \in Before)
    BY <1>2
  <2>2. <<y, x>> \in Nat \X Nat /\ <<y, x>>[1] = y /\ <<y, x>>[2] = x
    BY <2>1
  <2>3. ~(y < x)
    BY <2>1, <2>2 DEF Before
  <2> QED BY <2>1, <2>3
<1> QED BY <1>3

LEMMA Induction ==
  ASSUME NEW T, 0 \in T, \A n \in Nat : n \in T => n + 1 \in T
  PROVE  \A n \in Nat : n \in T
<1> SUFFICES ASSUME Nat \ T # {} PROVE FALSE
  OBVIOUS
<1>1. PICK x \in Nat \ T : \A y \in Nat \ T : x <= y
  BY LeastExists
<1>2. x # 0
  OBVIOUS
<1>3. x - 1 \in Nat /\ x - 1 \in T
  BY <1>1, <1>2
<1> QED BY <1>1, <1>3

\* Greatest and least members.
LEMMA MaxIs ==
  ASSUME NEW n \in Nat, NEW S \in SUBSET (1 .. n), S # {}
  PROVE  Max(S) \in S /\ \A y \in S : y <= Max(S)
<1> DEFINE D == {n - x : x \in S}
<1>1. D \in SUBSET Nat /\ D # {}
  <2>1. \A x \in S : n - x \in Nat
    OBVIOUS
  <2> QED BY <2>1
<1>2. PICK d \in D : \A e \in D : d <= e
  BY <1>1, LeastExists
<1>3. PICK x \in S : d = n - x
  BY <1>2
<1>4. ASSUME NEW y \in S PROVE x >= y
  <2>1. n - y \in D
    OBVIOUS
  <2>2. n - x <= n - y
    BY <1>2, <1>3, <2>1
  <2>3. x \in Int /\ y \in Int /\ n \in Int
    <3>1. \A z \in S : z \in 1 .. n
      OBVIOUS
    <3>2. x \in 1 .. n /\ y \in 1 .. n
      BY <3>1
    <3> QED BY <3>2
  <2> QED BY <2>2, <2>3
<1>5. \E z \in S : \A y \in S : z >= y
  BY <1>4
<1>6. Max(S) \in S /\ \A y \in S : Max(S) >= y
  BY <1>5 DEF Max
<1>7. Max(S) \in Int /\ \A y \in S : y \in Int
  <2>1. \A z \in S : z \in 1 .. n
    OBVIOUS
  <2>2. Max(S) \in 1 .. n
    BY <1>6, <2>1
  <2> QED BY <2>1, <2>2
<1> QED BY <1>6, <1>7

LEMMA MinIs ==
  ASSUME NEW S \in SUBSET Nat, S # {}
  PROVE  Min(S) \in S
<1>1. \E x \in S : \A y \in S : x <= y
  BY LeastExists
<1> QED BY <1>1 DEF Min

\* What is left of some numbers without the greatest of them.
LEMMA WithoutMax ==
  ASSUME NEW k \in Nat, NEW s \in SUBSET (1 .. k + 1), s # {}
  PROVE  Max(s) \in s /\ s \ {Max(s)} \in SUBSET (1 .. k)
<1>1. k + 1 \in Nat
  OBVIOUS
<1>2. Max(s) \in s /\ \A y \in s : y <= Max(s)
  BY <1>1, MaxIs
<1>3. ASSUME NEW x \in s, x # Max(s) PROVE x \in 1 .. k
  <2>1. x <= Max(s) /\ x \in 1 .. k + 1 /\ Max(s) \in 1 .. k + 1
    BY <1>2
  <2> QED BY <1>3, <2>1
<1> QED BY <1>2, <1>3

\* FoldLeft's function: what comes of some of the members, the last one last.
IsFold(h, n, A, base, g) ==
  /\ h \in [SUBSET (1 .. n) -> A]
  /\ \A s \in SUBSET (1 .. n) : h[s] = IF s = {} THEN base ELSE g[h[s \ {Max(s)}], Max(s)]

\* A fold over the positions of a sequence exists, and what every step keeps
\* holds of the result.
LEMMA FoldExists ==
  ASSUME NEW n \in Nat, NEW A, NEW base \in A, NEW g \in [A \X (1 .. n) -> A]
  PROVE  \E h : IsFold(h, n, A, base, g)
<1> DEFINE Value(h, s) == IF s = {} THEN base ELSE g[h[s \ {Max(s)}], Max(s)]
           P(k) == \E h \in [SUBSET (1 .. k) -> A] : \A s \in SUBSET (1 .. k) : h[s] = Value(h, s)
           T == {k \in Nat : k <= n => P(k)}
<1>1. 0 \in T
  <2> DEFINE h == [s \in SUBSET (1 .. 0) |-> base]
  <2>1. \A s \in SUBSET (1 .. 0) : s = {}
    OBVIOUS
  <2>2. h \in [SUBSET (1 .. 0) -> A] /\ \A s \in SUBSET (1 .. 0) : h[s] = Value(h, s)
    BY <2>1
  <2> HIDE DEF h
  <2> QED BY <2>2
<1>2. ASSUME NEW k \in Nat, k \in T PROVE k + 1 \in T
  <2> SUFFICES ASSUME k + 1 <= n PROVE P(k + 1)
    <3> HIDE DEF P
    <3> QED OBVIOUS
  <2>0. k <= n
    OBVIOUS
  <2>1. PICK h \in [SUBSET (1 .. k) -> A] : \A s \in SUBSET (1 .. k) : h[s] = Value(h, s)
    BY <1>2, <2>0
  <2> DEFINE D == SUBSET (1 .. k + 1)
             q == [s \in D |-> Value(h, s)]
  <2>2. ASSUME NEW s \in D, s # {}
        PROVE  s \ {Max(s)} \in SUBSET (1 .. k) /\ Max(s) \in 1 .. n
    <3>1. Max(s) \in s /\ s \ {Max(s)} \in SUBSET (1 .. k)
      BY <2>2, WithoutMax
    <3>2. Max(s) \in 1 .. k + 1
      BY <3>1
    <3> QED BY <3>1, <3>2
  <2>3. ASSUME NEW s \in D PROVE Value(h, s) \in A
    <3>1. CASE s = {}
      BY <3>1
    <3>2. CASE s # {}
      <4>1. h[s \ {Max(s)}] \in A /\ Max(s) \in 1 .. n
        BY <2>1, <2>2, <3>2
      <4> QED BY <3>2, <4>1
    <3> QED BY <3>1, <3>2
  <2>4. ASSUME NEW s \in SUBSET (1 .. k) PROVE q[s] = h[s]
    <3>1. s \in D
      OBVIOUS
    <3> QED BY <2>1, <3>1
  <2>5. ASSUME NEW s \in D PROVE q[s] = Value(q, s)
    <3>0. q[s] = Value(h, s)
      OBVIOUS
    <3>1. CASE s = {}
      BY <3>0, <3>1
    <3>2. CASE s # {}
      <4>1. q[s \ {Max(s)}] = h[s \ {Max(s)}]
        BY <2>2, <2>4, <3>2
      <4> QED BY <3>0, <4>1
    <3> QED BY <3>1, <3>2
  <2>6. q \in [D -> A]
    BY <2>3
  <2> HIDE DEF q, Value
  <2>7. \E r \in [D -> A] : \A s \in D : r[s] = Value(r, s)
    BY <2>5, <2>6
  <2> QED BY <2>7
<1> HIDE DEF T
<1>3. \A k \in Nat : k \in T
  BY <1>1, <1>2, Induction
<1>4. P(n)
  <2> HIDE DEF P
  <2> QED BY <1>3 DEF T
<1> QED BY <1>4 DEF IsFold

LEMMA FoldStays ==
  ASSUME NEW n \in Nat, NEW A, NEW h, h[{}] \in A,
         \A s \in SUBSET (1 .. n) : s # {} /\ h[s \ {Max(s)}] \in A => h[s] \in A
  PROVE  \A s \in SUBSET (1 .. n) : h[s] \in A
<1> DEFINE P(k) == \A s \in SUBSET (1 .. k) : h[s] \in A
           T == {k \in Nat : k <= n => P(k)}
<1>1. 0 \in T
  <2>1. \A s \in SUBSET (1 .. 0) : s = {}
    OBVIOUS
  <2> QED BY <2>1
<1>2. ASSUME NEW k \in Nat, k \in T PROVE k + 1 \in T
  <2> SUFFICES ASSUME k + 1 <= n PROVE P(k + 1)
    <3> HIDE DEF P
    <3> QED OBVIOUS
  <2> SUFFICES ASSUME NEW s \in SUBSET (1 .. k + 1) PROVE h[s] \in A
    OBVIOUS
  <2>1. CASE s = {}
    BY <2>1
  <2>2. CASE s # {}
    <3>1. s \ {Max(s)} \in SUBSET (1 .. k)
      BY <2>2, WithoutMax
    <3>2. h[s \ {Max(s)}] \in A
      BY <1>2, <3>1
    <3>3. s \in SUBSET (1 .. n)
      OBVIOUS
    <3> QED BY <2>2, <3>2, <3>3
  <2> QED BY <2>1, <2>2
<1> HIDE DEF T
<1>3. \A k \in Nat : k \in T
  BY <1>1, <1>2, Induction
<1>4. P(n)
  <2> HIDE DEF P
  <2> QED BY <1>3 DEF T
<1> QED BY <1>4

\* Lists: the value of the member at which a list ends, for each at which one
\* starts.  The rank of the members falls along the links.
IsEnd(f, D, ends, link, val) == \A i \in D : f[i] = IF i \in ends THEN val[i] ELSE f[link[i]]

Falls(n, D, ends, link, rank) ==
  /\ n \in Nat /\ \A i \in D : rank[i] \in 0 .. n
  /\ \A i \in D : i \notin ends => link[i] \in D /\ rank[link[i]] < rank[i]

\* A walk along links that only lead onward ends, at a member of ends or nowhere.
LEMMA EndExists ==
  ASSUME NEW n, NEW D, NEW ends, NEW link, NEW rank, Falls(n, D, ends, link, rank),
         NEW R, NEW val, \A i \in D : i \in ends => val[i] \in R
  PROVE  \E f \in [D -> R] : IsEnd(f, D, ends, link, val)
<1> DEFINE E(k) == {i \in D : rank[i] < k}
           P(k) == \E f \in [E(k) -> R] : IsEnd(f, E(k), ends, link, val)
           T == {k \in Nat : P(k)}
<1>0. /\ n \in Nat /\ \A i \in D : rank[i] \in 0 .. n
      /\ \A i \in D : i \notin ends => link[i] \in D /\ rank[link[i]] < rank[i]
  BY DEF Falls
<1>1. 0 \in T
  <2>1. E(0) = {}
    BY <1>0
  <2> DEFINE f == [i \in E(0) |-> 0]
  <2> HIDE DEF E
  <2>2. f \in [E(0) -> R] /\ IsEnd(f, E(0), ends, link, val)
    BY <2>1 DEF IsEnd
  <2> HIDE DEF f
  <2> QED BY <2>2
<1>2. ASSUME NEW k \in Nat, k \in T PROVE k + 1 \in T
  <2>1. PICK f \in [E(k) -> R] : IsEnd(f, E(k), ends, link, val)
    BY <1>2
  <2> DEFINE q == [i \in E(k + 1) |-> IF i \in ends THEN val[i] ELSE f[link[i]]]
  <2>2. ASSUME NEW i \in E(k + 1), i \notin ends PROVE link[i] \in E(k)
    <3>1. i \in D /\ rank[i] \in Nat /\ rank[i] < k + 1
      BY <1>0
    <3>2. link[i] \in D /\ rank[link[i]] < rank[i] /\ rank[link[i]] \in Nat
      BY <1>0, <2>2, <3>1
    <3>3. rank[link[i]] < k
      BY <3>1, <3>2
    <3> QED BY <3>2, <3>3
  <2>3. \A i \in E(k) : i \in E(k + 1) /\ i \in D
    <3>1. ASSUME NEW i \in E(k) PROVE i \in E(k + 1)
      <4>1. i \in D /\ rank[i] \in Nat /\ rank[i] < k
        BY <1>0
      <4>2. rank[i] < k + 1
        BY <4>1
      <4> QED BY <4>1, <4>2
    <3> QED BY <3>1
  <2>4. \A i \in E(k + 1) : i \in D
    OBVIOUS
  <2> HIDE DEF E
  <2>5. q \in [E(k + 1) -> R]
    BY <2>1, <2>2, <2>4
  <2>6. \A i \in E(k) : q[i] = f[i]
    BY <2>1, <2>3 DEF IsEnd
  <2>7. IsEnd(q, E(k + 1), ends, link, val)
    <3>1. ASSUME NEW i \in E(k + 1) PROVE q[i] = IF i \in ends THEN val[i] ELSE q[link[i]]
      <4>1. q[i] = IF i \in ends THEN val[i] ELSE f[link[i]]
        OBVIOUS
      <4> HIDE DEF q
      <4> QED BY <2>2, <2>6, <4>1
    <3> HIDE DEF q
    <3> QED BY <3>1 DEF IsEnd
  <2> HIDE DEF q
  <2> QED BY <2>5, <2>7
<1> HIDE DEF T
<1>3. \A k \in Nat : k \in T
  BY <1>1, <1>2, Induction
<1>4. P(n + 1)
  <2>1. n + 1 \in Nat
    BY <1>0
  <2> HIDE DEF P
  <2> QED BY <1>3, <2>1 DEF T
<1>5. E(n + 1) = D
  <2>1. ASSUME NEW i \in D PROVE rank[i] < n + 1
    <3>1. rank[i] \in 0 .. n /\ n \in Nat
      BY <1>0
    <3> QED BY <3>1
  <2> QED BY <2>1
<1> HIDE DEF E
<1> QED BY <1>4, <1>5

\* It is that of an end, one in every set that the links do not lead out of.
LEMMA EndIs ==
  ASSUME NEW n, NEW D, NEW ends, NEW link, NEW rank, Falls(n, D, ends, link, rank),
         NEW val, NEW f, IsEnd(f, D, ends, link, val),
         NEW K, \A i \in K : i \in D /\ i \notin ends => link[i] \in K
  PROVE  \A i \in D : \E j \in D : j \in ends /\ f[i] = val[j] /\ (i \in K => j \in K)
<1> DEFINE Found(i) == \E j \in D : j \in ends /\ f[i] = val[j] /\ (i \in K => j \in K)
           T == {k \in Nat : \A i \in D : rank[i] < k => Found(i)}
<1>0. /\ n \in Nat /\ \A i \in D : rank[i] \in 0 .. n
      /\ \A i \in D : i \notin ends => link[i] \in D /\ rank[link[i]] < rank[i]
  BY DEF Falls
<1> HIDE DEF Found
<1>1. 0 \in T
  BY <1>0
<1>2. ASSUME NEW k \in Nat, k \in T PROVE k + 1 \in T
  <2> SUFFICES ASSUME NEW i \in D, rank[i] < k + 1 PROVE Found(i)
    OBVIOUS
  <2>0. \A l \in D : rank[l] < k => Found(l)
    BY <1>2
  <2>1. CASE i \in ends
    <3>1. f[i] = val[i]
      BY <2>1 DEF IsEnd
    <3> QED BY <2>1, <3>1 DEF Found
  <2>2. CASE i \notin ends
    <3>1. f[i] = f[link[i]]
      BY <2>2 DEF IsEnd
    <3>2. link[i] \in D /\ rank[link[i]] < rank[i] /\ rank[link[i]] \in 0 .. n /\ rank[i] \in 0 .. n /\ n \in Nat
      BY <1>0, <2>2
    <3>3. rank[link[i]] < k
      BY <3>2
    <3>4. PICK j \in D : j \in ends /\ f[link[i]] = val[j] /\ (link[i] \in K => j \in K)
      BY <2>0, <3>2, <3>3 DEF Found
    <3>5. i \in K => link[i] \in K
      BY <2>2
    <3> QED BY <3>1, <3>4, <3>5 DEF Found
  <2> QED BY <2>1, <2>2
<1> HIDE DEF T
<1>3. \A k \in Nat : k \in T
  BY <1>1, <1>2, Induction
<1>4. ASSUME NEW i \in D PROVE Found(i)
  <2>1. rank[i] \in 0 .. n /\ n \in Nat
    BY <1>0
  <2>2. n + 1 \in Nat /\ rank[i] < n + 1
    BY <2>1
  <2>3. n + 1 \in T
    BY <1>3, <2>2
  <2> QED BY <2>2, <2>3 DEF T
<1> QED BY <1>4 DEF Found

-----------------------------------------------------------------------------
(* The table. *)

\* A walk along links that lead onward ends.
IsWalk(f, link, ends) ==
  f = [j \in {0} \cup DOMAIN link |-> IF j = 0 \/ j \in ends THEN j ELSE f[link[j]]]

Onward(n, link) ==
  n \in Nat /\ DOMAIN link = 1 .. n /\ \A i \in 1 .. n : link[i] = 0 \/ (link[i] \in 1 .. n /\ i < link[i])

\* A walk along links that lead onward comes nearer to the end of the table.
LEMMA WalkFalls ==
  ASSUME NEW n, NEW link, Onward(n, link), NEW ends
  PROVE  LET D == {0} \cup DOMAIN link IN
         Falls(n + 1, D, {j \in D : j = 0 \/ j \in ends}, link, [j \in D |-> IF j = 0 THEN 0 ELSE n + 1 - j])
<1> DEFINE D == {0} \cup DOMAIN link
           stop == {j \in D : j = 0 \/ j \in ends}
           rank == [j \in D |-> IF j = 0 THEN 0 ELSE n + 1 - j]
<1>0. n \in Nat /\ D = 0 .. n
  BY DEF Onward
<1>1. ASSUME NEW j \in D PROVE rank[j] \in 0 .. n + 1
  <2>1. j \in Nat /\ j <= n
    BY <1>0
  <2> QED BY <1>0, <2>1
<1>2. ASSUME NEW j \in D, j \notin stop PROVE link[j] \in D /\ rank[link[j]] < rank[j]
  <2>1. j \in 1 .. n
    BY <1>0, <1>2
  <2>2. link[j] = 0 \/ (link[j] \in 1 .. n /\ j < link[j])
    BY <2>1 DEF Onward
  <2>3. link[j] \in D
    BY <2>2 DEF Onward
  <2>4. rank[j] = n + 1 - j /\ rank[link[j]] = IF link[j] = 0 THEN 0 ELSE n + 1 - link[j]
    BY <2>1, <2>3
  <2> HIDE DEF rank, D
  <2> QED BY <1>0, <2>1, <2>2, <2>3, <2>4
<1>3. n + 1 \in Nat
  BY <1>0
<1> HIDE DEF rank, stop, D
<1>4. Falls(n + 1, D, stop, link, rank)
  BY <1>1, <1>2, <1>3 DEF Falls
<1> QED BY <1>4 DEF rank, stop, D

LEMMA WalkExists ==
  ASSUME NEW n, NEW link, Onward(n, link), NEW ends
  PROVE  \E g : IsWalk(g, link, ends)
<1> DEFINE D == {0} \cup DOMAIN link
           stop == {j \in D : j = 0 \/ j \in ends}
           val == [j \in D |-> j]
           R == {val[j] : j \in D}
           rank == [j \in D |-> IF j = 0 THEN 0 ELSE n + 1 - j]
<1>1. Falls(n + 1, D, stop, link, rank)
  BY WalkFalls
<1>2. \A g : IsEnd(g, D, stop, link, val) <=>
        \A j \in D : g[j] = IF j = 0 \/ j \in ends THEN j ELSE g[link[j]]
  BY DEF IsEnd
<1>3. \A j \in D : j \in stop => val[j] \in R
  OBVIOUS
<1> HIDE DEF rank, stop, val, R, D
<1>4. PICK g \in [D -> R] : IsEnd(g, D, stop, link, val)
  BY <1>1, <1>3, EndExists
<1>5. g = [j \in D |-> IF j = 0 \/ j \in ends THEN j ELSE g[link[j]]]
  BY <1>2, <1>4
<1>6. IsWalk(g, link, ends)
  BY <1>5 DEF IsWalk, D
<1> QED BY <1>6

\* EndOf ends where it should, and at an entry of any set the links stay in.
LEMMA EndOfIs ==
  ASSUME NEW n, NEW link, Onward(n, link), NEW ends, NEW i \in 0 .. n,
         NEW K, \A j \in K : j \in (1 .. n) \ ends => link[j] \in K
  PROVE  LET r == EndOf(link, ends, i) IN
         r \in 0 .. n /\ (r # 0 => r \in ends) /\ (i \in K => r \in K)
<1> DEFINE D == {0} \cup DOMAIN link
           stop == {j \in D : j = 0 \/ j \in ends}
           val == [j \in D |-> j]
           rank == [j \in D |-> IF j = 0 THEN 0 ELSE n + 1 - j]
           f == CHOOSE f : IsWalk(f, link, ends)
<1>0. n \in Nat /\ D = 0 .. n
  BY DEF Onward
<1>1. Falls(n + 1, D, stop, link, rank)
  BY WalkFalls
<1>2. IsWalk(f, link, ends)
  BY WalkExists
<1>3. EndOf(link, ends, i) = f[i]
  BY DEF EndOf, IsWalk
<1> HIDE DEF f
<1>4. IsEnd(f, D, stop, link, val)
  BY <1>2 DEF IsEnd, IsWalk
<1>5. \A j \in K : j \in D /\ j \notin stop => link[j] \in K
  BY <1>0
<1>6. i \in D
  BY <1>0
<1>7. \E j \in D : j \in stop /\ f[i] = val[j] /\ (i \in K => j \in K)
  <2> HIDE DEF rank, stop, val, D
  <2>1. \A l \in D : \E j \in D : j \in stop /\ f[l] = val[j] /\ (l \in K => j \in K)
    BY <1>1, <1>4, <1>5, EndIs
  <2> QED BY <1>6, <2>1
<1> QED BY <1>0, <1>3, <1>7

\* What is known of an entry for good: C is what the entries of a table can be.
Core(e) == <<e.file, e.num, e.last, e.hash, e.length>>

Entries(C) ==
  {e \in [file : Nat, num : Nat, last : BOOLEAN, hash : BlockData, crc : Nat, length : 1 .. BlockSize,
          left : Nat, right : Nat, same : Nat] : e.crc = Crc(e.hash) /\ Core(e) \in C}

\* Null, or a later entry.
Down(p, i, n) == p = 0 \/ (p \in Nat /\ i < p /\ p <= n)

Linked(entry, i, n) ==
  /\ Down(entry[i].left, i, n) /\ Down(entry[i].right, i, n) /\ Down(entry[i].same, i, n)
  /\ entry[i].same # 0 => entry[entry[i].same].hash = entry[i].hash

IsTable(t, C, n) ==
  /\ t = [entry |-> t.entry, root |-> t.root]
  /\ n \in Nat /\ t.entry \in Seq(Entries(C)) /\ Len(t.entry) = n
  /\ t.root \in [0 .. Buckets - 1 -> 0 .. n]
  /\ \A i \in 1 .. n : Linked(t.entry, i, n)

\* What tables consist of.
LEMMA EntryFields ==
  ASSUME NEW C, NEW e \in Entries(C)
  PROVE  /\ e.file \in Nat /\ e.num \in Nat /\ e.last \in BOOLEAN /\ e.hash \in BlockData /\ e.crc \in Nat
         /\ e.length \in 1 .. BlockSize /\ e.left \in Nat /\ e.right \in Nat /\ e.same \in Nat
         /\ e.crc = Crc(e.hash) /\ Core(e) \in C
BY DEF Entries

LEMMA RootFits ==
  ASSUME NEW crc \in Nat
  PROVE  crc % Buckets \in 0 .. Buckets - 1
BY BucketsAssumption

\* The numbers of hashes tell them apart.
LEMMA SameHash ==
  ASSUME NEW C, NEW e \in Entries(C), NEW crc \in Nat, NEW hash \in BlockData,
         ~Less(crc, hash, e), ~Greater(crc, hash, e)
  PROVE  e.crc = crc /\ e.hash = hash
<1>1. e.crc \in Nat /\ e.hash \in BlockData /\ Number(hash) \in Nat /\ Number(e.hash) \in Nat
  BY EntryFields, NumberAssumption
<1>2. e.crc = crc
  BY <1>1 DEF Less, Greater
<1>3. Number(hash) = Number(e.hash)
  BY <1>1, <1>2 DEF Less, Greater
<1> QED BY <1>1, <1>2, <1>3, NumberAssumption

\* The entries of a table, and where their pointers lead.
LEMMA TableHas ==
  ASSUME NEW C, NEW n, NEW t, IsTable(t, C, n)
  PROVE  /\ n \in Nat /\ Len(t.entry) = n /\ DOMAIN t.entry = 1 .. n
         /\ \A i \in 1 .. n :
              /\ t.entry[i] \in Entries(C)
              /\ Linked(t.entry, i, n)
<1>1. n \in Nat /\ Len(t.entry) = n /\ t.entry \in Seq(Entries(C))
  BY DEF IsTable
<1>2. DOMAIN t.entry = 1 .. n /\ \A i \in 1 .. n : t.entry[i] \in Entries(C)
  BY <1>1
<1> QED BY <1>1, <1>2 DEF IsTable

\* The links of each kind lead onward.
LEMMA LinksOnward ==
  ASSUME NEW C, NEW n, NEW t, IsTable(t, C, n), NEW link, DOMAIN link = DOMAIN t.entry,
         \A i \in DOMAIN t.entry : link[i] \in {t.entry[i].left, t.entry[i].right, t.entry[i].same}
  PROVE  Onward(n, link)
<1>1. n \in Nat /\ DOMAIN link = 1 .. n
  BY TableHas
<1>2. ASSUME NEW i \in 1 .. n PROVE link[i] = 0 \/ (link[i] \in 1 .. n /\ i < link[i])
  <2>1. Down(link[i], i, n)
    BY TableHas DEF Linked
  <2> QED BY <1>1, <2>1 DEF Down
<1> QED BY <1>1, <1>2 DEF Onward

\* What the two searches find has the CRC, and the hash, that are looked for.
LEMMA SearchCrcIs ==
  ASSUME NEW C, NEW n, NEW t, IsTable(t, C, n), NEW crc \in Nat
  PROVE  LET r == SearchCrc(t, crc) IN r \in 0 .. n /\ (r # 0 => t.entry[r].crc = crc)
<1> DEFINE link == [i \in DOMAIN t.entry |->
                      IF t.entry[i].crc < crc THEN t.entry[i].right ELSE t.entry[i].left]
           ends == {i \in DOMAIN t.entry : t.entry[i].crc = crc}
           b == crc % Buckets
<1>1. Onward(n, link)
  BY LinksOnward
<1>2. t.root[b] \in 0 .. n
  <2>1. b \in 0 .. Buckets - 1
    BY RootFits
  <2> HIDE DEF b
  <2> QED BY <2>1 DEF IsTable
<1>3. SearchCrc(t, crc) = EndOf(link, ends, t.root[b])
  BY DEF SearchCrc
<1>4. \A j \in {} : j \in (1 .. n) \ ends => link[j] \in {}
  OBVIOUS
<1> HIDE DEF link, ends, b
<1>5. SearchCrc(t, crc) \in 0 .. n /\ (SearchCrc(t, crc) # 0 => SearchCrc(t, crc) \in ends)
  BY <1>1, <1>2, <1>3, <1>4, EndOfIs
<1> QED BY <1>5 DEF ends

LEMMA SearchHashIs ==
  ASSUME NEW C, NEW n, NEW t, IsTable(t, C, n), NEW from \in 1 .. n, NEW hash \in BlockData
  PROVE  LET r == SearchHash(t, from, hash) IN r \in 0 .. n /\ (r # 0 => t.entry[r].hash = hash)
<1> DEFINE crc == t.entry[from].crc
           right == {i \in DOMAIN t.entry : Greater(crc, hash, t.entry[i])}
           left == {i \in DOMAIN t.entry : Less(crc, hash, t.entry[i])}
           link == [i \in DOMAIN t.entry |-> IF i \in right THEN t.entry[i].right ELSE t.entry[i].left]
           ends == (DOMAIN t.entry) \ (left \cup right)
<1>1. Onward(n, link)
  BY LinksOnward
<1>2. from \in 0 .. n /\ crc \in Nat /\ n \in Nat
  BY TableHas, EntryFields
<1>3. SearchHash(t, from, hash) = EndOf(link, ends, from)
  BY DEF SearchHash
<1>4. \A j \in {} : j \in (1 .. n) \ ends => link[j] \in {}
  OBVIOUS
<1>5. ASSUME NEW r \in ends PROVE t.entry[r].hash = hash
  <2>1. t.entry[r] \in Entries(C)
    BY TableHas
  <2>2. ~Less(crc, hash, t.entry[r]) /\ ~Greater(crc, hash, t.entry[r])
    OBVIOUS
  <2> HIDE DEF crc
  <2> QED BY <1>2, <2>1, <2>2, SameHash
<1> HIDE DEF link, ends
<1>6. SearchHash(t, from, hash) \in 0 .. n /\ (SearchHash(t, from, hash) # 0 => SearchHash(t, from, hash) \in ends)
  BY <1>1, <1>2, <1>3, <1>4, EndOfIs
<1> QED BY <1>5, <1>6

\* The list of an entry: those on it have its hash.
LEMMA FirstOfIs ==
  ASSUME NEW C, NEW n, NEW t, IsTable(t, C, n), NEW from \in 1 .. n, NEW S
  PROVE  LET r == FirstOf(t, from, S) IN
         r \in 0 .. n /\ (r # 0 => r \in S /\ t.entry[r].hash = t.entry[from].hash)
<1> DEFINE link == [j \in DOMAIN t.entry |-> t.entry[j].same]
           K == {0} \cup {j \in 1 .. n : t.entry[j].hash = t.entry[from].hash}
<1>1. Onward(n, link)
  BY LinksOnward
<1>2. from \in 0 .. n /\ from \in K
  BY TableHas
<1>3. FirstOf(t, from, S) = EndOf(link, S, from)
  BY DEF FirstOf
<1>4. ASSUME NEW j \in K, j \in (1 .. n) \ S PROVE link[j] \in K
  <2>1. link[j] = t.entry[j].same /\ Linked(t.entry, j, n)
    BY <1>4, TableHas
  <2>2. Down(link[j], j, n) /\ (link[j] # 0 => t.entry[link[j]].hash = t.entry[j].hash)
    BY <2>1 DEF Linked
  <2>3. j \in 1 .. n /\ t.entry[j].hash = t.entry[from].hash /\ n \in Nat
    BY <1>4, TableHas
  <2> HIDE DEF link
  <2>4. link[j] = 0 \/ link[j] \in 1 .. n
    BY <2>2, <2>3 DEF Down
  <2> QED BY <2>2, <2>3, <2>4
<1> HIDE DEF link, K
<1>5. FirstOf(t, from, S) \in 0 .. n /\ (FirstOf(t, from, S) # 0 => FirstOf(t, from, S) \in S)
      /\ FirstOf(t, from, S) \in K
  BY <1>1, <1>2, <1>3, <1>4, EndOfIs
<1> QED BY <1>5 DEF K

\* Insertion at the end of a list of pointers.
LEMMA PointTo ==
  ASSUME NEW C, NEW e \in Entries(C), NEW way \in {"left", "right", "same"}, NEW m \in Nat
  PROVE  LET x == [e EXCEPT ![way] = m] IN
         /\ x \in Entries(C) /\ x.hash = e.hash
         /\ x.left = IF way = "left" THEN m ELSE e.left
         /\ x.right = IF way = "right" THEN m ELSE e.right
         /\ x.same = IF way = "same" THEN m ELSE e.same
<1>1. CASE way = "left"
  <2>1. [e EXCEPT !["left"] = m] = [e EXCEPT !.left = m]
    OBVIOUS
  <2> QED BY <1>1, <2>1 DEF Entries, Core
<1>2. CASE way = "right"
  <2>1. [e EXCEPT !["right"] = m] = [e EXCEPT !.right = m]
    OBVIOUS
  <2> QED BY <1>2, <2>1 DEF Entries, Core
<1>3. CASE way = "same"
  <2>1. [e EXCEPT !["same"] = m] = [e EXCEPT !.same = m]
    OBVIOUS
  <2> QED BY <1>3, <2>1 DEF Entries, Core
<1> QED BY <1>1, <1>2, <1>3

\* Entries whose pointers lead to later ones, when one more is appended.
LEMMA StillLinked ==
  ASSUME NEW C, NEW n \in Nat, NEW a \in Seq(Entries(C)), Len(a) = n,
         NEW e \in Entries(C), e.left = 0, e.right = 0, e.same = 0,
         \A i \in 1 .. n :
           /\ Down(a[i].left, i, n + 1) /\ Down(a[i].right, i, n + 1) /\ Down(a[i].same, i, n + 1)
           /\ a[i].same # 0 => a[i].hash = IF a[i].same = n + 1 THEN e.hash ELSE a[a[i].same].hash
  PROVE  LET s == Append(a, e) IN
         /\ s \in Seq(Entries(C)) /\ Len(s) = n + 1 /\ s[n + 1] = e
         /\ \A i \in 1 .. n + 1 : Linked(s, i, n + 1)
<1> DEFINE s == Append(a, e)
<1>1. s \in Seq(Entries(C)) /\ Len(s) = n + 1 /\ s[n + 1] = e /\ \A i \in 1 .. n : s[i] = a[i]
  OBVIOUS
<1> HIDE DEF s
<1>2. Linked(s, n + 1, n + 1)
  BY <1>1 DEF Linked, Down
<1>3. ASSUME NEW i \in 1 .. n PROVE Linked(s, i, n + 1)
  <2>1. s[i] = a[i]
    BY <1>1
  <2>2. a[i].same # 0 => s[a[i].same].hash = a[i].hash
    <3> SUFFICES ASSUME a[i].same # 0 PROVE s[a[i].same].hash = a[i].hash
      OBVIOUS
    <3>1. a[i].same \in Nat /\ i < a[i].same /\ a[i].same <= n + 1 /\ i \in Nat
      BY DEF Down
    <3>2. CASE a[i].same = n + 1
      BY <1>1, <3>2
    <3>3. CASE a[i].same # n + 1
      <4>1. a[i].same \in 1 .. n
        BY <3>1, <3>3
      <4> QED BY <1>1, <3>3, <4>1
    <3> QED BY <3>2, <3>3
  <2> QED BY <2>1, <2>2 DEF Linked
<1>4. \A i \in 1 .. n + 1 : i = n + 1 \/ i \in 1 .. n
  OBVIOUS
<1>5. \A i \in 1 .. n + 1 : Linked(s, i, n + 1)
  BY <1>2, <1>3, <1>4
<1> QED BY <1>1, <1>5 DEF s

\* VerificationHashEntry::Insert makes a table of a table.
LEMMA InsertKeeps ==
  ASSUME NEW C, NEW n, NEW t, IsTable(t, C, n),
         NEW e \in Entries(C), e.left = 0, e.right = 0, e.same = 0
  PROVE  IsTable(Insert(t, e), C, n + 1) /\ Insert(t, e).entry[n + 1] = e
<1> DEFINE b == e.crc % Buckets
           way == [i \in DOMAIN t.entry |->
                    IF Greater(e.crc, e.hash, t.entry[i]) THEN "right"
                    ELSE IF Less(e.crc, e.hash, t.entry[i]) THEN "left" ELSE "same"]
           link == [i \in DOMAIN t.entry |-> t.entry[i][way[i]]]
           ends == {i \in DOMAIN t.entry : link[i] = 0}
           last == EndOf(link, ends, t.root[b])
           u == Insert(t, e)
<1>0. /\ n \in Nat /\ t.entry \in Seq(Entries(C)) /\ Len(t.entry) = n /\ DOMAIN t.entry = 1 .. n
      /\ t.root \in [0 .. Buckets - 1 -> 0 .. n]
  BY TableHas DEF IsTable
<1>1. b \in 0 .. Buckets - 1 /\ e.crc \in Nat /\ e.hash \in BlockData
  BY RootFits, EntryFields
<1>2. u = IF last = 0 THEN [entry |-> Append(t.entry, e), root |-> [t.root EXCEPT ![b] = Len(t.entry) + 1]]
          ELSE [t EXCEPT !.entry = Append([t.entry EXCEPT ![last][way[last]] = Len(t.entry) + 1], e)]
  BY DEF Insert
<1>3. \A i \in 1 .. n : way[i] \in {"left", "right", "same"} /\ link[i] = t.entry[i][way[i]]
  BY <1>0
<1>4. Onward(n, link)
  <2>1. \A i \in DOMAIN t.entry : link[i] \in {t.entry[i].left, t.entry[i].right, t.entry[i].same}
    <3>1. \A i \in DOMAIN t.entry : t.entry[i]["left"] = t.entry[i].left /\ t.entry[i]["right"] = t.entry[i].right
                                      /\ t.entry[i]["same"] = t.entry[i].same
      OBVIOUS
    <3> HIDE DEF way
    <3> QED BY <1>0, <1>3, <3>1
  <2>2. DOMAIN link = DOMAIN t.entry
    OBVIOUS
  <2> HIDE DEF link
  <2> QED BY <2>1, <2>2, LinksOnward
<1>5. \A i \in 1 .. n : way[i] = "same" => t.entry[i].hash = e.hash
  <2> SUFFICES ASSUME NEW i \in 1 .. n, way[i] = "same" PROVE t.entry[i].hash = e.hash
    OBVIOUS
  <2>1. ~Less(e.crc, e.hash, t.entry[i]) /\ ~Greater(e.crc, e.hash, t.entry[i])
    BY <1>0
  <2>2. t.entry[i] \in Entries(C)
    BY <1>0
  <2> QED BY <1>1, <2>1, <2>2, SameHash
<1> HIDE DEF way, link, b
<1>6. last \in 0 .. n /\ (last # 0 => link[last] = 0)
  <2>1. \A j \in {} : j \in (1 .. n) \ ends => link[j] \in {}
    OBVIOUS
  <2>2. t.root[b] \in 0 .. n
    BY <1>0, <1>1
  <2> DEFINE K == {}
             r == t.root[b]
  <2>3. r \in 0 .. n /\ \A j \in K : j \in (1 .. n) \ ends => link[j] \in K
    BY <2>1, <2>2
  <2>4. last = EndOf(link, ends, r)
    OBVIOUS
  <2> HIDE DEF ends, K, r, last
  <2>5. last \in 0 .. n /\ (last # 0 => last \in ends)
    BY <1>4, <2>3, <2>4, EndOfIs
  <2> QED BY <2>5 DEF ends
<1> HIDE DEF last, u
<1>7. CASE last = 0
  <2>1. u = [entry |-> Append(t.entry, e), root |-> [t.root EXCEPT ![b] = n + 1]]
    BY <1>0, <1>2, <1>7
  <2>2. [t.root EXCEPT ![b] = n + 1] \in [0 .. Buckets - 1 -> 0 .. n + 1]
    <3>1. n + 1 \in 0 .. n + 1 /\ \A r \in 0 .. n : r \in 0 .. n + 1
      BY <1>0
    <3> QED BY <1>0, <1>1, <3>1
  <2>3. \A i \in 1 .. n :
          /\ Down(t.entry[i].left, i, n + 1) /\ Down(t.entry[i].right, i, n + 1) /\ Down(t.entry[i].same, i, n + 1)
          /\ t.entry[i].same # 0 =>
               t.entry[i].hash = IF t.entry[i].same = n + 1 THEN e.hash ELSE t.entry[t.entry[i].same].hash
    <3> SUFFICES ASSUME NEW i \in 1 .. n
                 PROVE  /\ Down(t.entry[i].left, i, n + 1) /\ Down(t.entry[i].right, i, n + 1)
                        /\ Down(t.entry[i].same, i, n + 1)
                        /\ t.entry[i].same # 0 =>
                             t.entry[i].hash = IF t.entry[i].same = n + 1 THEN e.hash ELSE t.entry[t.entry[i].same].hash
      OBVIOUS
    <3>1. Linked(t.entry, i, n)
      BY TableHas
    <3> QED BY <1>0, <3>1 DEF Linked, Down
  <2> HIDE DEF u
  <2>4. LET s == Append(t.entry, e) IN
        /\ s \in Seq(Entries(C)) /\ Len(s) = n + 1 /\ s[n + 1] = e
        /\ \A i \in 1 .. n + 1 : Linked(s, i, n + 1)
    BY <1>0, <2>3, StillLinked
  <2>5. n + 1 \in Nat
    BY <1>0
  <2> QED BY <2>1, <2>2, <2>4, <2>5 DEF IsTable, u
<1>8. CASE last # 0
  <2> DEFINE w == way[last]
             a == [t.entry EXCEPT ![last][w] = n + 1]
  <2>1. last \in 1 .. n /\ link[last] = 0
    BY <1>6, <1>8
  <2>2. u = [entry |-> Append(a, e), root |-> t.root]
    BY <1>0, <1>2, <1>8 DEF IsTable
  <2>3. w \in {"left", "right", "same"} /\ t.entry[last][w] = 0 /\ (w = "same" => t.entry[last].hash = e.hash)
    BY <1>3, <1>5, <2>1
  <2> HIDE DEF w
  <2>4. a = [t.entry EXCEPT ![last] = [t.entry[last] EXCEPT ![w] = n + 1]]
    BY <1>0, <2>1
  <2>5. t.entry[last] \in Entries(C) /\ n + 1 \in Nat
    BY <1>0, <2>1
  <2> DEFINE x == [t.entry[last] EXCEPT ![w] = n + 1]
  <2>6. /\ x \in Entries(C) /\ x.hash = t.entry[last].hash
        /\ x.left = IF w = "left" THEN n + 1 ELSE t.entry[last].left
        /\ x.right = IF w = "right" THEN n + 1 ELSE t.entry[last].right
        /\ x.same = IF w = "same" THEN n + 1 ELSE t.entry[last].same
    BY <2>3, <2>5, PointTo
  <2>7. a \in Seq(Entries(C)) /\ Len(a) = n /\ \A i \in 1 .. n : a[i] = IF i = last THEN x ELSE t.entry[i]
    <3> HIDE DEF x
    <3> QED BY <1>0, <2>1, <2>4, <2>6 DEF x
  <2> HIDE DEF a, x
  <2>8. \A i \in 1 .. n : a[i].hash = t.entry[i].hash
    BY <2>6, <2>7
  <2>9. ASSUME NEW i \in 1 .. n
        PROVE  /\ Down(a[i].left, i, n + 1) /\ Down(a[i].right, i, n + 1) /\ Down(a[i].same, i, n + 1)
               /\ a[i].same # 0 => a[i].hash = IF a[i].same = n + 1 THEN e.hash ELSE a[a[i].same].hash
    <3>1. Linked(t.entry, i, n)
      BY TableHas
    <3>2. Down(t.entry[i].left, i, n + 1) /\ Down(t.entry[i].right, i, n + 1) /\ Down(t.entry[i].same, i, n + 1)
      BY <1>0, <3>1 DEF Linked, Down
    <3>3. Down(n + 1, i, n + 1)
      BY <1>0 DEF Down
    <3>4. Down(a[i].left, i, n + 1) /\ Down(a[i].right, i, n + 1) /\ Down(a[i].same, i, n + 1)
      BY <2>6, <2>7, <3>2, <3>3
    <3>5. a[i].same = t.entry[i].same \/ (i = last /\ w = "same" /\ a[i].same = n + 1)
      BY <2>6, <2>7
    <3>6. CASE a[i].same = t.entry[i].same /\ t.entry[i].same # 0
      <4>1. t.entry[i].same \in 1 .. n /\ t.entry[t.entry[i].same].hash = t.entry[i].hash
        BY <1>0, <3>1, <3>6 DEF Linked, Down
      <4>2. t.entry[i].same # n + 1
        BY <1>0, <4>1
      <4> QED BY <2>8, <3>4, <3>6, <4>1, <4>2
    <3>7. CASE i = last /\ w = "same" /\ a[i].same = n + 1
      BY <2>3, <2>8, <3>4, <3>7
    <3>8. CASE a[i].same = 0
      BY <3>4, <3>8
    <3> QED BY <3>5, <3>6, <3>7, <3>8
  <2>10. LET s == Append(a, e) IN
        /\ s \in Seq(Entries(C)) /\ Len(s) = n + 1 /\ s[n + 1] = e
        /\ \A i \in 1 .. n + 1 : Linked(s, i, n + 1)
    BY <1>0, <2>7, <2>9, StillLinked
  <2>11. t.root \in [0 .. Buckets - 1 -> 0 .. n + 1]
    <3>1. \A r \in 0 .. n : r \in 0 .. n + 1
      BY <1>0
    <3> QED BY <1>0, <3>1
  <2> QED BY <2>2, <2>5, <2>10, <2>11 DEF IsTable, u
<1> QED BY <1>7, <1>8 DEF u

\* The tables, as a set.
Tables(C) ==
  {t \in [entry : Seq(Entries(C)), root : [0 .. Buckets - 1 -> Nat]] : IsTable(t, C, Len(t.entry))}

LEMMA TablesAre ==
  ASSUME NEW C, NEW n, NEW t
  PROVE  /\ IsTable(t, C, n) => t \in Tables(C) /\ Len(t.entry) = n
         /\ t \in Tables(C) => IsTable(t, C, Len(t.entry))
<1>1. ASSUME IsTable(t, C, n) PROVE t \in Tables(C) /\ Len(t.entry) = n
  <2>1. /\ t = [entry |-> t.entry, root |-> t.root] /\ n \in Nat /\ Len(t.entry) = n
        /\ t.entry \in Seq(Entries(C)) /\ t.root \in [0 .. Buckets - 1 -> 0 .. n]
    BY <1>1 DEF IsTable
  <2>2. t.root \in [0 .. Buckets - 1 -> Nat]
    BY <2>1
  <2>3. t \in [entry : Seq(Entries(C)), root : [0 .. Buckets - 1 -> Nat]]
    BY <2>1, <2>2
  <2> QED BY <1>1, <2>1, <2>3 DEF Tables
<1> QED BY <1>1 DEF Tables

LEMMA EmptyIsTable ==
  ASSUME NEW C
  PROVE  EmptyTable \in Tables(C)
<1>1. IsTable(EmptyTable, C, 0)
  BY DEF IsTable, EmptyTable
<1> QED BY <1>1, TablesAre

\* What one file adds to the table.
FileEntry(file, hashes, size, k) == Entry(file, k, Len(hashes), hashes[k], LengthOf(size, k))

IsLoad(h, t, file, hashes, size, q) ==
  h = [s \in SUBSET DOMAIN q |->
        IF s = {} THEN t ELSE Insert(h[s \ {Max(s)}], FileEntry(file, hashes, size, q[Max(s)]))]

\* VerificationHashTable::Load puts the blocks of a file in the table.
LEMMA LoadFileIs ==
  ASSUME NEW t, NEW file, NEW hashes, NEW size, NEW q, q = [k \in DOMAIN hashes |-> k]
  PROVE  LoadFile(t, file, hashes, size) = (CHOOSE h : IsLoad(h, t, file, hashes, size, q))[DOMAIN q]
BY DEF LoadFile, FoldLeft, MapThenFoldSet, IsLoad, FileEntry

\* The last entry of a table is the last of its file.
Ends(t) == t.entry[Len(t.entry)].last

\* The greatest of the first numbers, and the others.
LEMMA FirstOnes ==
  ASSUME NEW k \in Nat, 1 <= k
  PROVE  Max(1 .. k) = k /\ (1 .. k) \ {k} = 1 .. k - 1
<1>1. (1 .. k) \ {k} = 1 .. k - 1 /\ k \in 1 .. k /\ 1 .. k \in SUBSET (1 .. k)
  OBVIOUS
<1>2. 1 .. k # {}
  BY <1>1
<1>3. Max(1 .. k) \in 1 .. k /\ \A y \in 1 .. k : y <= Max(1 .. k)
  BY <1>1, <1>2, MaxIs
<1>4. k <= Max(1 .. k) /\ Max(1 .. k) <= k /\ Max(1 .. k) \in Nat
  BY <1>1, <1>3
<1> QED BY <1>1, <1>4

\* A table with one more entry.
LEMMA InsertedIs ==
  ASSUME NEW C, NEW x \in Tables(C), NEW e \in Entries(C), e.left = 0, e.right = 0, e.same = 0
  PROVE  LET u == Insert(x, e) IN
         /\ IsTable(x, C, Len(x.entry)) /\ Len(x.entry) \in Nat
         /\ u \in Tables(C) /\ Len(u.entry) = Len(x.entry) + 1 /\ u.entry[Len(u.entry)] = e
<1> DEFINE m == Len(x.entry)
           v == Insert(x, e)
<1>1. IsTable(x, C, Len(x.entry))
  BY TablesAre
<1>3. IsTable(v, C, m + 1) /\ v.entry[m + 1] = e
  BY <1>1, InsertKeeps
<1>4. v \in Tables(C) /\ Len(v.entry) = m + 1
  BY <1>3, TablesAre
<1>5. m \in Nat
  BY <1>1 DEF IsTable
<1> QED BY <1>1, <1>3, <1>4, <1>5

LEMMA FileEntryIs ==
  ASSUME NEW file, NEW hashes, NEW size, NEW k
  PROVE  LET e == FileEntry(file, hashes, size, k) IN
         /\ e.file = file /\ e.num = k
         /\ e.left = 0 /\ e.right = 0 /\ e.same = 0
BY DEF FileEntry, Entry

\* The tables as the entries of a file are inserted one after another.
FileSteps(a, C, t, file, hashes, size, n) ==
  /\ a \in [0 .. n -> Tables(C)]
  /\ a[0] = t /\ LoadFile(t, file, hashes, size) = a[n]
  /\ \A k \in 1 .. n : a[k] = Insert(a[k - 1], FileEntry(file, hashes, size, k))

LEMMA LoadFileSteps ==
  ASSUME NEW C, NEW t \in Tables(C), NEW file, NEW size, NEW n \in Nat, 1 <= n,
         NEW hashes, DOMAIN hashes = 1 .. n, Len(hashes) = n,
         \A k \in 1 .. n : FileEntry(file, hashes, size, k) \in Entries(C)
  PROVE  \E a : FileSteps(a, C, t, file, hashes, size, n)
<1> DEFINE A == Tables(C)
           S == 1 .. n
           Item(k) == FileEntry(file, hashes, size, k)
           g == [x \in A \X S |-> Insert(x[1], Item(x[2]))]
           q == [k \in DOMAIN hashes |-> k]
           Eq(h) == IsLoad(h, t, file, hashes, size, q)
           f == CHOOSE h : Eq(h)
<1>1. ASSUME NEW x \in A, NEW k \in S PROVE Insert(x, Item(k)) \in A
  BY InsertedIs, FileEntryIs
<1>2. DOMAIN q = S /\ \A k \in S : q[k] = k
  OBVIOUS
<1>3. g \in [A \X S -> A]
  <2> HIDE DEF A, S, Item
  <2> QED BY <1>1
<1>4. PICK h : IsFold(h, n, A, t, g)
  <2>1. t \in A
    OBVIOUS
  <2> HIDE DEF A, g
  <2> QED BY <1>3, <2>1, FoldExists
<1>4a. /\ h \in [SUBSET S -> A]
       /\ \A s \in SUBSET S : h[s] = IF s = {} THEN t ELSE g[h[s \ {Max(s)}], Max(s)]
  BY <1>4 DEF IsFold
<1>5. ASSUME NEW s \in SUBSET S, s # {}
      PROVE  Max(s) \in S /\ s \ {Max(s)} \in SUBSET S
  <2>1. Max(s) \in s
    BY <1>5, MaxIs
  <2> QED BY <2>1
<1>6. Eq(h)
  <2>1. ASSUME NEW s \in SUBSET S
        PROVE  h[s] = IF s = {} THEN t ELSE Insert(h[s \ {Max(s)}], Item(q[Max(s)]))
    <3>1. CASE s = {}
      BY <1>4a, <3>1
    <3>2. CASE s # {}
      <4>1. Max(s) \in S /\ s \ {Max(s)} \in SUBSET S
        BY <1>5, <3>2
      <4>2. h[s \ {Max(s)}] \in A
        BY <1>4a, <4>1
      <4>3. g[h[s \ {Max(s)}], Max(s)] = Insert(h[s \ {Max(s)}], Item(Max(s)))
        <5> HIDE DEF A, S, Item
        <5> QED BY <4>1, <4>2
      <4> QED BY <1>2, <1>4a, <3>2, <4>1, <4>3
    <3> QED BY <3>1, <3>2
  <2>2. h = [s \in SUBSET S |-> h[s]]
    BY <1>4a
  <2> HIDE DEF S, q, A
  <2> QED BY <1>2, <2>1, <2>2 DEF IsLoad
<1>7. Eq(f)
  <2> HIDE DEF Eq
  <2> QED BY <1>6
<1>8. LoadFile(t, file, hashes, size) = f[S]
  <2>1. q = [k \in DOMAIN hashes |-> k]
    OBVIOUS
  <2> HIDE DEF S, q
  <2>2. LoadFile(t, file, hashes, size) = (CHOOSE p : IsLoad(p, t, file, hashes, size, q))[DOMAIN q]
    BY <2>1, LoadFileIs
  <2> QED BY <1>2, <2>2
<1> HIDE DEF f, g
<1>9. \A s \in SUBSET S : f[s] = IF s = {} THEN t ELSE Insert(f[s \ {Max(s)}], Item(q[Max(s)]))
  <2> HIDE DEF S, q
  <2> QED BY <1>2, <1>7 DEF IsLoad
<1>10. \A s \in SUBSET S : f[s] \in A
  <2>1. f[{}] \in A
    <3>1. {} \in SUBSET S
      OBVIOUS
    <3> QED BY <1>9, <3>1
  <2>2. \A s \in SUBSET S : s # {} /\ f[s \ {Max(s)}] \in A => f[s] \in A
    <3> SUFFICES ASSUME NEW s \in SUBSET S, s # {}, f[s \ {Max(s)}] \in A PROVE f[s] \in A
      OBVIOUS
    <3>1. Max(s) \in S /\ f[s] = Insert(f[s \ {Max(s)}], Item(Max(s)))
      <4> HIDE DEF A, S, Item, q
      <4> QED BY <1>2, <1>5, <1>9
    <3> HIDE DEF A, S, Item
    <3> QED BY <1>1, <3>1
  <2> HIDE DEF A
  <2> QED BY <2>1, <2>2, FoldStays
<1> DEFINE a == [k \in 0 .. n |-> f[1 .. k]]
<1>11. a[0] = t
  <2>1. 1 .. 0 = {} /\ {} \in SUBSET S
    OBVIOUS
  <2>2. f[{}] = t
    <3> HIDE DEF S, Item, q
    <3> QED BY <1>9, <2>1
  <2> QED BY <2>1, <2>2
<1>12. a[n] = LoadFile(t, file, hashes, size)
  BY <1>8
<1>13. a \in [0 .. n -> A]
  <2>1. \A k \in 0 .. n : 1 .. k \in SUBSET S
    OBVIOUS
  <2> HIDE DEF A, S
  <2> QED BY <1>10, <2>1
<1>14. ASSUME NEW k \in S PROVE a[k] = Insert(a[k - 1], Item(k))
  <2>1. 1 .. k \in SUBSET S /\ 1 .. k # {} /\ k \in Nat /\ k - 1 \in 0 .. n /\ k \in 0 .. n
    OBVIOUS
  <2>2. Max(1 .. k) = k /\ (1 .. k) \ {k} = 1 .. k - 1
    BY FirstOnes
  <2>3. f[1 .. k] = Insert(f[1 .. k - 1], Item(k))
    <3> HIDE DEF S, Item, q
    <3>1. f[1 .. k] = Insert(f[(1 .. k) \ {Max(1 .. k)}], Item(q[Max(1 .. k)]))
      BY <1>9, <2>1
    <3> QED BY <1>2, <2>2, <3>1
  <2> HIDE DEF Item
  <2> QED BY <2>1, <2>3
<1> HIDE DEF A, Item, a
<1>15. \A k \in 1 .. n : a[k] = Insert(a[k - 1], Item(k))
  BY <1>14
<1>16. FileSteps(a, C, t, file, hashes, size, n)
  BY <1>11, <1>12, <1>13, <1>15 DEF FileSteps, A, Item
<1> QED BY <1>16

LEMMA LoadFileKeeps ==
  ASSUME NEW C, NEW t \in Tables(C), NEW file, NEW size, NEW n \in Nat, 1 <= n,
         NEW hashes, DOMAIN hashes = 1 .. n, Len(hashes) = n,
         \A k \in 1 .. n : FileEntry(file, hashes, size, k) \in Entries(C)
  PROVE  LET u == LoadFile(t, file, hashes, size) IN
         u \in Tables(C) /\ 1 <= Len(u.entry) /\ Ends(u)
<1> DEFINE u == LoadFile(t, file, hashes, size)
           e == FileEntry(file, hashes, size, n)
<1>0. PICK a : FileSteps(a, C, t, file, hashes, size, n)
  BY LoadFileSteps
<1>1. /\ a \in [0 .. n -> Tables(C)] /\ u = a[n]
      /\ \A k \in 1 .. n : a[k] = Insert(a[k - 1], FileEntry(file, hashes, size, k))
  BY <1>0 DEF FileSteps
<1> HIDE DEF u
<1>2. n \in 1 .. n /\ n - 1 \in 0 .. n
  OBVIOUS
<1>3. a[n - 1] \in Tables(C) /\ u = Insert(a[n - 1], e) /\ e \in Entries(C)
  BY <1>1, <1>2
<1>4. e.left = 0 /\ e.right = 0 /\ e.same = 0 /\ e.last
  <2>1. e.last
    BY DEF FileEntry, Entry
  <2>2. e.left = 0 /\ e.right = 0 /\ e.same = 0
    BY FileEntryIs
  <2> QED BY <2>1, <2>2
<1> HIDE DEF e
<1>5. u \in Tables(C) /\ Len(u.entry) = Len(a[n - 1].entry) + 1 /\ Len(a[n - 1].entry) \in Nat /\ u.entry[Len(u.entry)] = e
  BY <1>3, <1>4, InsertedIs
<1>6. 1 <= Len(u.entry)
  BY <1>5
<1> QED BY <1>4, <1>5, <1>6 DEF Ends, u

-----------------------------------------------------------------------------
(* Blocks. *)

\* Arithmetic.
LEMMA DivIs ==
  ASSUME NEW a \in Nat, NEW b \in Nat, 1 <= b
  PROVE  a \div b \in Nat /\ (a \div b) * b <= a /\ a < (a \div b) * b + b
OBVIOUS

LEMMA TimesMonotone ==
  ASSUME NEW a \in Nat, NEW b \in Nat, NEW c \in Nat, a <= b
  PROVE  a * c <= b * c /\ a * c \in Nat
OBVIOUS

LEMMA BlockSizeIs == BlockSize \in Nat /\ 1 <= BlockSize
BY SizesAssumption

\* Where a block of a file starts.
LEMMA BlockStarts ==
  ASSUME NEW data \in Seq(Byte)
  PROVE  /\ BlockCount(data) \in Nat
         /\ \A k \in 1 .. BlockCount(data) : (k - 1) * BlockSize \in Nat /\ (k - 1) * BlockSize < Len(data)
<1> DEFINE n == BlockCount(data)
           L == Len(data)
           a == L + BlockSize - 1
<1>1. L \in Nat /\ BlockSize \in Nat /\ 1 <= BlockSize
  BY BlockSizeIs
<1>2. a \in Nat /\ n = a \div BlockSize
  BY <1>1 DEF BlockCount
<1> HIDE DEF n, a
<1>3. n \in Nat /\ n * BlockSize <= a
  BY <1>1, <1>2, DivIs
<1>4. ASSUME NEW k \in 1 .. n PROVE (k - 1) * BlockSize \in Nat /\ (k - 1) * BlockSize < L
  <2> DEFINE j == k - 1
  <2>1. j \in Nat /\ j + 1 <= n /\ j + 1 \in Nat
    BY <1>3
  <2> HIDE DEF j
  <2>2. (j + 1) * BlockSize <= n * BlockSize /\ j * BlockSize \in Nat
    BY <1>1, <1>3, <2>1, TimesMonotone
  <2>3. (j + 1) * BlockSize = j * BlockSize + BlockSize
    BY <1>1, <2>1
  <2>4. n * BlockSize \in Nat /\ (j + 1) * BlockSize \in Nat
    BY <1>1, <1>3, <2>1, TimesMonotone
  <2>5. j * BlockSize < L
    BY <1>1, <1>2, <1>3, <2>2, <2>3, <2>4 DEF a
  <2> QED BY <2>2, <2>5 DEF j
<1> HIDE DEF L
<1> QED BY <1>3, <1>4 DEF n, L

\* A block: some bytes of the file, and the number of them.
LEMMA BlockIs ==
  ASSUME NEW data \in Seq(Byte), NEW k \in 1 .. BlockCount(data)
  PROVE  LET own == BlockBytes(data, k) IN
         /\ own \in Seq(Byte) /\ Len(own) \in 1 .. BlockSize
         /\ Len(own) = LengthOf(Len(data), k)
         /\ (k - 1) * BlockSize + Len(own) <= Len(data)
         /\ \A i \in 1 .. Len(own) : own[i] = data[(k - 1) * BlockSize + i]
         /\ Block(data, k) \in BlockData
         /\ \A i \in 1 .. Len(own) : Block(data, k)[i] = own[i]
<1> DEFINE from == (k - 1) * BlockSize
           own == BlockBytes(data, k)
           L == Len(data)
<1>1. from \in Nat /\ from < L /\ L \in Nat
  BY BlockStarts
<1>2. BlockSize \in Nat /\ 1 <= BlockSize
  BY BlockSizeIs
<1>3. own = Bytes(data, from, BlockSize)
  BY DEF BlockBytes
<1> HIDE DEF from, own
<1>4. /\ own \in Seq(Byte) /\ Len(own) \in Nat
      /\ Len(own) <= BlockSize /\ from + Len(own) <= L
      /\ Len(own) = BlockSize \/ from + Len(own) = L
      /\ \A i \in 1 .. Len(own) : own[i] = data[from + i]
  <2>1. from <= Len(data)
    BY <1>1
  <2> HIDE DEF L
  <2>2. LET bytes == Bytes(data, from, BlockSize) IN
        /\ bytes \in Seq(Byte) /\ Len(bytes) \in Nat
        /\ Len(bytes) <= BlockSize /\ from + Len(bytes) <= Len(data)
        /\ Len(bytes) = BlockSize \/ from + Len(bytes) = Len(data)
        /\ \A i \in 1 .. Len(bytes) : bytes[i] = data[from + i]
    BY <1>1, <1>2, <2>1, BytesIs
  <2> QED BY <1>3, <2>2 DEF L
<1>5. Len(own) \in 1 .. BlockSize
  BY <1>1, <1>2, <1>4
<1>6. Len(own) = LengthOf(L, k)
  <2>1. LengthOf(L, k) = IF L - from < BlockSize THEN L - from ELSE BlockSize
    BY DEF LengthOf, from
  <2> HIDE DEF L
  <2> QED BY <1>1, <1>2, <1>4, <2>1
<1>7. Block(data, k) = Padded(own, BlockSize)
  BY DEF Block, own
<1>8. /\ Padded(own, BlockSize) \in Seq(Byte) /\ Len(Padded(own, BlockSize)) = BlockSize
      /\ \A i \in 1 .. Len(own) : Padded(own, BlockSize)[i] = own[i]
  BY <1>2, <1>4, PaddedIs
<1>9. Block(data, k) \in BlockData
  <2> DEFINE s == Block(data, k)
  <2>1. s \in Seq(Byte) /\ Len(s) = BlockSize
    BY <1>7, <1>8
  <2> HIDE DEF s
  <2>2. s \in [1 .. BlockSize -> Byte]
    BY <2>1, <1>2
  <2> QED BY <2>2 DEF BlockData, s
<1> QED BY <1>4, <1>5, <1>6, <1>7, <1>8, <1>9 DEF from, own

-----------------------------------------------------------------------------
(* The packets. *)

\* What can be known, of the packets P.
Gots(P) ==
  {g \in [set : SetId \cup {"none"}, main : MainPacket \cup {None}, creator : BOOLEAN, recovery : SUBSET RecoveryPacket,
          desc : SUBSET DescriptionPacket, verify : SUBSET VerificationPacket] :
     /\ IsFiniteSet(g.recovery) /\ g.main \in P \cup {None}
     /\ g.desc \subseteq P /\ g.verify \subseteq P
     /\ \A p \in g.desc : p.set = g.set /\ DescLoads(p)
     /\ \A p \in g.verify : p.set = g.set /\ VerifyLoads(p)}

LEMMA GotFields ==
  ASSUME NEW P, NEW g \in Gots(P)
  PROVE  /\ g.set \in SetId \cup {"none"} /\ g.main \in MainPacket \cup {None} /\ g.main \in P \cup {None} /\ g.creator \in BOOLEAN
         /\ g.recovery \in SUBSET RecoveryPacket /\ IsFiniteSet(g.recovery)
         /\ g.desc \in SUBSET DescriptionPacket /\ g.desc \subseteq P
         /\ g.verify \in SUBSET VerificationPacket /\ g.verify \subseteq P
         /\ \A p \in g.desc : p.set = g.set /\ DescLoads(p)
         /\ \A p \in g.verify : p.set = g.set /\ VerifyLoads(p)
BY DEF Gots

LEMMA NothingGot ==
  ASSUME NEW P
  PROVE  NoPackets \in Gots(P)
<1>1. NoPackets = [set |-> "none", main |-> None, creator |-> FALSE, recovery |-> {}, desc |-> {}, verify |-> {}]
  BY DEF NoPackets
<1>2. IsFiniteSet({})
  BY FS_EmptySet
<1>3. NoPackets \in [set : SetId \cup {"none"}, main : MainPacket \cup {None}, creator : BOOLEAN, recovery : SUBSET RecoveryPacket,
                    desc : SUBSET DescriptionPacket, verify : SUBSET VerificationPacket]
  <2>1. "none" \in SetId \cup {"none"} /\ None \in MainPacket \cup {None}
    OBVIOUS
  <2>2. {} \in SUBSET RecoveryPacket /\ {} \in SUBSET DescriptionPacket /\ {} \in SUBSET VerificationPacket
    OBVIOUS
  <2> QED BY <1>1, <2>1, <2>2
<1>4. NoPackets.desc = {} /\ NoPackets.verify = {} /\ NoPackets.recovery = {} /\ NoPackets.main = None
  BY <1>1
<1> QED BY <1>2, <1>3, <1>4 DEF Gots

\* One packet.
States(P) == [got : Gots(P), some : BOOLEAN]

\* The descriptions and checksums that LoadPacketsFromFile keeps were in the par2
\* files and are of the set.
LEMMA LoadPacketKeeps ==
  ASSUME NEW P, NEW l \in States(P), NEW p \in Packet, p \in P
  PROVE  LoadPacket(l, p) \in States(P)
<1> DEFINE g == [l.got EXCEPT !.set = IF @ = "none" /\ p.type # "damaged" THEN p.set ELSE @]
           new == p.type # "damaged" /\ p.set = g.set /\ IsNew(g, p)
<1>1. l.got \in Gots(P) /\ l.some \in BOOLEAN
  BY DEF States
<1>2. p.set \in SetId
  BY DEF Packet, MainPacket, DescriptionPacket, VerificationPacket, RecoveryPacket, CreatorPacket, DamagedPacket
<1>3. g \in Gots(P)
  <2> DEFINE o == l.got
             set == IF o.set = "none" /\ p.type # "damaged" THEN p.set ELSE o.set
  <2>1. g = [o EXCEPT !.set = set]
    OBVIOUS
  <2>2. o \in Gots(P)
    BY <1>1
  <2> HIDE DEF o
  <2>3. set \in SetId \cup {"none"} /\ (o.set # "none" => set = o.set)
    BY <1>2, <2>2, GotFields DEF SetId
  <2> HIDE DEF set, g
  <2>4. g = [set |-> set, main |-> o.main, creator |-> o.creator, recovery |-> o.recovery,
             desc |-> o.desc, verify |-> o.verify]
    BY <2>1, <2>2 DEF Gots
  <2>5. (\A q \in o.desc : q.set = set) /\ (\A q \in o.verify : q.set = set)
    <3>1. ASSUME NEW q, q \in o.desc \/ q \in o.verify PROVE q.set = set
      <4>1. q.set = o.set /\ q.set \in SetId
        BY <2>2, <3>1, GotFields DEF DescriptionPacket, VerificationPacket
      <4> QED BY <2>3, <4>1 DEF SetId
    <3> QED BY <3>1
  <2> QED BY <2>2, <2>3, <2>4, <2>5, GotFields DEF Gots
<1>4. LoadPacket(l, p) = [got |-> IF new THEN With(g, p) ELSE g, some |-> l.some \/ new]
  BY DEF LoadPacket
<1> HIDE DEF g
<1>5. new \in BOOLEAN
  OBVIOUS
<1>6. ASSUME new PROVE With(g, p) \in Gots(P)
  <2>1. p.type # "damaged" /\ p.set = g.set /\ IsNew(g, p)
    BY <1>6
  <2>2. /\ g.set \in SetId \cup {"none"} /\ g.main \in MainPacket \cup {None} /\ g.main \in P \cup {None} /\ g.creator \in BOOLEAN
        /\ g.recovery \in SUBSET RecoveryPacket /\ IsFiniteSet(g.recovery)
        /\ g.desc \in SUBSET DescriptionPacket /\ g.desc \subseteq P
        /\ g.verify \in SUBSET VerificationPacket /\ g.verify \subseteq P
        /\ \A q \in g.desc : q.set = g.set /\ DescLoads(q)
        /\ \A q \in g.verify : q.set = g.set /\ VerifyLoads(q)
    BY <1>3, GotFields
  <2>3. g = [set |-> g.set, main |-> g.main, creator |-> g.creator, recovery |-> g.recovery,
             desc |-> g.desc, verify |-> g.verify]
    BY <1>3 DEF Gots
  <2>4. CASE p \in MainPacket
    <3>1. p.type = "main"
      BY <2>4 DEF MainPacket
    <3>2. With(g, p) = [g EXCEPT !.main = p]
      BY <3>1 DEF With
    <3>3. With(g, p) = [set |-> g.set, main |-> p, creator |-> g.creator, recovery |-> g.recovery,
                        desc |-> g.desc, verify |-> g.verify]
      BY <2>3, <3>2
    <3> QED BY <2>2, <2>4, <3>3 DEF Gots
  <2>5. CASE p \in CreatorPacket
    <3>1. p.type = "creator"
      BY <2>5 DEF CreatorPacket
    <3>2. With(g, p) = [g EXCEPT !.creator = TRUE]
      BY <3>1 DEF With
    <3>3. With(g, p) = [set |-> g.set, main |-> g.main, creator |-> TRUE, recovery |-> g.recovery,
                        desc |-> g.desc, verify |-> g.verify]
      BY <2>3, <3>2
    <3> QED BY <2>2, <3>3 DEF Gots
  <2>6. CASE p \in RecoveryPacket
    <3>1. p.type = "recovery"
      BY <2>6 DEF RecoveryPacket
    <3>2. With(g, p) = [g EXCEPT !.recovery = g.recovery \cup {p}]
      BY <2>3, <3>1 DEF With
    <3>3. With(g, p) = [set |-> g.set, main |-> g.main, creator |-> g.creator, recovery |-> g.recovery \cup {p},
                        desc |-> g.desc, verify |-> g.verify]
      BY <2>3, <3>2
    <3>4. IsFiniteSet(g.recovery \cup {p})
      BY <2>2, FS_AddElement
    <3> QED BY <2>2, <2>6, <3>3, <3>4 DEF Gots
  <2>7. CASE p \in DescriptionPacket
    <3>1. p.type = "desc"
      BY <2>7 DEF DescriptionPacket
    <3>2. With(g, p) = [g EXCEPT !.desc = g.desc \cup {p}]
      BY <2>3, <3>1 DEF With
    <3>3. With(g, p) = [set |-> g.set, main |-> g.main, creator |-> g.creator, recovery |-> g.recovery,
                        desc |-> g.desc \cup {p}, verify |-> g.verify]
      BY <2>3, <3>2
    <3>4. DescLoads(p)
      BY <2>1, <3>1 DEF IsNew
    <3> QED BY <2>1, <2>2, <2>7, <3>3, <3>4 DEF Gots
  <2>8. CASE p \in VerificationPacket
    <3>1. p.type = "verify"
      BY <2>8 DEF VerificationPacket
    <3>2. With(g, p) = [g EXCEPT !.verify = g.verify \cup {p}]
      BY <2>3, <3>1 DEF With
    <3>3. With(g, p) = [set |-> g.set, main |-> g.main, creator |-> g.creator, recovery |-> g.recovery,
                        desc |-> g.desc, verify |-> g.verify \cup {p}]
      BY <2>3, <3>2
    <3>4. VerifyLoads(p)
      BY <2>1, <3>1 DEF IsNew
    <3> QED BY <2>1, <2>2, <2>8, <3>3, <3>4 DEF Gots
  <2>9. p \notin DamagedPacket
    BY <2>1 DEF DamagedPacket
  <2> QED BY <2>4, <2>5, <2>6, <2>7, <2>8, <2>9 DEF Packet
<1> QED BY <1>1, <1>3, <1>4, <1>5, <1>6 DEF States

\* All packets of a file.
IsLoadFold(h, base, q) ==
  h = [s \in SUBSET DOMAIN q |-> IF s = {} THEN base ELSE LoadPacket(h[s \ {Max(s)}], q[Max(s)])]

LEMMA LoadFoldIs ==
  ASSUME NEW base, NEW q
  PROVE  FoldLeft(LoadPacket, base, q) = (CHOOSE h : IsLoadFold(h, base, q))[DOMAIN q]
BY DEF FoldLeft, MapThenFoldSet, IsLoadFold

\* And so do all the packets of a file.
LEMMA LoadAllKeeps ==
  ASSUME NEW P, NEW q \in Seq(Packet), Range(q) \subseteq P, NEW base \in States(P)
  PROVE  FoldLeft(LoadPacket, base, q) \in States(P)
<1> DEFINE A == States(P)
           n == Len(q)
           S == 1 .. n
           g == [x \in A \X S |-> LoadPacket(x[1], q[x[2]])]
           Eq(h) == IsLoadFold(h, base, q)
           f == CHOOSE h : Eq(h)
<1>0. n \in Nat /\ DOMAIN q = S
  OBVIOUS
<1>1. ASSUME NEW x \in A, NEW k \in S PROVE LoadPacket(x, q[k]) \in A
  <2>1. q[k] \in Packet /\ q[k] \in P
    BY DEF Range
  <2> QED BY <2>1, LoadPacketKeeps
<1> HIDE DEF n
<1>3. g \in [A \X S -> A]
  <2> HIDE DEF A, S
  <2> QED BY <1>1
<1>4. PICK h : IsFold(h, n, A, base, g)
  <2>1. base \in A
    OBVIOUS
  <2> HIDE DEF A, g
  <2> QED BY <1>0, <1>3, <2>1, FoldExists
<1>4a. /\ h \in [SUBSET S -> A]
       /\ \A s \in SUBSET S : h[s] = IF s = {} THEN base ELSE g[h[s \ {Max(s)}], Max(s)]
  BY <1>4 DEF IsFold
<1>5. ASSUME NEW s \in SUBSET S, s # {}
      PROVE  Max(s) \in S /\ s \ {Max(s)} \in SUBSET S
  <2>1. Max(s) \in s
    BY <1>0, <1>5, MaxIs
  <2> QED BY <2>1
<1>6. Eq(h)
  <2>1. ASSUME NEW s \in SUBSET S
        PROVE  h[s] = IF s = {} THEN base ELSE LoadPacket(h[s \ {Max(s)}], q[Max(s)])
    <3>1. CASE s = {}
      BY <1>4a, <3>1
    <3>2. CASE s # {}
      <4>1. Max(s) \in S /\ s \ {Max(s)} \in SUBSET S
        BY <1>5, <3>2
      <4>2. h[s \ {Max(s)}] \in A
        BY <1>4a, <4>1
      <4>3. g[h[s \ {Max(s)}], Max(s)] = LoadPacket(h[s \ {Max(s)}], q[Max(s)])
        <5> HIDE DEF A, S
        <5> QED BY <4>1, <4>2
      <4> QED BY <1>4a, <3>2, <4>1, <4>3
    <3> QED BY <3>1, <3>2
  <2>2. h = [s \in SUBSET S |-> h[s]]
    BY <1>4a
  <2> HIDE DEF S, A
  <2> QED BY <1>0, <2>1, <2>2 DEF IsLoadFold
<1>7. Eq(f)
  <2> HIDE DEF Eq
  <2> QED BY <1>6
<1>8. FoldLeft(LoadPacket, base, q) = f[S]
  BY <1>0, LoadFoldIs
<1> HIDE DEF f, g
<1>9. \A s \in SUBSET S : f[s] = IF s = {} THEN base ELSE LoadPacket(f[s \ {Max(s)}], q[Max(s)])
  <2> HIDE DEF S
  <2> QED BY <1>0, <1>7 DEF IsLoadFold
<1>10. \A s \in SUBSET S : f[s] \in A
  <2>1. f[{}] \in A
    <3>1. {} \in SUBSET S
      OBVIOUS
    <3> QED BY <1>9, <3>1
  <2>2. \A s \in SUBSET S : s # {} /\ f[s \ {Max(s)}] \in A => f[s] \in A
    <3> SUFFICES ASSUME NEW s \in SUBSET S, s # {}, f[s \ {Max(s)}] \in A PROVE f[s] \in A
      OBVIOUS
    <3>1. Max(s) \in S /\ f[s] = LoadPacket(f[s \ {Max(s)}], q[Max(s)])
      <4> HIDE DEF A, S
      <4> QED BY <1>5, <1>9
    <3> HIDE DEF A, S
    <3> QED BY <1>1, <3>1
  <2> HIDE DEF A
  <2> QED BY <1>0, <2>1, <2>2, FoldStays
<1> QED BY <1>8, <1>10

\* CheckPacketConsistency: descriptions and checksums go together.
Sized(g) == \A p \in g.desc, q \in g.verify : q.id = p.id => Len(q.blocks) = BlockCount(p.data)

\* CheckPacketConsistency leaves checksums that are as many as a file has blocks.
LEMMA ConsistentKeeps ==
  ASSUME NEW P, NEW g \in Gots(P)
  PROVE  /\ Consistent(g) \in Gots(P) /\ Sized(Consistent(g)) /\ Consistent(g).main = g.main
         /\ FileIds(Consistent(g)) = FileIds(g)
<1> DEFINE fits(p) == \A q \in g.verify : q.id = p.id => Len(q.blocks) = BlockCount(p.data)
           recovery == {p \in g.recovery : p.size = g.main.size}
           desc == {p \in g.desc : fits(p)}
           c == Consistent(g)
<1>1. /\ g.set \in SetId \cup {"none"} /\ g.main \in MainPacket \cup {None} /\ g.main \in P \cup {None} /\ g.creator \in BOOLEAN
      /\ g.recovery \in SUBSET RecoveryPacket /\ IsFiniteSet(g.recovery)
      /\ g.desc \in SUBSET DescriptionPacket /\ g.desc \subseteq P
      /\ g.verify \in SUBSET VerificationPacket /\ g.verify \subseteq P
      /\ \A p \in g.desc : p.set = g.set /\ DescLoads(p)
      /\ \A p \in g.verify : p.set = g.set /\ VerifyLoads(p)
  BY GotFields
<1>2. c = [g EXCEPT !.recovery = recovery, !.desc = desc]
  BY DEF Consistent, Gots
<1>3. recovery \subseteq g.recovery /\ desc \subseteq g.desc /\ \A p \in desc : fits(p)
  OBVIOUS
<1>4. IsFiniteSet(recovery)
  BY <1>1, <1>3, FS_Subset
<1> HIDE DEF recovery, desc, c
<1>5. c = [set |-> g.set, main |-> g.main, creator |-> g.creator, recovery |-> recovery,
           desc |-> desc, verify |-> g.verify]
  BY <1>2 DEF Gots
<1>6. c \in Gots(P)
  BY <1>1, <1>3, <1>4, <1>5 DEF Gots
<1>7. Sized(c) /\ c.main = g.main
  BY <1>3, <1>5 DEF Sized
<1> QED BY <1>6, <1>7 DEF c, FileIds

-----------------------------------------------------------------------------
(* The source files, as the packets describe them. *)

\* What the entries of the table can be.
IsCore(g, core) ==
  \E id \in Known(g) :
    LET data == DescIn(g, id).data IN
    \E k \in 1 .. BlockCount(data) :
      core = <<id, k, k = BlockCount(data), Block(data, k), Len(BlockBytes(data, k))>>

Cores(g) == {core \in Nat \X Nat \X BOOLEAN \X BlockData \X (1 .. BlockSize) : IsCore(g, core)}

\* A source file that is known has a description.
LEMMA DescInIs ==
  ASSUME NEW P, NEW g \in Gots(P), NEW id \in Known(g)
  PROVE  /\ DescIn(g, id) \in g.desc /\ DescIn(g, id).id = id
         /\ DescIn(g, id) \in P /\ DescIn(g, id) \in DescriptionPacket
         /\ DescIn(g, id).data \in Seq(Byte) /\ DescIn(g, id).name \in Nat \ {0} /\ id \in Nat \ {0}
         /\ DescLoads(DescIn(g, id)) /\ DescIn(g, id).set = g.set
<1>1. \E p \in g.desc : p.id = id
  BY DEF Known
<1>2. DescIn(g, id) \in g.desc /\ DescIn(g, id).id = id
  BY <1>1 DEF DescIn
<1> HIDE DEF DescIn
<1>3. DescIn(g, id) \in DescriptionPacket
  BY <1>2, GotFields
<1> QED BY <1>2, <1>3, GotFields DEF DescriptionPacket, Id

LEMMA VerifyInIs ==
  ASSUME NEW P, NEW g \in Gots(P), NEW id, CheckedIn(g, id)
  PROVE  /\ VerifyIn(g, id) \in g.verify /\ VerifyIn(g, id).id = id
         /\ VerifyIn(g, id) \in P /\ VerifyIn(g, id) \in VerificationPacket
         /\ VerifyIn(g, id).blocks \in Seq(BlockData) /\ VerifyLoads(VerifyIn(g, id))
         /\ VerifyIn(g, id).set = g.set
<1>2. VerifyIn(g, id) \in g.verify /\ VerifyIn(g, id).id = id
  BY DEF VerifyIn, CheckedIn
<1>3. VerifyIn(g, id) \in VerificationPacket
  BY <1>2, GotFields
<1> QED BY <1>2, <1>3, GotFields DEF VerificationPacket

\* The tables of whole files: what follows an entry is in the table.
LoadedTables(C) == {t \in Tables(C) : t.entry = <<>> \/ Ends(t)}

\* An entry that is loaded is a block of a file that is known.
LEMMA SourceEntry ==
  ASSUME NEW P, Truthful(P), NEW g \in Gots(P), Sized(g), NEW id \in Known(g), CheckedIn(g, id)
  PROVE  LET data == DescIn(g, id).data
             blocks == VerifyIn(g, id).blocks
         IN /\ Len(blocks) = BlockCount(data) /\ 1 <= Len(blocks) /\ blocks \in Seq(BlockData)
            /\ \A k \in 1 .. Len(blocks) : FileEntry(id, blocks, Len(data), k) \in Entries(Cores(g))
<1> DEFINE p == DescIn(g, id)
           q == VerifyIn(g, id)
           data == p.data
           blocks == q.blocks
           n == Len(blocks)
<1>1. /\ p \in g.desc /\ p.id = id /\ p \in P /\ p \in DescriptionPacket
      /\ data \in Seq(Byte) /\ id \in Nat \ {0} /\ p.set = g.set
  BY DescInIs
<1>2. /\ q \in g.verify /\ q.id = id /\ q \in P /\ q \in VerificationPacket
      /\ blocks \in Seq(BlockData) /\ VerifyLoads(q) /\ q.set = g.set
  BY VerifyInIs
<1> HIDE DEF p, q
<1>3. n = BlockCount(data)
  BY <1>1, <1>2 DEF Sized
<1>4. n \in Nat /\ 1 <= n /\ DOMAIN blocks = 1 .. n
  <2>1. blocks # <<>>
    BY <1>2 DEF VerifyLoads
  <2> QED BY <1>2, <2>1
<1>5. p.type = "desc" /\ q.type = "verify"
  BY <1>1, <1>2 DEF DescriptionPacket, VerificationPacket
<1>6. \A k \in 1 .. n : blocks[k] = Block(data, k)
  <2>1. \A k \in DOMAIN blocks : blocks[k] = Block(data, k)
    BY <1>1, <1>2, <1>3, <1>5 DEF Truthful
  <2> QED BY <1>4, <2>1
<1>7. ASSUME NEW k \in 1 .. n PROVE FileEntry(id, blocks, Len(data), k) \in Entries(Cores(g))
  <2> DEFINE length == Len(BlockBytes(data, k))
             hash == Block(data, k)
             core == <<id, k, k = n, hash, length>>
  <2>1. /\ length \in 1 .. BlockSize /\ length = LengthOf(Len(data), k) /\ hash \in BlockData
    <3>1. k \in 1 .. BlockCount(data)
      BY <1>3
    <3> QED BY <1>1, <3>1, BlockIs
  <2>2. blocks[k] = hash
    BY <1>6
  <2> HIDE DEF hash, length
  <2>3. Crc(hash) \in Nat
    BY <2>1, CrcAssumption
  <2>4. FileEntry(id, blocks, Len(data), k) =
          [file |-> id, num |-> k, last |-> k = n, hash |-> hash, crc |-> Crc(hash),
           length |-> length, left |-> 0, right |-> 0, same |-> 0]
    BY <2>1, <2>2 DEF FileEntry, Entry
  <2>5. core \in Cores(g)
    <3>1. IsCore(g, core)
      <4>1. k \in 1 .. BlockCount(data) /\ core = <<id, k, k = BlockCount(data), Block(data, k), Len(BlockBytes(data, k))>>
        BY <1>3 DEF hash, length
      <4> HIDE DEF core
      <4> QED BY <4>1 DEF IsCore, p
    <3>2. core \in Nat \X Nat \X BOOLEAN \X BlockData \X (1 .. BlockSize)
      <4>1. id \in Nat /\ k \in Nat /\ (k = n) \in BOOLEAN
        BY <1>1, <1>4
      <4> HIDE DEF n
      <4> QED BY <2>1, <4>1
    <3> HIDE DEF core
    <3> QED BY <3>1, <3>2 DEF Cores
  <2> HIDE DEF n
  <2> DEFINE e == [file |-> id, num |-> k, last |-> k = n, hash |-> hash, crc |-> Crc(hash),
           length |-> length, left |-> 0, right |-> 0, same |-> 0]
  <2>6. Core(e) \in Cores(g)
    BY <2>5 DEF Core
  <2>7. e \in [file : Nat, num : Nat, last : BOOLEAN, hash : BlockData, crc : Nat, length : 1 .. BlockSize,
          left : Nat, right : Nat, same : Nat]
    BY <1>1, <1>4, <2>1, <2>3
  <2>8. e.crc = Crc(e.hash)
    OBVIOUS
  <2> HIDE DEF e
  <2>9. e \in Entries(Cores(g))
    BY <2>6, <2>7, <2>8 DEF Entries
  <2> QED BY <2>4, <2>9 DEF e
<1> QED BY <1>2, <1>3, <1>4, <1>7 DEF p, q

\* Loading a file, and then all of them.
LEMMA LoadSourceKeeps ==
  ASSUME NEW P, Truthful(P), NEW g \in Gots(P), Sized(g), NEW t \in LoadedTables(Cores(g)), NEW id
  PROVE  LoadSource(g, t, id) \in LoadedTables(Cores(g))
<1>1. CASE id \in Known(g) /\ CheckedIn(g, id)
  <2> DEFINE C == Cores(g)
             size == Len(DescIn(g, id).data)
             blocks == VerifyIn(g, id).blocks
             n == Len(blocks)
             u == LoadFile(t, id, blocks, size)
  <2>1. /\ 1 <= n /\ blocks \in Seq(BlockData)
        /\ \A k \in 1 .. n : FileEntry(id, blocks, size, k) \in Entries(C)
    BY <1>1, SourceEntry
  <2>2. t \in Tables(C)
    BY DEF LoadedTables
  <2>3. LoadSource(g, t, id) = u
    BY <1>1 DEF LoadSource
  <2> HIDE DEF C, size, blocks
  <2>4. n \in Nat /\ DOMAIN blocks = 1 .. n
    BY <2>1
  <2>5. u \in Tables(C) /\ Ends(u)
    BY <2>1, <2>2, <2>4, LoadFileKeeps
  <2> QED BY <2>3, <2>5 DEF LoadedTables, C
<1>2. CASE ~(id \in Known(g) /\ CheckedIn(g, id))
  BY <1>2 DEF LoadSource
<1> QED BY <1>1, <1>2

\* All source files.
IsSourceFold(h, g, base, q) ==
  h = [s \in SUBSET DOMAIN q |-> IF s = {} THEN base ELSE LoadSource(g, h[s \ {Max(s)}], q[Max(s)])]

LEMMA SourceFoldIs ==
  ASSUME NEW g
  PROVE  LoadSources(g) = (CHOOSE h : IsSourceFold(h, g, EmptyTable, FileIds(g)))[DOMAIN FileIds(g)]
BY DEF LoadSources, FoldLeft, MapThenFoldSet, IsSourceFold

\* The tables as one source file after another is loaded.
SourceSteps(a, g) ==
  LET q == FileIds(g) IN
  /\ a \in [0 .. Len(q) -> LoadedTables(Cores(g))]
  /\ a[0] = EmptyTable /\ LoadSources(g) = a[Len(q)]
  /\ \A k \in 1 .. Len(q) : a[k] = LoadSource(g, a[k - 1], q[k])

LEMMA LoadSourcesSteps ==
  ASSUME NEW P, Truthful(P), NEW g \in Gots(P), Sized(g), FileIds(g) \in Seq(Id)
  PROVE  \E a : SourceSteps(a, g)
<1> DEFINE q == FileIds(g)
           A == LoadedTables(Cores(g))
           n == Len(q)
           S == 1 .. n
           base == EmptyTable
           r == [x \in A \X S |-> LoadSource(g, x[1], q[x[2]])]
           Eq(h) == IsSourceFold(h, g, base, q)
           f == CHOOSE h : Eq(h)
<1>0. n \in Nat /\ DOMAIN q = S
  OBVIOUS
<1>1. ASSUME NEW x \in A, NEW k \in S PROVE LoadSource(g, x, q[k]) \in A
  BY LoadSourceKeeps
<1>2. base \in A
  <2>1. EmptyTable.entry = <<>>
    BY DEF EmptyTable
  <2> QED BY <2>1, EmptyIsTable DEF LoadedTables
<1> HIDE DEF n, base, q
<1>3. r \in [A \X S -> A]
  <2> HIDE DEF A, S
  <2> QED BY <1>1
<1>4. PICK h : IsFold(h, n, A, base, r)
  <2> HIDE DEF A, r
  <2> QED BY <1>0, <1>2, <1>3, FoldExists
<1>4a. /\ h \in [SUBSET S -> A]
       /\ \A s \in SUBSET S : h[s] = IF s = {} THEN base ELSE r[h[s \ {Max(s)}], Max(s)]
  BY <1>4 DEF IsFold
<1>5. ASSUME NEW s \in SUBSET S, s # {}
      PROVE  Max(s) \in S /\ s \ {Max(s)} \in SUBSET S
  <2>1. Max(s) \in s
    BY <1>0, <1>5, MaxIs
  <2> QED BY <2>1
<1>6. Eq(h)
  <2>1. ASSUME NEW s \in SUBSET S
        PROVE  h[s] = IF s = {} THEN base ELSE LoadSource(g, h[s \ {Max(s)}], q[Max(s)])
    <3>1. CASE s = {}
      BY <1>4a, <3>1
    <3>2. CASE s # {}
      <4>1. Max(s) \in S /\ s \ {Max(s)} \in SUBSET S
        BY <1>5, <3>2
      <4>2. h[s \ {Max(s)}] \in A
        BY <1>4a, <4>1
      <4>3. r[h[s \ {Max(s)}], Max(s)] = LoadSource(g, h[s \ {Max(s)}], q[Max(s)])
        <5> HIDE DEF A, S
        <5> QED BY <4>1, <4>2
      <4> QED BY <1>4a, <3>2, <4>1, <4>3
    <3> QED BY <3>1, <3>2
  <2>2. h = [s \in SUBSET S |-> h[s]]
    BY <1>4a
  <2> HIDE DEF S, A
  <2> QED BY <1>0, <2>1, <2>2 DEF IsSourceFold
<1>7. Eq(f)
  <2> HIDE DEF Eq
  <2> QED BY <1>6
<1>8. LoadSources(g) = f[S]
  BY <1>0, SourceFoldIs DEF base, q
<1> HIDE DEF f, r
<1>9. \A s \in SUBSET S : f[s] = IF s = {} THEN base ELSE LoadSource(g, f[s \ {Max(s)}], q[Max(s)])
  <2> HIDE DEF S
  <2> QED BY <1>0, <1>7 DEF IsSourceFold
<1>10. \A s \in SUBSET S : f[s] \in A
  <2>1. f[{}] \in A
    <3>1. {} \in SUBSET S
      OBVIOUS
    <3> HIDE DEF A
    <3> QED BY <1>2, <1>9, <3>1
  <2>2. \A s \in SUBSET S : s # {} /\ f[s \ {Max(s)}] \in A => f[s] \in A
    <3> SUFFICES ASSUME NEW s \in SUBSET S, s # {}, f[s \ {Max(s)}] \in A PROVE f[s] \in A
      OBVIOUS
    <3>1. Max(s) \in S /\ f[s] = LoadSource(g, f[s \ {Max(s)}], q[Max(s)])
      <4> HIDE DEF A, S
      <4> QED BY <1>5, <1>9
    <3> HIDE DEF A, S
    <3> QED BY <1>1, <3>1
  <2> HIDE DEF A
  <2> QED BY <1>0, <2>1, <2>2, FoldStays
<1> DEFINE a == [k \in 0 .. n |-> f[1 .. k]]
<1>11. a[0] = base
  <2>1. 1 .. 0 = {} /\ {} \in SUBSET S
    BY <1>0
  <2>2. f[{}] = base
    <3> HIDE DEF S
    <3> QED BY <1>9, <2>1
  <2> QED BY <1>0, <2>1, <2>2
<1>12. a[n] = LoadSources(g)
  BY <1>0, <1>8
<1>13. a \in [0 .. n -> A]
  <2>1. \A k \in 0 .. n : 1 .. k \in SUBSET S
    BY <1>0
  <2> HIDE DEF A, S
  <2> QED BY <1>10, <2>1
<1>14. ASSUME NEW k \in S PROVE a[k] = LoadSource(g, a[k - 1], q[k])
  <2>1. 1 .. k \in SUBSET S /\ 1 .. k # {} /\ k \in Nat /\ 1 <= k /\ k - 1 \in 0 .. n /\ k \in 0 .. n
    <3>1. k \in Nat /\ 1 <= k /\ k - 1 \in 0 .. n /\ k \in 0 .. n
      BY <1>0
    <3>2. k \in 1 .. k
      BY <3>1
    <3>3. \A j \in 1 .. k : j \in S
      BY <1>0, <3>1
    <3> QED BY <3>1, <3>2, <3>3
  <2>2. Max(1 .. k) = k /\ (1 .. k) \ {k} = 1 .. k - 1
    BY <2>1, FirstOnes
  <2>3. f[1 .. k] = LoadSource(g, f[1 .. k - 1], q[k])
    <3> HIDE DEF S
    <3>1. f[1 .. k] = LoadSource(g, f[(1 .. k) \ {Max(1 .. k)}], q[Max(1 .. k)])
      BY <1>9, <2>1
    <3> QED BY <2>2, <3>1
  <2> QED BY <2>1, <2>3
<1> HIDE DEF a, S, A
<1>15. SourceSteps(a, g)
  BY <1>11, <1>12, <1>13, <1>14 DEF SourceSteps, A, n, q, base, S
<1> QED BY <1>15

LEMMA LoadSourcesKeeps ==
  ASSUME NEW P, Truthful(P), NEW g \in Gots(P), Sized(g), FileIds(g) \in Seq(Id)
  PROVE  LoadSources(g) \in LoadedTables(Cores(g))
<1>1. PICK a : SourceSteps(a, g)
  BY LoadSourcesSteps
<1>2. Len(FileIds(g)) \in 0 .. Len(FileIds(g))
  OBVIOUS
<1> QED BY <1>1, <1>2 DEF SourceSteps

-----------------------------------------------------------------------------
(* What is found in the window. *)

\* The window that Hash() and ShortHash() see, and the bytes of an entry in it.
LEMMA WindowIs ==
  ASSUME NEW data \in Seq(Byte), NEW c, CheckSummerInv(c, data), c.at < Len(data), NEW l \in 0 .. BlockSize
  PROVE  /\ Window(c, l) \in Seq(Byte) /\ Len(Window(c, l)) = l
         /\ \A i \in 1 .. l : Window(c, l)[i] = c.buffer[c.out + i]
<1>1. /\ BlockSize \in Nat /\ c.out \in Nat /\ c.out < BlockSize
      /\ c.buffer \in Seq(Byte) /\ Len(c.buffer) = 2 * BlockSize
  BY Sizes
<1> DEFINE b == c.buffer
           m == c.out
           w == SubSeq(b, m + 1, m + l)
<1>2. l \in Nat /\ m + l \in Nat /\ m + l <= Len(b) /\ m \in Nat /\ b \in Seq(Byte)
  BY <1>1
<1>3. Window(c, l) = w
  BY DEF Window
<1> HIDE DEF m, b
<1>4. /\ w \in Seq(Byte) /\ Len(w) = IF m < m + l THEN (m + l) - m ELSE 0
      /\ \A i \in 1 .. (m + l) - m : w[i] = b[m + i]
  BY <1>2, PartIs
<1>5. (m + l) - m = l /\ (m < m + l <=> l # 0)
  BY <1>2
<1> HIDE DEF w
<1> QED BY <1>3, <1>4, <1>5 DEF m, b

LEMMA HashIs ==
  ASSUME NEW data \in Seq(Byte), NEW c, CheckSummerInv(c, data), c.at < Len(data)
  PROVE  /\ Hash(c) \in BlockData /\ Checksum(c) \in Nat
         /\ \A i \in 1 .. BlockSize : Hash(c)[i] = c.buffer[c.out + i]
<1>1. BlockSize \in Nat /\ BlockSize \in 0 .. BlockSize
  BY BlockSizeIs
<1>2. /\ Hash(c) \in Seq(Byte) /\ Len(Hash(c)) = BlockSize
      /\ \A i \in 1 .. BlockSize : Hash(c)[i] = c.buffer[c.out + i]
  BY <1>1, WindowIs DEF Hash
<1> HIDE DEF Hash
<1>3. Hash(c) \in [1 .. BlockSize -> Byte]
  BY <1>2
<1> QED BY <1>2, <1>3, CrcAssumption DEF Checksum, BlockData

\* The window begins with the bytes of a block.
Shows(c, e) == \A i \in 1 .. e.length : c.buffer[c.out + i] = e.hash[i]

LEMMA ExpectedShows ==
  ASSUME NEW C, NEW n, NEW t, IsTable(t, C, n), NEW data \in Seq(Byte), NEW c, CheckSummerInv(c, data),
         c.at < Len(data), NEW next \in 0 .. n, NEW taken, Expected(t, next, c, taken)
  PROVE  next \in 1 .. n /\ Shows(c, t.entry[next])
<1> DEFINE e == t.entry[next]
<1>1. next # 0 /\ IF e.last THEN ShortHash(c, e.length) = e.hash ELSE Hash(c) = e.hash
  BY DEF Expected
<1>2. n \in Nat /\ next \in 1 .. n
  BY <1>1 DEF IsTable
<1>3. e \in Entries(C)
  BY <1>2, TableHas
<1> HIDE DEF e
<1>4. e.length \in 1 .. BlockSize /\ BlockSize \in Nat
  BY <1>3, EntryFields, BlockSizeIs
<1>5. ASSUME e.last PROVE Shows(c, e)
  <2>1. e.length \in 0 .. BlockSize
    BY <1>4
  <2>2. /\ Window(c, e.length) \in Seq(Byte) /\ Len(Window(c, e.length)) = e.length
        /\ \A i \in 1 .. e.length : Window(c, e.length)[i] = c.buffer[c.out + i]
    BY <2>1, WindowIs
  <2>3. \A i \in 1 .. Len(Window(c, e.length)) : Padded(Window(c, e.length), BlockSize)[i] = Window(c, e.length)[i]
    BY <1>4, <2>2, PaddedIs
  <2> QED BY <1>1, <1>5, <2>2, <2>3 DEF Shows, ShortHash
<1>6. ASSUME ~e.last PROVE Shows(c, e)
  <2>1. \A i \in 1 .. BlockSize : Hash(c)[i] = c.buffer[c.out + i]
    BY HashIs
  <2>2. \A i \in 1 .. e.length : i \in 1 .. BlockSize
    BY <1>4
  <2> QED BY <1>1, <1>6, <2>1, <2>2 DEF Shows
<1> QED BY <1>2, <1>5, <1>6 DEF e

\* What FindMatch returns is in the window, whichever way it was come upon.
LEMMA MatchShows ==
  ASSUME NEW C, NEW n, NEW t, IsTable(t, C, n), NEW data \in Seq(Byte), NEW c, CheckSummerInv(c, data),
         c.at < Len(data), NEW next \in 0 .. n, NEW file, NEW taken, NEW here, NEW whole
  PROVE  LET i == FindMatch(t, next, file, c, data, taken, here, whole).entry IN
         i \in 0 .. n /\ (i # 0 => Shows(c, t.entry[i]))
<1> DEFINE m == FindMatch(t, next, file, c, data, taken, here, whole)
           top == SearchCrc(t, Checksum(c))
           hit == IF top = 0 THEN 0 ELSE SearchHash(t, top, Hash(c))
<1>1. Hash(c) \in BlockData /\ Checksum(c) \in Nat /\ \A i \in 1 .. BlockSize : Hash(c)[i] = c.buffer[c.out + i]
  BY HashIs
<1>2. n \in Nat
  BY DEF IsTable
<1>3. hit \in 0 .. n /\ (hit # 0 => t.entry[hit].hash = Hash(c))
  <2>1. top \in 0 .. n
    BY <1>1, SearchCrcIs
  <2> HIDE DEF top
  <2>2. CASE top = 0
    BY <1>2, <2>2
  <2>3. CASE top # 0
    <3>1. top \in 1 .. n
      BY <1>2, <2>1, <2>3
    <3> QED BY <1>1, <2>3, <3>1, SearchHashIs
  <2> QED BY <2>2, <2>3
<1>4. m = CASE Expected(t, next, c, taken) -> MatchOf(next)
            [] ~Expected(t, next, c, taken) /\ hit = 0 -> NoMatch
            [] OTHER -> IF t.entry[hit].same = 0
                        THEN FindOnly(t, hit, next, c, data, taken, here, whole)
                        ELSE FindAmong(t, hit, file, c, data, taken)
  BY DEF FindMatch
<1> HIDE DEF m, hit, top
<1>5. ASSUME NEW i \in 1 .. n, t.entry[i].hash = Hash(c) PROVE Shows(c, t.entry[i])
  <2>1. t.entry[i].length \in 1 .. BlockSize
    BY TableHas, EntryFields
  <2>2. \A j \in 1 .. t.entry[i].length : j \in 1 .. BlockSize
    BY <2>1, BlockSizeIs
  <2> QED BY <1>1, <1>5, <2>2 DEF Shows
<1>6. CASE Expected(t, next, c, taken)
  <2>1. m.entry = next
    BY <1>4, <1>6 DEF MatchOf
  <2> QED BY <1>6, <2>1, ExpectedShows DEF m
<1>7. CASE ~Expected(t, next, c, taken) /\ hit = 0
  <2>1. m.entry = 0
    BY <1>4, <1>7 DEF NoMatch
  <2> QED BY <1>2, <2>1 DEF m
<1>8. CASE ~Expected(t, next, c, taken) /\ hit # 0
  <2>1. hit \in 1 .. n /\ t.entry[hit].hash = Hash(c)
    BY <1>2, <1>3, <1>8
  <2>2. CASE t.entry[hit].same = 0
    <3> DEFINE o == FindOnly(t, hit, next, c, data, taken, here, whole)
    <3>1. m = o
      BY <1>4, <1>8, <2>2
    <3>2. o \in {Duplicate, NoMatch, MatchOf(hit)}
      BY DEF FindOnly
    <3>3. m.entry = 0 \/ m.entry = hit
      BY <3>1, <3>2 DEF Duplicate, NoMatch, MatchOf
    <3> QED BY <1>2, <1>5, <2>1, <3>3 DEF m
  <2>3. CASE t.entry[hit].same # 0
    <3> DEFINE free == {j \in (DOMAIN t.entry) \ taken : Fits(t.entry[j], c, data)}
               mine == {j \in free : t.entry[j].file = file}
               own == FirstOf(t, hit, mine)
               any == FirstOf(t, hit, free)
               o == FindAmong(t, hit, file, c, data, taken)
    <3>1. m = o
      BY <1>4, <1>8, <2>3
    <3>2. o \in {Duplicate, MatchOf(own), MatchOf(any)}
      BY DEF FindAmong
    <3> HIDE DEF free, mine
    <3>3. own \in 0 .. n /\ (own # 0 => t.entry[own].hash = t.entry[hit].hash)
      BY <2>1, FirstOfIs
    <3>4. any \in 0 .. n /\ (any # 0 => t.entry[any].hash = t.entry[hit].hash)
      BY <2>1, FirstOfIs
    <3> HIDE DEF own, any, o
    <3>5. m.entry = 0 \/ m.entry = own \/ m.entry = any
      BY <3>1, <3>2 DEF Duplicate, NoMatch, MatchOf
    <3>6. \A i \in 0 .. n : i # 0 => i \in 1 .. n
      BY <1>2
    <3>7. m.entry \in 0 .. n /\ (m.entry # 0 => t.entry[m.entry].hash = Hash(c))
      BY <1>2, <2>1, <3>3, <3>4, <3>5
    <3> QED BY <1>5, <3>6, <3>7 DEF m
  <2> QED BY <2>2, <2>3
<1> QED BY <1>6, <1>7, <1>8

\* What the code expects after an entry is in the table.
LEMMA NextIs ==
  ASSUME NEW C, NEW t \in LoadedTables(C), NEW i \in 1 .. Len(t.entry)
  PROVE  NextEntry(t, i) \in 0 .. Len(t.entry)
<1> DEFINE n == Len(t.entry)
<1>1. n \in Nat
  <2>1. t \in Tables(C)
    BY DEF LoadedTables
  <2> QED BY <2>1 DEF Tables
<1>2. t.entry # <<>>
  BY <1>1
<1>3. t.entry[n].last
  BY <1>2 DEF LoadedTables, Ends
<1> HIDE DEF n
<1>4. ~t.entry[i].last => i # n
  BY <1>3
<1>5. i \in 1 .. n
  BY DEF n
<1> QED BY <1>1, <1>4, <1>5 DEF NextEntry, n

\* What the window shows of a block is at the window's place in the file.
Seen(data, at, own) ==
  LET bytes == Bytes(data, at, Len(own)) IN bytes # <<>> /\ bytes = SubSeq(own, 1, Len(bytes))

LEMMA FirstPartIs ==
  ASSUME NEW own \in Seq(Byte), NEW b \in Seq(Byte), Len(b) <= Len(own), \A i \in 1 .. Len(b) : b[i] = own[i]
  PROVE  b = SubSeq(own, 1, Len(b))
<1> DEFINE m == Len(b)
           s == SubSeq(own, 0 + 1, m)
<1>1. m \in Nat /\ 0 \in Nat /\ 0 + 1 = 1 /\ m - 0 = m /\ (0 < m <=> m # 0)
  OBVIOUS
<1>2. s \in Seq(Byte) /\ Len(s) = (IF 0 < m THEN m - 0 ELSE 0) /\ \A i \in 1 .. m - 0 : s[i] = own[0 + i]
  <2>1. m <= Len(own)
    OBVIOUS
  <2> HIDE DEF m
  <2> QED BY <1>1, <2>1, PartIs
<1>3. s = SubSeq(own, 1, m)
  BY <1>1
<1> HIDE DEF s
<1>4. Len(s) = m /\ \A i \in 1 .. m : s[i] = own[i]
  BY <1>1, <1>2
<1>5. s = b
  BY <1>2, <1>4
<1> QED BY <1>3, <1>5

\* A block that FindMatch returns is in the file at the window's offset, as much
\* of it as the file still has.
LEMMA FoundInWindow ==
  ASSUME NEW data \in Seq(Byte), NEW c, CheckSummerInv(c, data), c.at < Len(data),
         NEW own \in Seq(Byte), Len(own) \in 1 .. BlockSize,
         \A i \in 1 .. Len(own) : c.buffer[c.out + i] = own[i]
  PROVE  Seen(data, c.at, own)
<1> DEFINE n == Len(own)
           b == Bytes(data, c.at, n)
<1>1. /\ Len(data) \in Nat /\ BlockSize \in Nat /\ c.at \in Nat /\ c.out \in Nat /\ c.tail \in Nat
      /\ c.out < BlockSize /\ c.out <= c.at /\ c.read = c.at - c.out + c.tail
      /\ c.tail = 2 * BlockSize \/ c.read = Len(data)
  BY Sizes
<1>2. \A i \in 1 .. c.tail : c.buffer[i] = data[c.at - c.out + i]
  BY DEF CheckSummerInv, Holds
<1>3. n \in Nat /\ 1 <= n /\ n <= BlockSize /\ c.at <= Len(data)
  BY <1>1
<1>4. /\ b \in Seq(Byte) /\ Len(b) \in Nat /\ Len(b) <= n /\ c.at + Len(b) <= Len(data)
      /\ Len(b) = n \/ c.at + Len(b) = Len(data)
      /\ \A i \in 1 .. Len(b) : b[i] = data[c.at + i]
  <2> HIDE DEF n
  <2> QED BY <1>1, <1>3, BytesIs
<1> HIDE DEF b
<1>5. b # <<>>
  BY <1>1, <1>3, <1>4
<1>6. ASSUME NEW i \in 1 .. Len(b) PROVE b[i] = own[i]
  <2> DEFINE at == c.at
             out == c.out
             tail == c.tail
             L == Len(data)
             m == Len(b)
  <2>0. /\ L \in Nat /\ BlockSize \in Nat /\ at \in Nat /\ out \in Nat /\ tail \in Nat /\ m \in Nat /\ n \in Nat
        /\ out < BlockSize /\ out <= at /\ m <= n /\ n <= BlockSize /\ at + m <= L /\ i \in 1 .. m
        /\ tail = 2 * BlockSize \/ at - out + tail = L
    BY <1>1, <1>3, <1>4
  <2> HIDE DEF at, out, tail, L, m, n
  <2>1a. i \in 1 .. n /\ out + i \in 1 .. tail /\ at - out + (out + i) = at + i
    BY <2>0
  <2>1. i \in 1 .. n /\ c.out + i \in 1 .. c.tail /\ c.at - c.out + (c.out + i) = c.at + i
    BY <2>1a DEF at, out, tail
  <2>2. c.buffer[c.out + i] = data[c.at + i]
    BY <1>2, <2>1
  <2>3. c.buffer[c.out + i] = own[i]
    BY <2>1 DEF n
  <2> QED BY <1>4, <2>2, <2>3
<1>7. b = SubSeq(own, 1, Len(b))
  BY <1>4, <1>6, FirstPartIs
<1> QED BY <1>5, <1>7 DEF Seen, b

\* A block in the file it is of.
LEMMA OwnInPlace ==
  ASSUME NEW data \in Seq(Byte), NEW k \in 1 .. BlockCount(data)
  PROVE  LET own == BlockBytes(data, k)
             at == (k - 1) * BlockSize
         IN at \in 0 .. Len(data) /\ Bytes(data, at, Len(own)) = own /\ Seen(data, at, own)
<1> DEFINE own == BlockBytes(data, k)
           at == (k - 1) * BlockSize
           n == Len(own)
           b == Bytes(data, at, n)
<1>1. /\ own \in Seq(Byte) /\ n \in 1 .. BlockSize /\ at + n <= Len(data)
      /\ \A i \in 1 .. n : own[i] = data[at + i]
  BY BlockIs
<1>2. at \in Nat /\ BlockSize \in Nat /\ Len(data) \in Nat
  BY BlockStarts, BlockSizeIs
<1> HIDE DEF own, at
<1>3. n \in Nat /\ at <= Len(data) /\ at \in 0 .. Len(data)
  BY <1>1, <1>2
<1>4. /\ b \in Seq(Byte) /\ Len(b) \in Nat /\ Len(b) <= n /\ at + Len(b) <= Len(data)
      /\ Len(b) = n \/ at + Len(b) = Len(data)
      /\ \A i \in 1 .. Len(b) : b[i] = data[at + i]
  <2> HIDE DEF n
  <2> QED BY <1>2, <1>3, BytesIs
<1> HIDE DEF b
<1>5. Len(b) = n
  BY <1>1, <1>2, <1>3, <1>4
<1>6. b = own
  BY <1>1, <1>4, <1>5
<1>7. own # <<>> /\ own = SubSeq(own, 1, Len(own))
  BY <1>1, AllOfIt
<1> QED BY <1>3, <1>6, <1>7 DEF Seen, own, at, b

\* The least of some pairs of numbers.
LEMMA LeastIs ==
  ASSUME NEW S \in SUBSET (Nat \X Nat), S # {}
  PROVE  Least(S) \in S
<1> DEFINE firsts == {x[1] : x \in S}
<1>1. firsts \in SUBSET Nat /\ firsts # {}
  OBVIOUS
<1>2. PICK m \in firsts : \A y \in firsts : m <= y
  <2> HIDE DEF firsts
  <2> QED BY <1>1, LeastExists
<1> DEFINE seconds == {x[2] : x \in {y \in S : y[1] = m}}
<1>3. seconds \in SUBSET Nat /\ seconds # {}
  BY <1>2
<1>4. PICK n \in seconds : \A y \in seconds : n <= y
  <2> HIDE DEF seconds
  <2> QED BY <1>3, LeastExists
<1>5. PICK x \in S : x[1] = m /\ x[2] = n
  BY <1>4
<1>6. ASSUME NEW y \in S PROVE x[1] < y[1] \/ (x[1] = y[1] /\ x[2] <= y[2])
  <2>1. y[1] \in firsts /\ x[1] \in Nat /\ y[1] \in Nat
    OBVIOUS
  <2>2. x[1] <= y[1]
    BY <1>2, <1>5, <2>1
  <2>3. CASE y[1] = m
    <3>1. y[2] \in seconds
      BY <2>3
    <3> QED BY <1>4, <1>5, <2>3, <3>1
  <2>4. CASE y[1] # m
    BY <1>5, <2>1, <2>2, <2>4
  <2> QED BY <2>3, <2>4
<1> QED BY <1>6 DEF Least

-----------------------------------------------------------------------------
(* The invariant. *)

Stages == {"load", "sources", "scan", "extra", "result", "report", "done"}

TrustedIn(g, id) == CheckedIn(g, id) \/ Len(DescIn(g, id).data) <= HashedFirst

\* Where blocks are said to be, in the directory or nowhere; and that they are.
Places(disk) ==
  {p \in [file : (DOMAIN disk) \cup {NoFile}, at : Nat] : p.file = NoFile => p = Nowhere}

FoundRight(disk, g, f) ==
  /\ f = [id \in Known(g) |-> f[id]]
  /\ \A id \in Known(g) :
       /\ f[id] \in [1 .. BlockCount(DescIn(g, id).data) -> Places(disk)]
       /\ TrustedIn(g, id) =>
            \A k \in 1 .. BlockCount(DescIn(g, id).data) :
              f[id][k] # Nowhere => Seen(disk[f[id][k].file], f[id][k].at, BlockBytes(DescIn(g, id).data, k))

CompleteRight(disk, g, c) ==
  /\ c \in [Known(g) -> (DOMAIN disk) \cup {NoFile}]
  /\ \A id \in Known(g) : TrustedIn(g, id) /\ c[id] # NoFile => disk[c[id]] = DescIn(g, id).data

Prepared(j, g, t, f, c) ==
  /\ g.main \in MainPacket /\ Sized(g)
  /\ t \in LoadedTables(Cores(g))
  /\ FoundRight(j.disk, g, f) /\ CompleteRight(j.disk, g, c)

Nothing(t, f, c) == t = EmptyTable /\ f = <<>> /\ c = <<>>

AllKnown(g) == Known(g) = Range(FileIds(g))

\* The stages in which the source files are known.
Working == {"sources", "scan", "extra", "result"}

TodoRight ==
  /\ todo \in SUBSET (Nat \X Nat) /\ IsFiniteSet(todo)
  /\ stage = "load" => \A x \in todo : x[2] \in DOMAIN job.pars
  /\ stage = "extra" \/ (stage = "scan" /\ scan.back = "extra") => todo \subseteq ToScan

ScanRight ==
  /\ scan = [file |-> scan.file, want |-> scan.want, id |-> scan.id, c |-> scan.c, full |-> scan.full,
             count |-> scan.count, next |-> scan.next, back |-> scan.back]
  /\ scan.file \in DOMAIN job.disk /\ CheckSummerInv(scan.c, Data)
  /\ scan.next \in 0 .. Len(table.entry) /\ scan.back \in {"sources", "extra"}
  /\ scan.count \in Nat /\ (scan.count > 0 => BlockVerifiable /\ scan.id \in Known(got))

Expectation == IF result = "eRepairNotPossible" THEN MissingBlocks - Cardinality(got.recovery) ELSE 0

AnswerRight ==
  Verified =>
    /\ stage \in {"report", "done"}
    /\ result = "eSuccess" => AllComplete
    /\ result = "eRepairPossible" => Cardinality(got.recovery) >= MissingBlocks
    /\ stage = "done" => needed = Expectation

JobRight == job \in Jobs /\ main \in 1 .. Len(job.pars)

IInv ==
  /\ JobRight
  /\ stage \in Stages
  /\ got \in Gots(Packets(job))
  /\ TodoRight
  /\ Nothing(table, found, complete) \/ Prepared(job, got, table, found, complete)
  /\ stage = "load" => Nothing(table, found, complete)
  /\ stage \in Working \/ Verified => Prepared(job, got, table, found, complete) /\ AllKnown(got)
  /\ stage = "scan" => ScanRight
  /\ AnswerRight

\* What the invariant says of the parts, and the jobs.
LEMMA JobIs ==
  ASSUME NEW j \in Jobs
  PROVE  /\ j.pars \in Seq(ParFile) /\ j.pars # <<>> /\ Len(j.pars) \in Nat /\ DOMAIN j.pars = 1 .. Len(j.pars)
         /\ Truthful(Packets(j))
         /\ IsFiniteSet(DOMAIN j.disk) /\ DOMAIN j.disk \subseteq (Nat \X Nat) \ {NoFile}
         /\ \A f \in DOMAIN j.disk : j.disk[f] \in Seq(Byte)
<1>1. /\ j.pars \in Seq(ParFile) /\ j.pars # <<>> /\ Truthful(Packets(j))
      /\ IsFiniteSet(DOMAIN j.disk) /\ DOMAIN j.disk \subseteq (Nat \X Nat) \ {NoFile}
      /\ \A f \in DOMAIN j.disk : j.disk[f] \in Seq(Byte)
  BY JobsAssumption
<1> QED BY <1>1

LEMMA PacketsAre ==
  ASSUME NEW j \in Jobs, NEW i \in DOMAIN j.pars
  PROVE  j.pars[i].packets \in Seq(Packet) /\ Range(j.pars[i].packets) \subseteq Packets(j)
<1>1. j.pars[i] \in ParFile
  BY JobIs
<1> QED BY <1>1 DEF ParFile, Packets

\* An entry of the table is of a file with checksums.
LEMMA EntryOfSource ==
  ASSUME NEW g, NEW t \in LoadedTables(Cores(g)), NEW i \in 1 .. Len(t.entry)
  PROVE  LET e == t.entry[i]
             data == DescIn(g, e.file).data
         IN /\ e.file \in Known(g) /\ e.num \in 1 .. BlockCount(data)
            /\ e.hash = Block(data, e.num) /\ e.length = Len(BlockBytes(data, e.num))
            /\ e.length \in 1 .. BlockSize /\ (e.last <=> e.num = BlockCount(data))
<1> DEFINE e == t.entry[i]
<1>1. IsTable(t, Cores(g), Len(t.entry))
  BY TablesAre DEF LoadedTables
<1>2. e \in Entries(Cores(g))
  BY <1>1, TableHas
<1> HIDE DEF e
<1>3. e.length \in 1 .. BlockSize /\ Core(e) \in Cores(g)
  BY <1>2, EntryFields
<1>4. IsCore(g, Core(e))
  BY <1>3 DEF Cores
<1>5. PICK id \in Known(g) : \E k \in 1 .. BlockCount(DescIn(g, id).data) :
        Core(e) = <<id, k, k = BlockCount(DescIn(g, id).data), Block(DescIn(g, id).data, k),
                    Len(BlockBytes(DescIn(g, id).data, k))>>
  BY <1>4 DEF IsCore
<1>6. PICK k \in 1 .. BlockCount(DescIn(g, id).data) :
        Core(e) = <<id, k, k = BlockCount(DescIn(g, id).data), Block(DescIn(g, id).data, k),
                    Len(BlockBytes(DescIn(g, id).data, k))>>
  BY <1>5
<1>7. e.file = id /\ e.num = k /\ e.hash = Block(DescIn(g, id).data, k) /\ e.length = Len(BlockBytes(DescIn(g, id).data, k))
  BY <1>6 DEF Core
<1>8. e.last <=> k = BlockCount(DescIn(g, id).data)
  BY <1>6 DEF Core
<1> QED BY <1>3, <1>7, <1>8 DEF e

\* What is to be loaded.
LEMMA ToLoadIs ==
  ASSUME job \in Jobs, NEW m \in DOMAIN job.pars
  PROVE  /\ ToLoad(m) \in SUBSET (Nat \X Nat) /\ IsFiniteSet(ToLoad(m))
         /\ \A x \in ToLoad(m) : x[2] \in DOMAIN job.pars
<1> DEFINE D == 1 .. Len(job.pars)
           T == 1 .. 3
<1>1. DOMAIN job.pars = D /\ Len(job.pars) \in Nat
  BY JobIs
<1>2. ToLoad(m) \subseteq T \X D
  <2>1. Others(m) \subseteq D /\ Extras \subseteq D /\ m \in D /\ {1, 2, 3} \subseteq T
    BY <1>1 DEF Others, Extras, ExtraFiles
  <2> HIDE DEF T, D
  <2> QED BY <2>1 DEF ToLoad
<1>3. IsFiniteSet(T) /\ IsFiniteSet(D)
  <2>1. 1 \in Int /\ 3 \in Int /\ Len(job.pars) \in Int
    BY <1>1
  <2> QED BY <2>1, FS_Interval
<1>4. IsFiniteSet(T \X D)
  <2> HIDE DEF T, D
  <2> QED BY <1>3, FS_Product
<1>5. T \X D \subseteq Nat \X Nat /\ \A x \in T \X D : x[2] \in D
  BY <1>1
<1> HIDE DEF T, D
<1>6. IsFiniteSet(ToLoad(m))
  BY <1>2, <1>4, FS_Subset
<1> QED BY <1>1, <1>2, <1>5, <1>6

\* The source files, and those of which the description is known.
LEMMA KnownIs ==
  ASSUME NEW P, NEW g \in Gots(P), g.main \in MainPacket
  PROVE  /\ FileIds(g) \in Seq(Id) /\ Len(FileIds(g)) \in Nat /\ DOMAIN FileIds(g) = 1 .. Len(FileIds(g))
         /\ Known(g) \subseteq Range(FileIds(g)) /\ IsFiniteSet(Range(FileIds(g))) /\ IsFiniteSet(Known(g))
         /\ Cardinality(Range(FileIds(g))) <= Len(FileIds(g)) /\ Cardinality(Range(FileIds(g))) \in Nat
<1> DEFINE q == FileIds(g)
           n == Len(q)
           D == 1 .. n
<1>1. q \in Seq(Id)
  BY DEF MainPacket, FileIds
<1> HIDE DEF q
<1>2. n \in Nat /\ DOMAIN q = D
  BY <1>1
<1>3. IsFiniteSet(D) /\ Cardinality(D) = n
  <2>1. 1 \in Int /\ n \in Int
    BY <1>2
  <2>2. IsFiniteSet(D) /\ Cardinality(D) = IF 1 > n THEN 0 ELSE n - 1 + 1
    BY <2>1, FS_Interval
  <2>3. (IF 1 > n THEN 0 ELSE n - 1 + 1) = n
    BY <1>2
  <2> QED BY <2>2, <2>3
<1> HIDE DEF n, D
<1>4. Range(q) = {q[k] : k \in D}
  BY <1>2 DEF Range
<1>5. IsFiniteSet({q[k] : k \in D}) /\ Cardinality({q[k] : k \in D}) <= Cardinality(D)
  <2> DEFINE f == [k \in D |-> q[k]]
             R == {q[k] : k \in D}
  <2>1. f \in Surjection(D, R)
    BY DEF Surjection
  <2> HIDE DEF f, R
  <2> QED BY <1>3, <2>1, FS_Surjection DEF R
<1>6. Known(g) \subseteq Range(q)
  BY DEF Known, q
<1>7. IsFiniteSet(Known(g))
  BY <1>4, <1>5, <1>6, FS_Subset
<1>8. Cardinality(Range(q)) \in Nat
  BY <1>4, <1>5, FS_CardinalityType
<1> QED BY <1>1, <1>2, <1>3, <1>4, <1>5, <1>6, <1>7, <1>8 DEF q, n, D

\* The copies to be scanned.
LEMMA ToScanIs ==
  ASSUME job \in Jobs, got \in Gots(Packets(job)), got.main \in MainPacket
  PROVE  /\ ToScan \in SUBSET (Nat \X Nat) /\ IsFiniteSet(ToScan)
         /\ \A x \in ToScan : x[2] # 0 => <<NameAt(x[1]), x[2] - 1>> \in DOMAIN job.disk
<1> DEFINE L == Len(FileIds(got))
           N == 1 .. L + 1
           C == {f[2] + 1 : f \in DOMAIN job.disk}
<1>1. L \in Nat /\ DOMAIN FileIds(got) = 1 .. L
  BY KnownIs
<1>2. IsFiniteSet(DOMAIN job.disk) /\ DOMAIN job.disk \subseteq Nat \X Nat
  BY JobIs
<1>3. C \subseteq Nat
  BY <1>2
<1>4. IsFiniteSet(C)
  <2> DEFINE F(f) == f[2] + 1
  <2> HIDE DEF F
  <2>1. IsFiniteSet({F(f) : f \in DOMAIN job.disk})
    <3> DEFINE D == DOMAIN job.disk
               R == {F(f) : f \in D}
               h == [f \in D |-> F(f)]
    <3>1. h \in Surjection(D, R)
      BY DEF Surjection
    <3>2. IsFiniteSet(D)
      BY <1>2
    <3> HIDE DEF h, D, R
    <3>3. IsFiniteSet(R)
      BY <3>1, <3>2, FS_Surjection
    <3> QED BY <3>3 DEF R, D
  <2> QED BY <2>1 DEF F
<1>5. IsFiniteSet(N) /\ N \subseteq Nat /\ 1 .. L \subseteq N
  <2>1. 1 \in Int /\ L + 1 \in Int
    BY <1>1
  <2>2. IsFiniteSet(N)
    BY <2>1, FS_Interval
  <2> QED BY <1>1, <2>2
<1> DEFINE S == N \X ({0} \cup C)
<1> HIDE DEF L, N, C
<1>6. ToScan \subseteq S
  <2>1. ToScan = {<<n, 0>> : n \in 1 .. L}
                 \cup {x \in N \X C : <<NameAt(x[1]), x[2] - 1>> \in Copies(NameAt(x[1]))}
    BY <1>1 DEF ToScan, L, N, C
  <2> QED BY <1>5, <2>1
<1>7. IsFiniteSet(S)
  <2>1. IsFiniteSet(C \cup {0})
    BY <1>4, FS_AddElement
  <2>2. C \cup {0} = {0} \cup C
    OBVIOUS
  <2> QED BY <1>5, <2>1, <2>2, FS_Product
<1>8. IsFiniteSet(ToScan)
  BY <1>6, <1>7, FS_Subset
<1>9. S \subseteq Nat \X Nat
  <2>1. {0} \cup C \subseteq Nat /\ N \subseteq Nat
    BY <1>3, <1>5
  <2> QED BY <2>1
<1>10. ASSUME NEW x \in ToScan, x[2] # 0 PROVE <<NameAt(x[1]), x[2] - 1>> \in DOMAIN job.disk
  BY <1>10 DEF ToScan, Copies
<1> QED BY <1>6, <1>8, <1>9, <1>10

-----------------------------------------------------------------------------
(* The invariant holds at first, and every step keeps it. *)

\* The start, and what only some steps change.
LEMMA NothingHeld ==
  ASSUME NEW j \in Jobs
  PROVE  NoPackets \in Gots(Packets(j))
BY NothingGot

LEMMA InitInv == Init => IInv
<1> SUFFICES ASSUME Init PROVE IInv
  OBVIOUS
<1>1. /\ job \in Jobs /\ main = 1 /\ stage = "load" /\ todo = ToLoad(1) /\ got = NoPackets
      /\ table = EmptyTable /\ found = <<>> /\ complete = <<>> /\ result = "none"
  BY DEF Init
<1>2. 1 \in DOMAIN job.pars
  BY <1>1, JobIs
<1>3. JobRight
  <2>1. DOMAIN job.pars = 1 .. Len(job.pars)
    BY <1>1, JobIs
  <2> QED BY <1>1, <1>2, <2>1 DEF JobRight
<1>4. TodoRight
  <2>1. /\ ToLoad(1) \in SUBSET (Nat \X Nat) /\ IsFiniteSet(ToLoad(1))
        /\ \A x \in ToLoad(1) : x[2] \in DOMAIN job.pars
    BY <1>1, <1>2, ToLoadIs
  <2> QED BY <1>1, <2>1 DEF TodoRight
<1>5. got \in Gots(Packets(job))
  BY <1>1, NothingHeld
<1>6. ~Verified
  BY <1>1 DEF Verified
<1>7. Nothing(table, found, complete)
  BY <1>1 DEF Nothing
<1> QED BY <1>1, <1>3, <1>4, <1>5, <1>6, <1>7 DEF IInv, AnswerRight, Stages, Working

\* Nothing is known before the report.
LEMMA NoAnswer ==
  ASSUME IInv, stage \notin {"report", "done"}
  PROVE  ~Verified
BY DEF IInv, AnswerRight

LEMMA SameToScan ==
  ASSUME job' = job, got' = got
  PROVE  ToScan' = ToScan
BY DEF ToScan, NameAt, Target, Description, Copies

LEMMA WorkingIs ==
  ASSUME IInv, stage \in Working
  PROVE  /\ job \in Jobs /\ got \in Gots(Packets(job)) /\ got.main \in MainPacket /\ AllKnown(got)
         /\ Prepared(job, got, table, found, complete)
         /\ table \in LoadedTables(Cores(got)) /\ table \in Tables(Cores(got)) /\ Len(table.entry) \in Nat
         /\ ToScan \in SUBSET (Nat \X Nat) /\ IsFiniteSet(ToScan)
         /\ todo \in SUBSET (Nat \X Nat) /\ IsFiniteSet(todo) /\ ~Verified
<1>1. /\ job \in Jobs /\ got \in Gots(Packets(job)) /\ Prepared(job, got, table, found, complete) /\ AllKnown(got)
      /\ todo \in SUBSET (Nat \X Nat) /\ IsFiniteSet(todo)
  BY DEF IInv, JobRight, TodoRight
<1>2. got.main \in MainPacket /\ table \in LoadedTables(Cores(got))
  BY <1>1 DEF Prepared
<1>3. table \in Tables(Cores(got))
  BY <1>2 DEF LoadedTables
<1>4. Len(table.entry) \in Nat
  <2>1. table.entry \in Seq(Entries(Cores(got)))
    BY <1>3 DEF Tables
  <2> QED BY <2>1
<1>5. ToScan \in SUBSET (Nat \X Nat) /\ IsFiniteSet(ToScan)
  BY <1>1, <1>2, ToScanIs
<1>6. ~Verified
  BY NoAnswer DEF Working
<1> QED BY <1>1, <1>2, <1>3, <1>4, <1>5, <1>6

\* A step that leaves the source files and the table alone.
LEMMA WorkKeeps ==
  ASSUME IInv, stage \in Working, UNCHANGED <<job, main, got, table>>,
         Prepared(job, got, table, found', complete'),
         stage' \in Stages \ {"load"}, todo' \in SUBSET (Nat \X Nat), IsFiniteSet(todo'),
         stage' = "extra" \/ (stage' = "scan" /\ scan'.back = "extra") => todo' \subseteq ToScan,
         stage' = "scan" => ScanRight', AnswerRight'
  PROVE  IInv'
<1>1. JobRight /\ got \in Gots(Packets(job)) /\ AllKnown(got)
  BY WorkingIs DEF IInv
<1>2. JobRight' /\ (got \in Gots(Packets(job)))' /\ AllKnown(got)'
  BY <1>1 DEF JobRight
<1>3. Prepared(job, got, table, found, complete)'
  OBVIOUS
<1>4. TodoRight'
  BY SameToScan DEF TodoRight
<1> QED BY <1>2, <1>3, <1>4 DEF IInv

\* A data file is opened.
LEMMA OpenIs ==
  ASSUME NEW file \in DOMAIN job.disk, NEW id, NEW from \in {"sources", "extra"}, Open(file, id, from),
         job \in Jobs, Len(table.entry) \in Nat, UNCHANGED <<job, got, table>>
  PROVE  stage' = stage \/ (stage' = "scan" /\ ScanRight' /\ scan'.back = from)
<1>1. CASE ~Reads(file)
  BY <1>1 DEF Open
<1>2. CASE Reads(file)
  <2> DEFINE data == job.disk[file]
  <2>1. stage' = "scan" /\ scan' = [NoScan EXCEPT !.file = file, !.want = id, !.id = id, !.back = from,
                                                !.c = Start(data)]
    BY <1>2 DEF Open
  <2>2. scan' = [file |-> file, want |-> id, id |-> id, c |-> Start(data), full |-> TRUE, count |-> 0,
                 next |-> 0, back |-> from]
    BY <2>1 DEF NoScan
  <2>3. CheckSummerInv(Start(data), data)
    BY JobIs, StartRight
  <2>4. scan'.file = file /\ scan'.c = Start(data) /\ scan'.next = 0 /\ scan'.back = from /\ scan'.count = 0
    BY <2>2
  <2>5. Data' = data
    BY <2>4 DEF Data
  <2>6. scan' = [file |-> scan'.file, want |-> scan'.want, id |-> scan'.id, c |-> scan'.c, full |-> scan'.full,
                 count |-> scan'.count, next |-> scan'.next, back |-> scan'.back]
    BY <2>2
  <2>7. 0 \in 0 .. Len(table.entry) /\ 0 \in Nat /\ ~(0 > 0)
    OBVIOUS
  <2> HIDE DEF data
  <2>8. ScanRight'
    BY <2>3, <2>4, <2>5, <2>6, <2>7 DEF ScanRight
  <2> QED BY <2>1, <2>4, <2>8
<1> QED BY <1>1, <1>2

\* The steps, one by one: packets are read,
LEMMA LoadKeeps ==
  ASSUME IInv, Load
  PROVE  IInv'
<1> DEFINE i == Least(todo)[2]
           base == [got |-> got, some |-> FALSE]
           loaded == FoldLeft(LoadPacket, base, job.pars[i].packets)
<1>1. /\ stage = "load" /\ todo # {} /\ todo' = todo \ {Least(todo)}
      /\ UNCHANGED <<job, main, stage, table, found, complete, scan, failed, result, needed>>
      /\ got' = IF i \in used.pars THEN got ELSE loaded.got
  BY DEF Load
<1>2. /\ JobRight /\ job \in Jobs /\ got \in Gots(Packets(job)) /\ Nothing(table, found, complete)
      /\ todo \in SUBSET (Nat \X Nat) /\ IsFiniteSet(todo) /\ \A x \in todo : x[2] \in DOMAIN job.pars
  BY <1>1 DEF IInv, JobRight, TodoRight
<1>3. i \in DOMAIN job.pars
  <2>1. Least(todo) \in todo
    BY <1>1, <1>2, LeastIs
  <2> QED BY <1>2, <2>1
<1> HIDE DEF i
<1>4. loaded \in States(Packets(job))
  <2>1. job.pars[i].packets \in Seq(Packet) /\ Range(job.pars[i].packets) \subseteq Packets(job)
    BY <1>2, <1>3, PacketsAre
  <2>2. base \in States(Packets(job))
    BY <1>2 DEF States
  <2> HIDE DEF base
  <2> QED BY <2>1, <2>2, LoadAllKeeps
<1> HIDE DEF loaded
<1>5. got' \in Gots(Packets(job))
  <2>1. loaded.got \in Gots(Packets(job))
    BY <1>4 DEF States
  <2> QED BY <1>1, <1>2, <2>1
<1>6. TodoRight'
  <2>1. todo' \in SUBSET (Nat \X Nat) /\ todo' \subseteq todo
    BY <1>1, <1>2
  <2>2. IsFiniteSet(todo')
    BY <1>2, <2>1, FS_Subset
  <2> QED BY <1>1, <1>2, <2>1, <2>2 DEF TodoRight
<1>7. ~Verified'
  <2>1. ~Verified
    BY <1>1, NoAnswer
  <2> QED BY <1>1, <2>1 DEF Verified
<1> QED BY <1>1, <1>2, <1>5, <1>6, <1>7 DEF IInv, JobRight, AnswerRight, Stages, Working

\* What VerifySourceFiles starts with: no block has been found.
LEMMA NothingFound ==
  ASSUME NEW j \in Jobs, NEW g \in Gots(Packets(j)), g.main \in MainPacket, Sized(g)
  PROVE  Prepared(j, g, LoadSources(g), [id \in Known(g) |-> NoBlocks(DescIn(g, id).data)], [id \in Known(g) |-> NoFile])
<1> DEFINE f == [id \in Known(g) |-> NoBlocks(DescIn(g, id).data)]
           c == [id \in Known(g) |-> NoFile]
<1>1. LoadSources(g) \in LoadedTables(Cores(g))
  <2>1. Truthful(Packets(j)) /\ FileIds(g) \in Seq(Id)
    BY JobIs, KnownIs
  <2> QED BY <2>1, LoadSourcesKeeps
<1>2. Nowhere \in Places(j.disk)
  BY DEF Places, Nowhere, Location, NoFile
<1>3. ASSUME NEW id \in Known(g)
      PROVE  /\ f[id] \in [1 .. BlockCount(DescIn(g, id).data) -> Places(j.disk)]
             /\ \A k \in 1 .. BlockCount(DescIn(g, id).data) : f[id][k] = Nowhere
  <2>1. f[id] = [k \in 1 .. BlockCount(DescIn(g, id).data) |-> Nowhere]
    BY DEF NoBlocks
  <2> HIDE DEF f
  <2> QED BY <1>2, <2>1
<1>4. FoundRight(j.disk, g, f)
  <2>1. f = [id \in Known(g) |-> f[id]]
    OBVIOUS
  <2> HIDE DEF f
  <2> QED BY <1>3, <2>1 DEF FoundRight
<1>5. CompleteRight(j.disk, g, c)
  BY DEF CompleteRight
<1> QED BY <1>1, <1>4, <1>5 DEF Prepared

\* the table is made,
LEMMA PrepareKeeps ==
  ASSUME IInv, Prepare
  PROVE  IInv'
<1> DEFINE g == Consistent(got)
           ids == Known(g)
<1>1. /\ stage = "load" /\ todo = {} /\ UNCHANGED <<job, main, used, scan, failed, needed>>
      /\ JobRight /\ job \in Jobs /\ got \in Gots(Packets(job)) /\ Nothing(table, found, complete) /\ TodoRight
      /\ IF got.main = None
         THEN /\ result' = "eInsufficientCriticalData" /\ stage' = "report"
              /\ UNCHANGED <<todo, got, table, found, complete>>
         ELSE /\ got' = g
              /\ found' = [id \in ids |-> NoBlocks(DescIn(g, id).data)]
              /\ complete' = [id \in ids |-> NoFile]
              /\ table' = LoadSources(g)
              /\ IF ids = Range(FileIds(g))
                 THEN /\ stage' = "sources" /\ todo' = {<<DescIn(g, id).name, id>> : id \in ids}
                      /\ UNCHANGED result
                 ELSE stage' = "report" /\ result' = "eFileIOError" /\ UNCHANGED todo
  BY DEF Prepare, IInv, JobRight
<1>2. ~Verified
  BY <1>1, NoAnswer
<1>3. JobRight'
  BY <1>1 DEF JobRight
<1>4. todo = {} /\ IsFiniteSet(todo)
  BY <1>1 DEF TodoRight
<1>5. CASE got.main = None
  <2>1. ~Verified'
    BY <1>1, <1>5 DEF Verified
  <2>2. TodoRight'
    BY <1>1, <1>4, <1>5 DEF TodoRight
  <2>3. Nothing(table, found, complete)' /\ (got \in Gots(Packets(job)))'
    BY <1>1, <1>5
  <2>4. stage' = "report"
    BY <1>1, <1>5
  <2> QED BY <1>3, <2>1, <2>2, <2>3, <2>4 DEF IInv, AnswerRight, Stages, Working
<1>6. CASE got.main # None
  <2>1. g \in Gots(Packets(job)) /\ Sized(g) /\ g.main = got.main
    BY <1>1, ConsistentKeeps
  <2>2. g.main \in MainPacket
    BY <1>1, <1>6, <2>1, GotFields
  <2> HIDE DEF g
  <2>3. Prepared(job, g, LoadSources(g), [id \in ids |-> NoBlocks(DescIn(g, id).data)], [id \in ids |-> NoFile])
    BY <1>1, <2>1, <2>2, NothingFound
  <2>4. Prepared(job, got, table, found, complete)'
    BY <1>1, <1>6, <2>3
  <2>5. (got \in Gots(Packets(job)))'
    BY <1>1, <1>6, <2>1
  <2>6. CASE ids = Range(FileIds(g))
    <3>1. /\ stage' = "sources" /\ todo' = {<<DescIn(g, id).name, id>> : id \in ids} /\ result' = result
          /\ got' = g
      BY <1>1, <1>6, <2>6
    <3>2. todo' \in SUBSET (Nat \X Nat)
      <4>1. \A id \in ids : DescIn(g, id).name \in Nat /\ id \in Nat
        BY <2>1, DescInIs
      <4> QED BY <3>1, <4>1
    <3>3. IsFiniteSet(todo')
      <4> DEFINE F(id) == <<DescIn(g, id).name, id>>
                 R == {F(id) : id \in ids}
                 h == [id \in ids |-> F(id)]
      <4>1. h \in Surjection(ids, R)
        BY DEF Surjection
      <4>2. IsFiniteSet(ids)
        BY <2>1, <2>2, KnownIs
      <4>3. todo' = R
        BY <3>1
      <4> HIDE DEF h, ids, R
      <4>4. IsFiniteSet(R)
        BY <4>1, <4>2, FS_Surjection
      <4> QED BY <4>3, <4>4
    <3>4. TodoRight'
      BY <3>1, <3>2, <3>3 DEF TodoRight
    <3>5. ~Verified'
      BY <1>2, <3>1 DEF Verified
    <3>6. AllKnown(got)'
      BY <2>6, <3>1 DEF AllKnown
    <3> QED BY <1>3, <2>4, <2>5, <3>1, <3>4, <3>5, <3>6 DEF IInv, AnswerRight, Stages, Working
  <2>7. CASE ids # Range(FileIds(g))
    <3>1. stage' = "report" /\ result' = "eFileIOError" /\ todo' = todo
      BY <1>1, <1>6, <2>7
    <3>2. TodoRight'
      BY <1>4, <3>1 DEF TodoRight
    <3>3. ~Verified'
      BY <3>1 DEF Verified
    <3> QED BY <1>3, <2>4, <2>5, <3>1, <3>2, <3>3 DEF IInv, AnswerRight, Stages, Working
  <2> QED BY <2>6, <2>7
<1> QED BY <1>5, <1>6

\* the source files are scanned in turn,
LEMMA VerifySourceKeeps ==
  ASSUME IInv, VerifySource
  PROVE  IInv'
<1> DEFINE id == Least(todo)[2]
           file == Target(id)
<1>1. /\ stage = "sources" /\ todo # {} /\ todo' = todo \ {Least(todo)}
      /\ UNCHANGED <<job, main, got, table, found, complete, needed>>
  BY DEF VerifySource
<1>2. stage \in Working
  BY <1>1 DEF Working
<1>3. /\ job \in Jobs /\ Prepared(job, got, table, found, complete) /\ Len(table.entry) \in Nat
      /\ todo \in SUBSET (Nat \X Nat) /\ IsFiniteSet(todo) /\ ~Verified
  BY <1>2, WorkingIs
<1>4. todo' \in SUBSET (Nat \X Nat) /\ IsFiniteSet(todo')
  <2>1. todo' \in SUBSET (Nat \X Nat) /\ todo' \subseteq todo
    BY <1>1, <1>3
  <2> QED BY <1>3, <2>1, FS_Subset
<1>5. Prepared(job, got, table, found', complete')
  BY <1>1, <1>3
<1>6. \/ stage' = "report" /\ result' = "eFileIOError"
      \/ result' = result /\ (stage' = "sources" \/ (stage' = "scan" /\ ScanRight' /\ scan'.back = "sources"))
  <2>1. CASE IsUsed(file)
    BY <2>1 DEF VerifySource
  <2>2. CASE ~IsUsed(file) /\ file \in DOMAIN job.disk
    <3>1. Open(file, id, "sources") /\ result' = result
      BY <2>2 DEF VerifySource
    <3> HIDE DEF file, id
    <3>2. stage' = stage \/ (stage' = "scan" /\ ScanRight' /\ scan'.back = "sources")
      BY <1>1, <1>3, <2>2, <3>1, OpenIs
    <3> QED BY <1>1, <3>1, <3>2
  <2>3. CASE ~IsUsed(file) /\ file \notin DOMAIN job.disk
    BY <1>1, <2>3 DEF VerifySource
  <2> QED BY <2>1, <2>2, <2>3
<1>7. ~Verified'
  BY <1>3, <1>6 DEF Verified
<1>8. AnswerRight'
  BY <1>7 DEF AnswerRight
<1>9. stage' \in Stages \ {"load"} /\ stage' # "extra" /\ (stage' = "scan" => ScanRight' /\ scan'.back # "extra")
  BY <1>6 DEF Stages
<1> HIDE DEF id, file
<1> QED BY <1>1, <1>2, <1>4, <1>5, <1>8, <1>9, WorkKeeps

\* and, when something is missing, other files;
LEMMA EndSourcesKeeps ==
  ASSUME IInv, EndSources
  PROVE  IInv'
<1>1. /\ stage = "sources"
      /\ UNCHANGED <<job, main, got, used, table, found, complete, scan, failed, needed>>
      /\ \/ stage' = "report" /\ result' = "eFileIOError" /\ todo' = todo
         \/ stage' \in {"result", "extra"} /\ todo' = ToScan /\ result' = result
  BY DEF EndSources
<1>2. stage \in Working
  BY <1>1 DEF Working
<1>3. /\ Prepared(job, got, table, found, complete) /\ ToScan \in SUBSET (Nat \X Nat) /\ IsFiniteSet(ToScan)
      /\ todo \in SUBSET (Nat \X Nat) /\ IsFiniteSet(todo) /\ ~Verified
  BY <1>2, WorkingIs
<1>4. /\ todo' \in SUBSET (Nat \X Nat) /\ IsFiniteSet(todo')
      /\ stage' \in Stages \ {"load"} /\ stage' # "scan" /\ (stage' = "extra" => todo' \subseteq ToScan)
  BY <1>1, <1>3 DEF Stages
<1>5. AnswerRight'
  <2>1. ~Verified'
    BY <1>1, <1>3 DEF Verified
  <2> QED BY <2>1 DEF AnswerRight
<1>6. Prepared(job, got, table, found', complete')
  BY <1>1, <1>3
<1> QED BY <1>1, <1>2, <1>4, <1>5, <1>6, WorkKeeps

\* One block more, or all blocks of a file.
LEMMA PutFound ==
  ASSUME NEW disk, NEW g, NEW f, FoundRight(disk, g, f), NEW id \in Known(g),
         NEW h \in [1 .. BlockCount(DescIn(g, id).data) -> Places(disk)],
         TrustedIn(g, id) =>
           \A k \in 1 .. BlockCount(DescIn(g, id).data) :
             h[k] # Nowhere => Seen(disk[h[k].file], h[k].at, BlockBytes(DescIn(g, id).data, k))
  PROVE  FoundRight(disk, g, [f EXCEPT ![id] = h])
<1> DEFINE d == [f EXCEPT ![id] = h]
<1>1. f = [other \in Known(g) |-> f[other]]
  BY DEF FoundRight
<1>2. /\ d = [other \in Known(g) |-> d[other]]
      /\ d[id] = h /\ \A other \in Known(g) : other # id => d[other] = f[other]
  BY <1>1
<1> HIDE DEF d
<1>3. ASSUME NEW other \in Known(g)
      PROVE  /\ d[other] \in [1 .. BlockCount(DescIn(g, other).data) -> Places(disk)]
             /\ TrustedIn(g, other) =>
                  \A k \in 1 .. BlockCount(DescIn(g, other).data) :
                    d[other][k] # Nowhere =>
                      Seen(disk[d[other][k].file], d[other][k].at, BlockBytes(DescIn(g, other).data, k))
  <2>1. CASE other = id
    BY <1>2, <2>1
  <2>2. CASE other # id
    <3>1. d[other] = f[other]
      BY <1>2, <2>2
    <3> QED BY <3>1 DEF FoundRight
  <2> QED BY <2>1, <2>2
<1> QED BY <1>2, <1>3 DEF FoundRight, d

LEMMA PlaceIs ==
  ASSUME NEW j \in Jobs, NEW file \in DOMAIN j.disk, NEW at \in Nat
  PROVE  /\ Location(file, at) \in Places(j.disk) /\ Location(file, at).file = file /\ Location(file, at).at = at
<1>1. file # NoFile
  BY JobIs
<1> QED BY <1>1 DEF Places, Location

LEMMA ScanningIs ==
  ASSUME IInv, stage = "scan"
  PROVE  /\ ScanRight /\ scan.file \in DOMAIN job.disk /\ Data \in Seq(Byte) /\ CheckSummerInv(scan.c, Data)
         /\ scan.next \in 0 .. Len(table.entry) /\ scan.c.at \in Nat /\ scan.c.at <= Len(Data)
         /\ stage \in Working /\ (scan.back = "extra" => todo \subseteq ToScan)
<1>1. ScanRight /\ (scan.back = "extra" => todo \subseteq ToScan) /\ job \in Jobs
  BY DEF IInv, TodoRight, JobRight
<1>2. scan.file \in DOMAIN job.disk /\ CheckSummerInv(scan.c, Data) /\ scan.next \in 0 .. Len(table.entry)
  BY <1>1 DEF ScanRight
<1>3. Data \in Seq(Byte)
  BY <1>1, <1>2, JobIs DEF Data
<1>4. scan.c.at \in Nat /\ scan.c.at <= Len(Data)
  BY <1>2, <1>3, Sizes
<1> QED BY <1>1, <1>2, <1>3, <1>4 DEF Working

\* What is found in the window is there.
LEMMA MatchIs ==
  ASSUME IInv, Scanning, Match.entry # 0
  PROVE  LET e == table.entry[Match.entry]
             own == BlockBytes(DataOf(e.file), e.num)
         IN /\ Match.entry \in 1 .. Len(table.entry)
            /\ e.file \in Known(got) /\ e.num \in 1 .. BlockCount(DataOf(e.file))
            /\ e.length \in 1 .. BlockSize /\ Seen(Data, scan.c.at, own)
<1> DEFINE n == Len(table.entry)
           i == Match.entry
           e == table.entry[i]
           own == BlockBytes(DataOf(e.file), e.num)
<1>1. stage = "scan" /\ scan.c.at < Len(Data)
  BY DEF Scanning
<1>2. Data \in Seq(Byte) /\ CheckSummerInv(scan.c, Data) /\ scan.next \in 0 .. n /\ stage \in Working
  BY <1>1, ScanningIs
<1>3. /\ table \in LoadedTables(Cores(got)) /\ table \in Tables(Cores(got)) /\ n \in Nat
      /\ job \in Jobs /\ got \in Gots(Packets(job))
  BY <1>2, WorkingIs
<1>4. IsTable(table, Cores(got), n)
  BY <1>3, TablesAre
<1>5. i \in 0 .. n /\ (i # 0 => Shows(scan.c, table.entry[i]))
  <2> HIDE DEF n
  <2> QED BY <1>1, <1>2, <1>4, MatchShows DEF Match
<1>6. i \in 1 .. n /\ Shows(scan.c, e)
  BY <1>3, <1>5
<1> HIDE DEF i, n
<1>7. /\ e.file \in Known(got) /\ e.num \in 1 .. BlockCount(DataOf(e.file))
      /\ e.hash = Block(DataOf(e.file), e.num) /\ e.length = Len(own) /\ e.length \in 1 .. BlockSize
  BY <1>3, <1>6, EntryOfSource DEF n, DataOf, Description
<1>8. DataOf(e.file) \in Seq(Byte)
  BY <1>3, <1>7, DescInIs DEF DataOf, Description
<1> HIDE DEF e
<1>9. own \in Seq(Byte) /\ \A k \in 1 .. Len(own) : Block(DataOf(e.file), e.num)[k] = own[k]
  BY <1>7, <1>8, BlockIs
<1> HIDE DEF own
<1>10. \A k \in 1 .. Len(own) : scan.c.buffer[scan.c.out + k] = own[k]
  BY <1>6, <1>7, <1>9 DEF Shows
<1>11. Seen(Data, scan.c.at, own)
  BY <1>1, <1>2, <1>7, <1>9, <1>10, FoundInWindow
<1> QED BY <1>6, <1>7, <1>11 DEF e, own, i, n

\* in a file a block is found at the offset of the window,
LEMMA FindBlockKeeps ==
  ASSUME IInv, FindBlock
  PROVE  IInv'
<1> DEFINE i == Match.entry
           e == table.entry[i]
           at == scan.c.at
           p == Location(scan.file, at)
           asExpected == IF scan.count = 0 THEN e.num = 1 /\ scan.c.at = 0 ELSE i = scan.next
           id == IF scan.count = 0 THEN e.file ELSE scan.id
           own == BlockBytes(DataOf(e.file), e.num)
<1>1. /\ Scanning /\ i # 0 /\ stage = "scan" /\ BlockVerifiable /\ at < Len(Data)
      /\ UNCHANGED <<job, main, stage, todo, got, used, table, complete, failed, result, needed>>
      /\ found' = [found EXCEPT ![e.file][e.num] = p]
      /\ scan' = [scan EXCEPT !.id = id, !.full = @ /\ asExpected, !.count = @ + 1,
                              !.next = NextEntry(table, i), !.c = Jump(@, Data, e.length)]
  BY DEF FindBlock, Scanning
<1>2. /\ ScanRight /\ scan.file \in DOMAIN job.disk /\ Data \in Seq(Byte) /\ CheckSummerInv(scan.c, Data)
      /\ at \in Nat /\ stage \in Working /\ (scan.back = "extra" => todo \subseteq ToScan)
  BY <1>1, ScanningIs
<1>3. /\ job \in Jobs /\ got \in Gots(Packets(job)) /\ Prepared(job, got, table, found, complete)
      /\ table \in LoadedTables(Cores(got)) /\ todo \in SUBSET (Nat \X Nat) /\ IsFiniteSet(todo) /\ ~Verified
  BY <1>2, WorkingIs
<1>4. /\ i \in 1 .. Len(table.entry) /\ e.file \in Known(got) /\ e.num \in 1 .. BlockCount(DataOf(e.file))
      /\ e.length \in 1 .. BlockSize /\ Seen(Data, at, own)
  BY <1>1, MatchIs
<1> HIDE DEF i, e
<1>5. FoundRight(job.disk, got, found')
  <2> DEFINE data == DescIn(got, e.file).data
             h == [found[e.file] EXCEPT ![e.num] = p]
  <2>1. FoundRight(job.disk, got, found)
    BY <1>3 DEF Prepared
  <2>2. data = DataOf(e.file)
    BY DEF DataOf, Description
  <2>3. /\ found[e.file] \in [1 .. BlockCount(data) -> Places(job.disk)]
        /\ TrustedIn(got, e.file) =>
             \A k \in 1 .. BlockCount(data) : found[e.file][k] # Nowhere =>
               Seen(job.disk[found[e.file][k].file], found[e.file][k].at, BlockBytes(data, k))
    BY <1>4, <2>1 DEF FoundRight
  <2>4. p \in Places(job.disk) /\ p.file = scan.file /\ p.at = at
    BY <1>2, <1>3, PlaceIs
  <2>5. Seen(job.disk[p.file], p.at, BlockBytes(data, e.num))
    BY <1>4, <2>2, <2>4 DEF Data
  <2> HIDE DEF p, data
  <2>6. /\ h \in [1 .. BlockCount(data) -> Places(job.disk)] /\ h[e.num] = p
        /\ \A k \in 1 .. BlockCount(data) : k # e.num => h[k] = found[e.file][k]
    BY <1>4, <2>2, <2>3, <2>4
  <2>7. found' = [found EXCEPT ![e.file] = h]
    BY <1>1
  <2> HIDE DEF h
  <2>8. TrustedIn(got, e.file) =>
          \A k \in 1 .. BlockCount(data) : h[k] # Nowhere => Seen(job.disk[h[k].file], h[k].at, BlockBytes(data, k))
    BY <2>3, <2>5, <2>6
  <2>9. FoundRight(job.disk, got, [found EXCEPT ![e.file] = h])
    BY <1>4, <2>1, <2>6, <2>8, PutFound DEF data
  <2> QED BY <2>7, <2>9
<1>6. Prepared(job, got, table, found', complete')
  BY <1>1, <1>3, <1>5 DEF Prepared
<1>7. scan' = [file |-> scan.file, want |-> scan.want, id |-> id, c |-> Jump(scan.c, Data, e.length),
               full |-> scan.full /\ asExpected, count |-> scan.count + 1, next |-> NextEntry(table, i), back |-> scan.back]
  BY <1>1, <1>2 DEF ScanRight
<1> HIDE DEF asExpected
<1>8. ScanRight'
  <2>1. CheckSummerInv(Jump(scan.c, Data, e.length), Data)
    BY <1>1, <1>2, <1>4, JumpKeeps
  <2>2. NextEntry(table, i) \in 0 .. Len(table.entry)
    BY <1>3, <1>4, NextIs
  <2>3. scan.count \in Nat /\ scan.back \in {"sources", "extra"} /\ (scan.count > 0 => scan.id \in Known(got))
    BY <1>2 DEF ScanRight
  <2>4. id \in Known(got) /\ scan.count + 1 \in Nat
    BY <1>4, <2>3
  <2> HIDE DEF id
  <2>5. /\ scan'.file = scan.file /\ scan'.id = id /\ scan'.c = Jump(scan.c, Data, e.length)
        /\ scan'.count = scan.count + 1 /\ scan'.next = NextEntry(table, i) /\ scan'.back = scan.back
    BY <1>7
  <2>6. scan' = [file |-> scan'.file, want |-> scan'.want, id |-> scan'.id, c |-> scan'.c, full |-> scan'.full,
                 count |-> scan'.count, next |-> scan'.next, back |-> scan'.back]
    BY <1>7
  <2>7. Data' = Data
    BY <1>1, <2>5 DEF Data
  <2>8. BlockVerifiable'
    BY <1>1 DEF BlockVerifiable
  <2> QED BY <1>1, <1>2, <2>1, <2>2, <2>3, <2>4, <2>5, <2>6, <2>7, <2>8 DEF ScanRight
<1>9. scan'.back = scan.back
  BY <1>7
<1>10. AnswerRight'
  <2>1. ~Verified'
    BY <1>1, <1>3 DEF Verified
  <2> QED BY <2>1 DEF AnswerRight
<1>11. /\ stage' \in Stages \ {"load"} /\ stage' # "extra" /\ (scan'.back = "extra" => todo' \subseteq ToScan)
       /\ todo' \in SUBSET (Nat \X Nat) /\ IsFiniteSet(todo')
  BY <1>1, <1>2, <1>3, <1>9 DEF Stages
<1> QED BY <1>1, <1>2, <1>6, <1>8, <1>10, <1>11, WorkKeeps

\* or the window goes on;
LEMMA SkipOnKeeps ==
  ASSUME IInv, SkipOn
  PROVE  IInv'
<1> DEFINE c == IF Match.duplicate THEN Jump(scan.c, Data, BlockSize) ELSE Step(scan.c, Data)
<1>1. /\ stage = "scan" /\ BlockVerifiable /\ scan.c.at < Len(Data)
      /\ UNCHANGED <<job, main, stage, todo, got, used, table, found, complete, failed, result, needed>>
      /\ scan' = [scan EXCEPT !.full = FALSE, !.next = 0, !.c = c]
  BY DEF SkipOn, Scanning
<1>2. /\ ScanRight /\ scan.file \in DOMAIN job.disk /\ Data \in Seq(Byte) /\ CheckSummerInv(scan.c, Data)
      /\ stage \in Working /\ (scan.back = "extra" => todo \subseteq ToScan)
  BY <1>1, ScanningIs
<1>3. /\ Prepared(job, got, table, found, complete) /\ Len(table.entry) \in Nat
      /\ todo \in SUBSET (Nat \X Nat) /\ IsFiniteSet(todo) /\ ~Verified
  BY <1>2, WorkingIs
<1>4. CheckSummerInv(c, Data)
  <2>1. CheckSummerInv(Step(scan.c, Data), Data)
    BY <1>1, <1>2, StepKeeps
  <2>2. CheckSummerInv(Jump(scan.c, Data, BlockSize), Data)
    <3>1. BlockSize \in 1 .. BlockSize
      BY BlockSizeIs
    <3> QED BY <1>1, <1>2, <3>1, JumpKeeps
  <2> QED BY <2>1, <2>2
<1> HIDE DEF c
<1>5. scan' = [file |-> scan.file, want |-> scan.want, id |-> scan.id, c |-> c, full |-> FALSE,
               count |-> scan.count, next |-> 0, back |-> scan.back]
  BY <1>1, <1>2 DEF ScanRight
<1>6. /\ scan'.file = scan.file /\ scan'.id = scan.id /\ scan'.c = c
      /\ scan'.count = scan.count /\ scan'.next = 0 /\ scan'.back = scan.back
      /\ scan' = [file |-> scan'.file, want |-> scan'.want, id |-> scan'.id, c |-> scan'.c, full |-> scan'.full,
                  count |-> scan'.count, next |-> scan'.next, back |-> scan'.back]
  BY <1>5
<1>7. Data' = Data /\ BlockVerifiable'
  BY <1>1, <1>6 DEF Data, BlockVerifiable
<1>8. 0 \in 0 .. Len(table.entry)
  BY <1>3
<1>9. ScanRight'
  BY <1>1, <1>2, <1>4, <1>6, <1>7, <1>8 DEF ScanRight
<1>10. AnswerRight'
  <2>1. ~Verified'
    BY <1>1, <1>3 DEF Verified
  <2> QED BY <2>1 DEF AnswerRight
<1>11. /\ stage' \in Stages \ {"load"} /\ stage' # "extra" /\ (scan'.back = "extra" => todo' \subseteq ToScan)
       /\ todo' \in SUBSET (Nat \X Nat) /\ IsFiniteSet(todo') /\ Prepared(job, got, table, found', complete')
  BY <1>1, <1>2, <1>3, <1>6 DEF Stages
<1> QED BY <1>1, <1>2, <1>9, <1>10, <1>11, WorkKeeps

\* One complete copy more.
LEMMA PutComplete ==
  ASSUME NEW disk, NEW g, NEW c, CompleteRight(disk, g, c), NEW id \in Known(g), NEW file \in DOMAIN disk,
         TrustedIn(g, id) => disk[file] = DescIn(g, id).data
  PROVE  CompleteRight(disk, g, [c EXCEPT ![id] = file])
<1> DEFINE d == [c EXCEPT ![id] = file]
<1>1. c \in [Known(g) -> (DOMAIN disk) \cup {NoFile}]
  BY DEF CompleteRight
<1>2. /\ d \in [Known(g) -> (DOMAIN disk) \cup {NoFile}]
      /\ d[id] = file /\ \A other \in Known(g) : other # id => d[other] = c[other]
  BY <1>1
<1> HIDE DEF d
<1>3. ASSUME NEW other \in Known(g), TrustedIn(g, other), d[other] # NoFile
      PROVE  disk[d[other]] = DescIn(g, other).data
  BY <1>2, <1>3 DEF CompleteRight
<1> QED BY <1>2, <1>3 DEF CompleteRight, d

\* A file that is the same as a whole.
LEMMA FullMatchIs ==
  ASSUME IInv, stage = "scan", ~Scanning, FullMatch
  PROVE  scan.id \in Known(got) /\ Data = DataOf(scan.id)
<1>1. /\ ScanRight /\ Data \in Seq(Byte) /\ CheckSummerInv(scan.c, Data)
      /\ scan.c.at \in Nat /\ scan.c.at <= Len(Data)
  BY ScanningIs
<1>2. scan.count > 0 /\ HashFull(scan.c, Data) = DataOf(scan.id)
  BY DEF FullMatch
<1>3. BlockVerifiable /\ scan.id \in Known(got)
  BY <1>1, <1>2 DEF ScanRight
<1>4. scan.c.at = Len(Data)
  <2>1. ~(scan.c.at < Len(Data))
    BY <1>3 DEF Scanning
  <2>2. Len(Data) \in Nat
    BY <1>1
  <2> QED BY <1>1, <2>1, <2>2
<1>5. HashFull(scan.c, Data) = Data
  BY <1>1, <1>4, CheckSummerRight DEF HashesRight
<1> QED BY <1>2, <1>3, <1>5

LEMMA WholeMatchIs ==
  ASSUME IInv, stage = "scan", NEW full,
         NEW first \in IF BlockVerifiable /\ Data = <<>> THEN Uninitialised ELSE {Bytes(Data, 0, HashedFirst)},
         NEW n \in WholeMatches(full, first)
  PROVE  LET id == FileIds(got)[n] IN
         id \in Known(got) /\ (TrustedIn(got, id) => Data = DataOf(id))
<1> DEFINE id == FileIds(got)[n]
<1>1. /\ n \in DOMAIN FileIds(got) /\ ~Checked(id) /\ Len(Data) = Len(DataOf(id)) /\ first = Description(id).first
  BY DEF WholeMatches
<1>2. stage \in Working /\ Data \in Seq(Byte)
  BY ScanningIs
<1>3. job \in Jobs /\ got \in Gots(Packets(job)) /\ AllKnown(got)
  BY <1>2, WorkingIs
<1>4. id \in Known(got)
  BY <1>1, <1>3 DEF AllKnown, Range
<1> HIDE DEF id
<1>5. DataOf(id) \in Seq(Byte) /\ DescLoads(Description(id))
  BY <1>3, <1>4, DescInIs DEF DataOf, Description
<1>6. ASSUME TrustedIn(got, id) PROVE Data = DataOf(id)
  <2>1. Len(DataOf(id)) <= HashedFirst
    BY <1>1, <1>6 DEF TrustedIn, Checked, DataOf, Description
  <2>2. first = DataOf(id)
    BY <1>1, <1>5, <2>1 DEF DescLoads, DataOf
  <2>3. CASE Data = <<>>
    BY <1>1, <1>5, <2>3
  <2>4. CASE Data # <<>>
    <3>1. first = Bytes(Data, 0, HashedFirst)
      BY <2>4
    <3> DEFINE b == Bytes(Data, 0, HashedFirst)
    <3>2. HashedFirst \in Nat /\ 0 \in Nat /\ 0 <= Len(Data) /\ Len(Data) \in Nat
      BY <1>2, SizesAssumption
    <3>3. /\ b \in Seq(Byte) /\ Len(b) \in Nat /\ Len(b) <= HashedFirst /\ 0 + Len(b) <= Len(Data)
          /\ Len(b) = HashedFirst \/ 0 + Len(b) = Len(Data)
          /\ \A i \in 1 .. Len(b) : b[i] = Data[0 + i]
      BY <1>2, <3>2, BytesIs
    <3> HIDE DEF b
    <3>4. Len(b) = Len(Data)
      BY <1>1, <2>1, <3>2, <3>3
    <3>5. \A i \in 1 .. Len(b) : b[i] = Data[i]
      BY <3>3
    <3>6. b = Data
      BY <1>2, <3>3, <3>4, <3>5
    <3> QED BY <2>2, <3>1, <3>6 DEF b
  <2> QED BY <2>3, <2>4
<1> QED BY <1>4, <1>6 DEF id

\* at the end of a file its hash may show that it is complete;
LEMMA EndScanKeeps ==
  ASSUME IInv, EndScan
  PROVE  IInv'
<1>1. /\ stage = "scan" /\ ~Scanning /\ stage' = scan.back /\ scan' = NoScan
      /\ UNCHANGED <<job, main, todo, got, used, table, failed, result, needed>>
  BY DEF EndScan
<1>2. /\ ScanRight /\ scan.file \in DOMAIN job.disk /\ Data \in Seq(Byte)
      /\ stage \in Working /\ (scan.back = "extra" => todo \subseteq ToScan)
  BY <1>1, ScanningIs
<1>3. /\ job \in Jobs /\ got \in Gots(Packets(job)) /\ got.main \in MainPacket /\ Prepared(job, got, table, found, complete)
      /\ todo \in SUBSET (Nat \X Nat) /\ IsFiniteSet(todo) /\ ~Verified
  BY <1>2, WorkingIs
<1>4. FoundRight(job.disk, got, found) /\ CompleteRight(job.disk, got, complete)
  BY <1>3 DEF Prepared
<1>5. Data = job.disk[scan.file] /\ \A id : DataOf(id) = DescIn(got, id).data
  BY DEF Data, DataOf, Description
<1>6. FoundRight(job.disk, got, found') /\ CompleteRight(job.disk, got, complete')
  <2>1. CASE FullMatch
    <3>1. complete' = [complete EXCEPT ![scan.id] = scan.file] /\ found' = found
      BY <2>1 DEF EndScan
    <3>2. scan.id \in Known(got) /\ Data = DataOf(scan.id)
      BY <1>1, <2>1, FullMatchIs
    <3> QED BY <1>2, <1>4, <1>5, <3>1, <3>2, PutComplete
  <2>2. CASE ~FullMatch
    <3>1. PICK full \in IF Unscanned THEN Uninitialised ELSE {HashFull(scan.c, Data)},
               first \in IF BlockVerifiable /\ Data = <<>> THEN Uninitialised ELSE {Bytes(Data, 0, HashedFirst)} :
            LET matches == IF scan.count > 0 THEN {} ELSE WholeMatches(full, first)
                id == FileIds(got)[Min(matches)]
            IN IF matches = {} THEN UNCHANGED <<complete, found>>
               ELSE /\ complete' = [complete EXCEPT ![id] = scan.file]
                    /\ found' = [found EXCEPT ![id] =
                         [k \in DOMAIN @ |-> Location(scan.file, (k - 1) * BlockSize)]]
      BY <2>2 DEF EndScan
    <3> DEFINE matches == IF scan.count > 0 THEN {} ELSE WholeMatches(full, first)
               id == FileIds(got)[Min(matches)]
    <3>2. CASE matches = {}
      BY <1>4, <3>1, <3>2
    <3>3. CASE matches # {}
      <4>1. Min(matches) \in WholeMatches(full, first)
        <5>1. matches = WholeMatches(full, first)
          BY <3>3
        <5>2. WholeMatches(full, first) \subseteq DOMAIN FileIds(got)
          BY DEF WholeMatches
        <5>3. DOMAIN FileIds(got) \subseteq Nat
          <6>1. DOMAIN FileIds(got) = 1 .. Len(FileIds(got)) /\ Len(FileIds(got)) \in Nat
            BY <1>3, KnownIs
          <6> QED BY <6>1
        <5>4. matches \in SUBSET Nat
          BY <5>1, <5>2, <5>3
        <5> HIDE DEF matches
        <5> QED BY <3>3, <5>1, <5>4, MinIs
      <4>2. id \in Known(got) /\ (TrustedIn(got, id) => Data = DataOf(id))
        BY <1>1, <4>1, WholeMatchIs
      <4> DEFINE h == [k \in DOMAIN found[id] |-> Location(scan.file, (k - 1) * BlockSize)]
                 data == DescIn(got, id).data
      <4>3. complete' = [complete EXCEPT ![id] = scan.file] /\ found' = [found EXCEPT ![id] = h]
        BY <3>1, <3>3
      <4> HIDE DEF id, matches
      <4>4. CompleteRight(job.disk, got, complete')
        BY <1>2, <1>4, <1>5, <4>2, <4>3, PutComplete
      <4>5. found[id] \in [1 .. BlockCount(data) -> Places(job.disk)]
        BY <1>4, <4>2 DEF FoundRight
      <4>6. data \in Seq(Byte)
        BY <1>3, <4>2, DescInIs
      <4>7. \A k \in 1 .. BlockCount(data) :
              /\ h[k] \in Places(job.disk) /\ h[k].file = scan.file /\ h[k].at = (k - 1) * BlockSize
        <5> TAKE k \in 1 .. BlockCount(data)
        <5>1. h[k] = Location(scan.file, (k - 1) * BlockSize)
          BY <4>5
        <5>2. (k - 1) * BlockSize \in Nat
          BY <4>6, BlockStarts
        <5> HIDE DEF h
        <5> QED BY <1>2, <1>3, <5>1, <5>2, PlaceIs
      <4>8. h \in [1 .. BlockCount(data) -> Places(job.disk)]
        <5>1. DOMAIN h = 1 .. BlockCount(data) /\ h = [k \in DOMAIN h |-> h[k]]
          BY <4>5
        <5> HIDE DEF h
        <5> QED BY <4>7, <5>1
      <4>9. ASSUME TrustedIn(got, id), NEW k \in 1 .. BlockCount(data)
            PROVE  Seen(job.disk[h[k].file], h[k].at, BlockBytes(data, k))
        <5>1. job.disk[h[k].file] = data /\ h[k].at = (k - 1) * BlockSize
          BY <1>5, <4>2, <4>7, <4>9
        <5> HIDE DEF h
        <5> QED BY <4>6, <5>1, OwnInPlace
      <4> HIDE DEF h
      <4>10. FoundRight(job.disk, got, found')
        BY <1>4, <4>2, <4>3, <4>8, <4>9, PutFound
      <4> QED BY <4>4, <4>10
    <3> QED BY <3>2, <3>3
  <2> QED BY <2>1, <2>2
<1>7. Prepared(job, got, table, found', complete')
  BY <1>3, <1>6 DEF Prepared
<1>8. AnswerRight'
  <2>1. ~Verified'
    BY <1>1, <1>3 DEF Verified
  <2> QED BY <2>1 DEF AnswerRight
<1>9. scan.back \in {"sources", "extra"}
  BY <1>2 DEF ScanRight
<1>10. /\ stage' \in Stages \ {"load"} /\ stage' # "scan" /\ (stage' = "extra" => todo' \subseteq ToScan)
       /\ todo' \in SUBSET (Nat \X Nat) /\ IsFiniteSet(todo')
  BY <1>1, <1>2, <1>3, <1>9 DEF Stages
<1> QED BY <1>1, <1>2, <1>7, <1>8, <1>10, WorkKeeps

\* other files are taken one by one,
LEMMA NextExtraKeeps ==
  ASSUME IInv, NextExtra
  PROVE  IInv'
<1> DEFINE x == Least(todo)
           file == <<NameAt(x[1]), x[2] - 1>>
           skip == x[2] = 0 /\ complete[FileIds(got)[x[1]]] # NoFile
<1>1. /\ stage = "extra" /\ todo # {}
      /\ todo' = IF skip THEN {y \in todo : y[1] # x[1]} ELSE todo \ {x}
      /\ IF x[2] = 0 \/ IsUsed(file) THEN UNCHANGED <<stage, used, scan, failed>> ELSE Open(file, 0, "extra")
      /\ UNCHANGED <<job, main, got, table, found, complete, result, needed>>
  BY DEF NextExtra
<1>2. stage \in Working
  BY <1>1 DEF Working
<1>3. /\ job \in Jobs /\ got \in Gots(Packets(job)) /\ got.main \in MainPacket /\ Prepared(job, got, table, found, complete)
      /\ Len(table.entry) \in Nat /\ todo \in SUBSET (Nat \X Nat) /\ IsFiniteSet(todo) /\ ~Verified
      /\ todo \subseteq ToScan
  BY <1>1, <1>2, WorkingIs DEF IInv, TodoRight
<1>4. todo' \in SUBSET (Nat \X Nat) /\ IsFiniteSet(todo') /\ todo' \subseteq ToScan
  <2>1. todo' \subseteq todo
    BY <1>1
  <2>2. IsFiniteSet(todo')
    BY <1>3, <2>1, FS_Subset
  <2> QED BY <1>3, <2>1, <2>2
<1>5. x \in todo
  BY <1>1, <1>3, LeastIs
<1>6. stage' = stage \/ (stage' = "scan" /\ ScanRight' /\ scan'.back = "extra")
  <2>1. CASE x[2] = 0 \/ IsUsed(file)
    BY <1>1, <2>1
  <2>2. CASE ~(x[2] = 0 \/ IsUsed(file))
    <3>1. Open(file, 0, "extra")
      BY <1>1, <2>2
    <3>2. file \in DOMAIN job.disk
      <4>1. x \in ToScan /\ x[2] # 0
        BY <1>3, <1>5, <2>2
      <4> HIDE DEF x
      <4> QED BY <1>3, <4>1, ToScanIs
    <3> HIDE DEF file, skip, x
    <3> QED BY <1>1, <1>3, <3>1, <3>2, OpenIs
  <2> QED BY <2>1, <2>2
<1>7. stage' \in Stages \ {"load"} /\ (stage' = "scan" => ScanRight')
  BY <1>1, <1>6 DEF Stages
<1>8. AnswerRight'
  <2>1. ~Verified'
    BY <1>1, <1>3 DEF Verified
  <2> QED BY <2>1 DEF AnswerRight
<1>9. Prepared(job, got, table, found', complete') /\ UNCHANGED <<job, main, got, table>>
  BY <1>1, <1>3
<1> HIDE DEF file, skip, x
<1> QED BY <1>2, <1>4, <1>7, <1>8, <1>9, WorkKeeps

\* until all have been;
LEMMA EndExtraKeeps ==
  ASSUME IInv, EndExtra
  PROVE  IInv'
<1>1. /\ stage = "extra" /\ stage' = "result"
      /\ UNCHANGED <<job, main, todo, got, used, table, found, complete, scan, failed, result, needed>>
  BY DEF EndExtra
<1>2. stage \in Working
  BY <1>1 DEF Working
<1>3. /\ Prepared(job, got, table, found, complete)
      /\ todo \in SUBSET (Nat \X Nat) /\ IsFiniteSet(todo) /\ ~Verified
  BY <1>2, WorkingIs
<1>4. AnswerRight'
  <2>1. ~Verified'
    BY <1>1, <1>3 DEF Verified
  <2> QED BY <2>1 DEF AnswerRight
<1>5. /\ stage' \in Stages \ {"load"} /\ stage' # "extra" /\ stage' # "scan"
      /\ todo' \in SUBSET (Nat \X Nat) /\ IsFiniteSet(todo') /\ Prepared(job, got, table, found', complete')
  BY <1>1, <1>3 DEF Stages
<1> QED BY <1>1, <1>2, <1>4, <1>5, WorkKeeps

LEMMA SameAnswer ==
  ASSUME UNCHANGED <<got, found, complete>>
  PROVE  MissingBlocks' = MissingBlocks /\ (AllComplete' <=> AllComplete)
<1>1. Blocks' = Blocks /\ Completed' = Completed
  BY DEF Blocks, Completed, Target, Description
<1>2. Available' = Available
  BY <1>1 DEF Available, IsFound
<1> QED BY <1>1, <1>2 DEF MissingBlocks, SourceBlocks, AllComplete

\* what is missing is counted;
LEMMA DecideKeeps ==
  ASSUME IInv, Decide
  PROVE  IInv'
<1>1. /\ stage = "result" /\ stage' = "report"
      /\ UNCHANGED <<job, main, todo, got, used, table, found, complete, scan, failed, needed>>
      /\ result' = IF AllComplete THEN "eSuccess"
                   ELSE IF Cardinality(got.recovery) >= MissingBlocks THEN "eRepairPossible"
                   ELSE "eRepairNotPossible"
  BY DEF Decide
<1>2. stage \in Working
  BY <1>1 DEF Working
<1>3. /\ Prepared(job, got, table, found, complete)
      /\ todo \in SUBSET (Nat \X Nat) /\ IsFiniteSet(todo)
  BY <1>2, WorkingIs
<1>4. MissingBlocks' = MissingBlocks /\ (AllComplete' <=> AllComplete) /\ got' = got
  BY <1>1, SameAnswer
<1>5. /\ result' = "eSuccess" => AllComplete'
      /\ result' = "eRepairPossible" => Cardinality(got'.recovery) >= MissingBlocks'
  BY <1>1, <1>4
<1>6. AnswerRight'
  BY <1>1, <1>5 DEF AnswerRight
<1>7. /\ stage' \in Stages \ {"load"} /\ stage' # "extra" /\ stage' # "scan"
      /\ todo' \in SUBSET (Nat \X Nat) /\ IsFiniteSet(todo') /\ Prepared(job, got, table, found', complete')
  BY <1>1, <1>3 DEF Stages
<1> QED BY <1>1, <1>2, <1>6, <1>7, WorkKeeps

\* and nget goes on with the next par2 file.
LEMMA ReportKeeps ==
  ASSUME IInv, Report
  PROVE  IInv'
<1>1. /\ stage = "report" /\ UNCHANGED <<job, scan, result>>
      /\ IF Verified
         THEN /\ needed' = Expectation /\ stage' = "done"
              /\ UNCHANGED <<main, todo, got, used, table, found, complete, failed>>
         ELSE IF main < Len(job.pars) THEN Begin(main + 1) /\ UNCHANGED needed
         ELSE /\ needed' = 1 /\ stage' = "done"
              /\ UNCHANGED <<main, todo, got, used, table, found, complete, failed>>
  BY DEF Report, Expectation
<1>2. JobRight /\ TodoRight /\ got \in Gots(Packets(job)) /\ job \in Jobs /\ AnswerRight
  BY DEF IInv, JobRight
<1>3. Verified' <=> Verified
  BY <1>1 DEF Verified
<1>4. CASE stage' = "done" /\ UNCHANGED <<main, todo, got, used, table, found, complete, failed>>
           /\ (Verified => needed' = Expectation)
  <2>1. JobRight' /\ TodoRight' /\ (got \in Gots(Packets(job)))'
    BY <1>1, <1>2, <1>4 DEF JobRight, TodoRight
  <2>2. MissingBlocks' = MissingBlocks /\ (AllComplete' <=> AllComplete) /\ Expectation' = Expectation
    <3>1. MissingBlocks' = MissingBlocks /\ (AllComplete' <=> AllComplete)
      BY <1>4, SameAnswer
    <3> QED BY <1>1, <1>4, <3>1 DEF Expectation
  <2>3. AnswerRight'
    BY <1>1, <1>2, <1>3, <1>4, <2>2 DEF AnswerRight
  <2>4. /\ (Nothing(table, found, complete) \/ Prepared(job, got, table, found, complete))'
        /\ Verified' => (Prepared(job, got, table, found, complete) /\ AllKnown(got))'
    BY <1>1, <1>3, <1>4 DEF IInv
  <2> QED BY <1>4, <2>1, <2>3, <2>4 DEF IInv, Stages, Working
<1>5. CASE ~Verified /\ main < Len(job.pars) /\ Begin(main + 1)
  <2>1. /\ main' = main + 1 /\ stage' = "load" /\ todo' = ToLoad(main + 1) /\ got' = NoPackets
        /\ table' = EmptyTable /\ found' = <<>> /\ complete' = <<>>
    BY <1>5 DEF Begin
  <2>2. main + 1 \in 1 .. Len(job.pars) /\ DOMAIN job.pars = 1 .. Len(job.pars)
    <3>1. main \in 1 .. Len(job.pars) /\ Len(job.pars) \in Nat /\ DOMAIN job.pars = 1 .. Len(job.pars)
      BY <1>2, JobIs DEF JobRight
    <3> QED BY <1>5, <3>1
  <2>3. JobRight'
    BY <1>1, <1>2, <2>1, <2>2 DEF JobRight
  <2>4. /\ ToLoad(main + 1) \in SUBSET (Nat \X Nat) /\ IsFiniteSet(ToLoad(main + 1))
        /\ \A x \in ToLoad(main + 1) : x[2] \in DOMAIN job.pars
    BY <1>2, <2>2, ToLoadIs
  <2>5. TodoRight'
    BY <1>1, <2>1, <2>4 DEF TodoRight
  <2>6. (got \in Gots(Packets(job)))'
    BY <1>1, <1>2, <2>1, NothingHeld
  <2>7. Nothing(table, found, complete)'
    BY <2>1 DEF Nothing
  <2> QED BY <1>3, <1>5, <2>1, <2>3, <2>5, <2>6, <2>7 DEF IInv, AnswerRight, Stages, Working
<1> QED BY <1>1, <1>4, <1>5

\* What the window shows, what the table holds, what is recorded as found and what
\* has been answered fit each other and the files, in every reachable state of the
\* loop of par.cc around Par2Repairer::Process.
THEOREM Invariance == Spec => []IInv
<1>1. Init => IInv
  BY InitInv
<1>2. IInv /\ [Next]_vars => IInv'
  <2> SUFFICES ASSUME IInv, [Next]_vars PROVE IInv'
    OBVIOUS
  <2>1. CASE Load
    BY <2>1, LoadKeeps
  <2>2. CASE Prepare
    BY <2>2, PrepareKeeps
  <2>3. CASE VerifySource
    BY <2>3, VerifySourceKeeps
  <2>4. CASE EndSources
    BY <2>4, EndSourcesKeeps
  <2>5. CASE FindBlock
    BY <2>5, FindBlockKeeps
  <2>6. CASE SkipOn
    BY <2>6, SkipOnKeeps
  <2>7. CASE EndScan
    BY <2>7, EndScanKeeps
  <2>8. CASE NextExtra
    BY <2>8, NextExtraKeeps
  <2>9. CASE EndExtra
    BY <2>9, EndExtraKeeps
  <2>10. CASE Decide
    BY <2>10, DecideKeeps
  <2>11. CASE Report
    BY <2>11, ReportKeeps
  <2>12. CASE Done \/ UNCHANGED vars
    <3>1. UNCHANGED vars
      BY <2>12 DEF Done
    <3>2. /\ UNCHANGED <<job, main, stage, todo, got, used, table, found, complete, scan, failed, result, needed>>
      BY <3>1 DEF vars
    <3>3. ToScan' = ToScan /\ MissingBlocks' = MissingBlocks /\ (AllComplete' <=> AllComplete)
      BY <3>2, SameToScan, SameAnswer
    <3>4. JobRight' = JobRight /\ TodoRight' = TodoRight /\ (Verified' <=> Verified)
      BY <3>2, <3>3 DEF JobRight, TodoRight, Verified
    <3>5. ScanRight' = ScanRight
      BY <3>2 DEF ScanRight, Data, BlockVerifiable
    <3>6. AnswerRight' = AnswerRight
      BY <3>2, <3>3, <3>4 DEF AnswerRight, Expectation
    <3> QED BY <3>2, <3>4, <3>5, <3>6 DEF IInv
  <2> QED BY <2>1, <2>2, <2>3, <2>4, <2>5, <2>6, <2>7, <2>8, <2>9, <2>10, <2>11, <2>12 DEF Next
<1> QED BY <1>1, <1>2, PTL DEF Spec

\* The sliding window (FileCheckSummer) shows the bytes of the file from the offset
\* on, however often it has stepped, jumped and been refilled, and the hashes are of
\* what has been read.
THEOREM WindowFollowsAlways == Spec => []WindowFollows
<1>1. IInv => WindowFollows
  <2> SUFFICES ASSUME IInv, stage = "scan" PROVE /\ scan.c \in Checksummers
                                                 /\ WindowRight(scan.c, Data) /\ HashesRight(scan.c, Data)
    BY DEF WindowFollows
  <2>1. Data \in Seq(Byte) /\ CheckSummerInv(scan.c, Data)
    BY ScanningIs
  <2> QED BY <2>1, CheckSummerRight
<1> QED BY <1>1, Invariance, PTL

\* What was found is there.
LEMMA FoundOfInv ==
  ASSUME IInv
  PROVE  FoundIsThere
<1>1. CASE Nothing(table, found, complete)
  <2>1. DOMAIN found = {}
    BY <1>1 DEF Nothing
  <2> QED BY <2>1 DEF FoundIsThere
<1>2. CASE Prepared(job, got, table, found, complete)
  <2>1. FoundRight(job.disk, got, found) /\ CompleteRight(job.disk, got, complete)
    BY <1>2 DEF Prepared
  <2>2. found = [id \in Known(got) |-> found[id]]
    BY <2>1 DEF FoundRight
  <2>3. DOMAIN found = Known(got)
    BY <2>2
  <2>4. ASSUME NEW id \in Known(got), Trusted(id)
        PROVE  /\ \A k \in DOMAIN found[id] :
                    LET p == found[id][k]
                        own == BlockBytes(DataOf(id), k)
                    IN p # Nowhere => LET bytes == Bytes(job.disk[p.file], p.at, Len(own)) IN
                                        bytes # <<>> /\ bytes = SubSeq(own, 1, Len(bytes))
               /\ complete[id] # NoFile => job.disk[complete[id]] = DataOf(id)
    <3>1. TrustedIn(got, id) /\ DataOf(id) = DescIn(got, id).data
      BY <2>4 DEF Trusted, TrustedIn, Checked, DataOf, Description
    <3>2. complete[id] # NoFile => job.disk[complete[id]] = DataOf(id)
      BY <2>1, <3>1 DEF CompleteRight
    <3>3. DOMAIN found[id] = 1 .. BlockCount(DescIn(got, id).data)
      BY <2>1 DEF FoundRight
    <3>4. \A k \in 1 .. BlockCount(DescIn(got, id).data) :
            found[id][k] # Nowhere =>
              Seen(job.disk[found[id][k].file], found[id][k].at, BlockBytes(DescIn(got, id).data, k))
      BY <2>1, <3>1 DEF FoundRight
    <3> QED BY <3>1, <3>2, <3>3, <3>4 DEF Seen
  <2> QED BY <2>3, <2>4 DEF FoundIsThere
<1> QED BY <1>1, <1>2 DEF IInv

\* A block that ScanDataFile records as found is in the file, at the offset, that it
\* records, as much of it as the file has; and a file that counts as complete is.
THEOREM FoundIsThereAlways == Spec => []FoundIsThere
<1>1. IInv => FoundIsThere
  BY FoundOfInv
<1> QED BY <1>1, Invariance, PTL

-----------------------------------------------------------------------------
(* What is lost is missing, so that enough is asked for. *)

LEMMA SourcesAre ==
  ASSUME IInv, Prepared(job, got, table, found, complete)
  PROVE  /\ job \in Jobs /\ got \in Gots(Packets(job)) /\ got.main \in MainPacket
         /\ DOMAIN found = Known(got) /\ DOMAIN complete = Known(got) /\ IsFiniteSet(Known(got))
         /\ FoundRight(job.disk, got, found) /\ CompleteRight(job.disk, got, complete)
         /\ \A id \in Known(got) :
              /\ DataOf(id) \in Seq(Byte) /\ (Trusted(id) => TrustedIn(got, id)) /\ DataOf(id) = DescIn(got, id).data
              /\ Target(id) # NoFile
              /\ found[id] \in [1 .. BlockCount(DataOf(id)) -> Places(job.disk)]
              /\ DOMAIN found[id] = 1 .. BlockCount(DataOf(id)) /\ BlockCount(DataOf(id)) \in Nat
<1>1. job \in Jobs /\ got \in Gots(Packets(job)) /\ got.main \in MainPacket
      /\ FoundRight(job.disk, got, found) /\ CompleteRight(job.disk, got, complete)
  BY DEF IInv, JobRight, Prepared
<1>2. IsFiniteSet(Known(got))
  BY <1>1, KnownIs
<1>3. DOMAIN found = Known(got)
  <2>1. found = [id \in Known(got) |-> found[id]]
    BY <1>1 DEF FoundRight
  <2> QED BY <2>1
<1>4. DOMAIN complete = Known(got)
  BY <1>1 DEF CompleteRight
<1>5. ASSUME NEW id \in Known(got)
      PROVE  /\ DataOf(id) \in Seq(Byte) /\ (Trusted(id) => TrustedIn(got, id)) /\ DataOf(id) = DescIn(got, id).data
             /\ Target(id) # NoFile
             /\ found[id] \in [1 .. BlockCount(DataOf(id)) -> Places(job.disk)]
             /\ DOMAIN found[id] = 1 .. BlockCount(DataOf(id)) /\ BlockCount(DataOf(id)) \in Nat
  <2>1. DataOf(id) = DescIn(got, id).data /\ Target(id) = <<DescIn(got, id).name, 0>>
    BY DEF DataOf, Description, Target
  <2>2. DataOf(id) \in Seq(Byte) /\ DescIn(got, id).name \in Nat \ {0}
    BY <1>1, <2>1, DescInIs
  <2>3. Target(id) # NoFile
    BY <2>1, <2>2 DEF NoFile
  <2>4. Trusted(id) => TrustedIn(got, id)
    BY <2>1 DEF Trusted, TrustedIn, Checked
  <2>5. found[id] \in [1 .. BlockCount(DataOf(id)) -> Places(job.disk)]
    BY <1>1, <2>1 DEF FoundRight
  <2>6. BlockCount(DataOf(id)) \in Nat
    BY <2>2, BlockStarts
  <2> QED BY <2>1, <2>2, <2>3, <2>4, <2>5, <2>6
<1> QED BY <1>1, <1>2, <1>3, <1>4, <1>5

\* A block that was found, or whose file was, is not lost.
LEMMA NotLost ==
  ASSUME IInv, Prepared(job, got, table, found, complete), NEW id \in Known(got), Trusted(id),
         NEW k \in 1 .. BlockCount(DataOf(id)), complete[id] # NoFile \/ IsFound(<<id, k>>)
  PROVE  <<id, k>> \notin Lost
<1> DEFINE own == BlockBytes(DataOf(id), k)
           b == <<id, k>>
<1>1. /\ job \in Jobs /\ FoundRight(job.disk, got, found) /\ CompleteRight(job.disk, got, complete)
      /\ DataOf(id) \in Seq(Byte) /\ TrustedIn(got, id) /\ DataOf(id) = DescIn(got, id).data
      /\ found[id] \in [1 .. BlockCount(DataOf(id)) -> Places(job.disk)]
  BY SourcesAre
<1>2. own \in Seq(Byte) /\ Len(own) \in 1 .. BlockSize
  BY <1>1, BlockIs
<1>3. BlockSize \in Nat
  BY BlockSizeIs
<1> SUFFICES ASSUME b \in Lost PROVE FALSE
  OBVIOUS
<1>4. /\ \A f \in DOMAIN job.disk : \A at \in 0 .. Len(job.disk[f]) : Bytes(job.disk[f], at, Len(own)) # own
      /\ ~CutOff(b)
  BY DEF Lost
<1>5. CASE complete[id] # NoFile
  <2>1. complete[id] \in DOMAIN job.disk /\ job.disk[complete[id]] = DataOf(id)
    BY <1>1, <1>5 DEF CompleteRight
  <2>2. (k - 1) * BlockSize \in 0 .. Len(DataOf(id)) /\ Bytes(DataOf(id), (k - 1) * BlockSize, Len(own)) = own
    BY <1>1, OwnInPlace
  <2> QED BY <1>4, <2>1, <2>2
<1>6. CASE IsFound(b)
  <2> DEFINE p == found[id][k]
             data == job.disk[p.file]
             bytes == Bytes(data, p.at, Len(own))
  <2>1. p.file # NoFile /\ p \in Places(job.disk)
    BY <1>1, <1>6 DEF IsFound, IsSet
  <2>2. p.file \in DOMAIN job.disk /\ p.at \in Nat /\ p # Nowhere
    BY <2>1 DEF Places, Nowhere, Location
  <2>3. data \in Seq(Byte)
    BY <1>1, <2>2, JobIs
  <2>4. bytes = SubSeq(own, 1, Len(bytes))
    BY <1>1, <2>2 DEF FoundRight, Seen
  <2>5. ~(p.at + Len(own) > Len(data))
    BY <1>4, <2>2 DEF CutOff
  <2> HIDE DEF own, p, data
  <2>6. p.at \in Nat /\ Len(own) \in Nat /\ Len(data) \in Nat /\ p.at <= Len(data) /\ p.at + Len(own) <= Len(data)
    BY <1>2, <1>3, <2>2, <2>3, <2>5
  <2>7. /\ Len(bytes) \in Nat /\ Len(bytes) <= Len(own)
        /\ Len(bytes) = Len(own) \/ p.at + Len(bytes) = Len(data)
    BY <2>3, <2>6, BytesIs
  <2> HIDE DEF bytes
  <2>8. Len(bytes) = Len(own)
    BY <2>6, <2>7
  <2>9. bytes = own
    BY <1>2, <2>4, <2>8, AllOfIt
  <2>10. p.at \in 0 .. Len(data)
    BY <2>6
  <2> QED BY <1>4, <2>2, <2>9, <2>10 DEF bytes, data
<1> QED BY <1>5, <1>6

LEMMA BlocksAre ==
  ASSUME IInv, Prepared(job, got, table, found, complete)
  PROVE  /\ IsFiniteSet(Blocks)
         /\ \A b \in Blocks : \E id \in Known(got) : \E k \in 1 .. BlockCount(DataOf(id)) : b = <<id, k>>
<1> DEFINE F(id) == {id} \X DOMAIN found[id]
           D == Known(got)
           R == {F(id) : id \in D}
           h == [id \in D |-> F(id)]
<1>1. /\ DOMAIN found = D /\ IsFiniteSet(D)
      /\ \A id \in D : DOMAIN found[id] = 1 .. BlockCount(DataOf(id)) /\ BlockCount(DataOf(id)) \in Nat
  BY SourcesAre
<1>2. Blocks = UNION R
  BY <1>1 DEF Blocks
<1>3. h \in Surjection(D, R)
  BY DEF Surjection
<1>4. ASSUME NEW id \in D PROVE IsFiniteSet(F(id))
  <2> DEFINE S == 1 .. BlockCount(DataOf(id))
             T == {id}
  <2>1. 1 \in Int /\ BlockCount(DataOf(id)) \in Int
    BY <1>1
  <2>2. IsFiniteSet(S)
    BY <2>1, FS_Interval
  <2>3. IsFiniteSet(T)
    BY FS_Singleton
  <2>4. F(id) = T \X S
    BY <1>1
  <2> HIDE DEF S, T, F
  <2> QED BY <2>2, <2>3, <2>4, FS_Product
<1>5. IsFiniteSet(R)
  <2> HIDE DEF R, D, h
  <2> QED BY <1>1, <1>3, FS_Surjection
<1>6. IsFiniteSet(UNION R)
  <2>1. \A T \in R : IsFiniteSet(T)
    <3> HIDE DEF F, D
    <3> QED BY <1>4
  <2> HIDE DEF R
  <2> QED BY <1>5, <2>1, FS_UNION
<1>7. ASSUME NEW b \in Blocks PROVE \E id \in D : \E k \in 1 .. BlockCount(DataOf(id)) : b = <<id, k>>
  BY <1>1, <1>2
<1> QED BY <1>2, <1>6, <1>7

\* The blocks of which there is a copy.
Had == {b \in Blocks : complete[b[1]] # NoFile \/ IsFound(b)}

\* Everything that is lost is counted as missing.
LEMMA LostIsMissing ==
  ASSUME IInv, Prepared(job, got, table, found, complete), AllKnown(got),
         \A id \in DOMAIN found : Trusted(id)
  PROVE  /\ Cardinality(Lost) \in Nat /\ MissingBlocks \in Nat /\ Cardinality(Lost) <= MissingBlocks
         /\ AllComplete => Lost = {}
<1>1. /\ IsFiniteSet(Blocks)
      /\ \A b \in Blocks : \E id \in Known(got) : \E k \in 1 .. BlockCount(DataOf(id)) : b = <<id, k>>
  BY BlocksAre
<1>2. /\ DOMAIN found = Known(got) /\ DOMAIN complete = Known(got) /\ got \in Gots(Packets(job)) /\ got.main \in MainPacket
      /\ \A id \in Known(got) : Target(id) # NoFile
  BY SourcesAre
<1>3. Lost \subseteq Blocks /\ Had \subseteq Blocks
  BY DEF Lost, Had
<1>4. ASSUME NEW b \in Had PROVE b \notin Lost
  <2>1. b \in Blocks /\ (complete[b[1]] # NoFile \/ IsFound(b))
    BY DEF Had
  <2>2a. PICK id \in Known(got) : \E k \in 1 .. BlockCount(DataOf(id)) : b = <<id, k>>
    BY <1>1, <2>1
  <2>2. PICK k \in 1 .. BlockCount(DataOf(id)) : b = <<id, k>>
    BY <2>2a
  <2>3. Trusted(id) /\ (complete[id] # NoFile \/ IsFound(<<id, k>>))
    BY <1>2, <2>1, <2>2
  <2> QED BY <2>2, <2>3, NotLost
<1>5. Lost \subseteq Blocks \ Had
  BY <1>3, <1>4
<1>6. MissingBlocks = Cardinality(Blocks) - Cardinality(Had)
  BY DEF MissingBlocks, SourceBlocks, Available, Had
<1>7. IsFiniteSet(Blocks \ Had) /\ Cardinality(Blocks \ Had) = Cardinality(Blocks) - Cardinality(Had)
  <2>1. Blocks \cap Had = Had
    BY <1>3
  <2> QED BY <1>1, <2>1, FS_Difference
<1>8. Cardinality(Blocks \ Had) \in Nat
  BY <1>7, FS_CardinalityType
<1>9. IsFiniteSet(Lost) /\ Cardinality(Lost) <= Cardinality(Blocks \ Had)
  BY <1>5, <1>7, FS_Subset
<1>10. Cardinality(Lost) \in Nat
  BY <1>9, FS_CardinalityType
<1>11. ASSUME AllComplete PROVE Lost = {}
  <2> DEFINE R == Range(FileIds(got))
  <2>1. IsFiniteSet(R) /\ Cardinality(R) <= Len(FileIds(got)) /\ Cardinality(R) \in Nat /\ Len(FileIds(got)) \in Nat
    BY <1>2, KnownIs
  <2>2. Known(got) = R
    BY DEF AllKnown
  <2>3. Completed \subseteq R
    BY <1>2, <2>2 DEF Completed
  <2> HIDE DEF R
  <2>4. Cardinality(Completed) <= Cardinality(R) /\ IsFiniteSet(Completed)
    BY <2>1, <2>3, FS_Subset
  <2>5. Cardinality(Completed) \in Nat
    BY <2>4, FS_CardinalityType
  <2>6. Cardinality(R) = Cardinality(Completed)
    BY <1>11, <2>1, <2>4, <2>5 DEF AllComplete
  <2>7. Completed = R
    BY <2>1, <2>3, <2>6, FS_Subset
  <2>8. ASSUME NEW b \in Blocks PROVE b \in Had
    <3>1a. PICK id \in Known(got) : \E k \in 1 .. BlockCount(DataOf(id)) : b = <<id, k>>
      BY <1>1
    <3>1. PICK k \in 1 .. BlockCount(DataOf(id)) : b = <<id, k>>
      BY <3>1a
    <3>2. id \in Completed
      BY <2>2, <2>7
    <3>3. complete[id] = Target(id) /\ Target(id) # NoFile
      BY <1>2, <3>2 DEF Completed
    <3> QED BY <3>1, <3>3 DEF Had
  <2> QED BY <1>5, <2>8
<1> QED BY <1>6, <1>7, <1>8, <1>9, <1>10, <1>11

\* UpdateVerificationResults counts enough blocks as missing: with the recovery
\* packets that par.cc then asks for, all that is in no file can be repaired.
THEOREM EnoughAskedAlways == Spec => []EnoughAsked
<1>1. IInv => EnoughAsked
  <2> SUFFICES ASSUME IInv, stage = "done", Verified, \A id \in DOMAIN found : Trusted(id)
               PROVE  Cardinality(got.recovery) + needed >= Cardinality(Lost)
    BY DEF EnoughAsked
  <2>1. /\ Prepared(job, got, table, found, complete) /\ AllKnown(got) /\ AnswerRight /\ got \in Gots(Packets(job))
    BY DEF IInv
  <2>2. /\ Cardinality(Lost) \in Nat /\ MissingBlocks \in Nat /\ Cardinality(Lost) <= MissingBlocks
        /\ AllComplete => Lost = {}
    BY <2>1, LostIsMissing
  <2>3. /\ result = "eSuccess" => AllComplete
        /\ result = "eRepairPossible" => Cardinality(got.recovery) >= MissingBlocks
        /\ needed = Expectation
    BY <2>1 DEF AnswerRight
  <2>4. Cardinality(got.recovery) \in Nat
    BY <2>1, GotFields, FS_CardinalityType
  <2>5. CASE result = "eSuccess"
    <3>1. needed = 0 /\ Lost = {}
      BY <2>2, <2>3, <2>5 DEF Expectation
    <3>2. Cardinality(Lost) = 0
      BY <3>1, FS_EmptySet
    <3> QED BY <2>4, <3>1, <3>2
  <2>6. CASE result = "eRepairPossible"
    <3>1. needed = 0
      BY <2>3, <2>6 DEF Expectation
    <3> QED BY <2>2, <2>3, <2>4, <2>6, <3>1
  <2>7. CASE result = "eRepairNotPossible"
    <3>1. needed = MissingBlocks - Cardinality(got.recovery)
      BY <2>3, <2>7 DEF Expectation
    <3> QED BY <2>2, <2>4, <3>1
  <2> QED BY <2>5, <2>6, <2>7 DEF Verified
<1> QED BY <1>1, Invariance, PTL

-----------------------------------------------------------------------------
(* Every step brings the end nearer. *)

StageRank(s) == CHOOSE n \in 1 .. 6 : <<"load", "sources", "extra", "result", "report", "done">>[n] = s

StageNow == IF stage = "scan" THEN scan.back ELSE stage

LEMMA StageRanks ==
  /\ StageRank("load") = 1 /\ StageRank("sources") = 2 /\ StageRank("extra") = 3
  /\ StageRank("result") = 4 /\ StageRank("report") = 5 /\ StageRank("done") = 6
<1> DEFINE q == <<"load", "sources", "extra", "result", "report", "done">>
<1>1. /\ q[1] = "load" /\ q[2] = "sources" /\ q[3] = "extra" /\ q[4] = "result" /\ q[5] = "report" /\ q[6] = "done"
  OBVIOUS
<1>2. \A n \in 1 .. 6 : n = 1 \/ n = 2 \/ n = 3 \/ n = 4 \/ n = 5 \/ n = 6
  OBVIOUS
<1>3. 1 \in 1 .. 6 /\ 2 \in 1 .. 6 /\ 3 \in 1 .. 6 /\ 4 \in 1 .. 6 /\ 5 \in 1 .. 6 /\ 6 \in 1 .. 6
  OBVIOUS
<1>4. \A s : StageRank(s) = CHOOSE n \in 1 .. 6 : q[n] = s
  BY DEF StageRank
<1> HIDE DEF q
<1>5. ASSUME NEW m \in 1 .. 6, \A n \in 1 .. 6 : q[n] = q[m] => n = m PROVE StageRank(q[m]) = m
  BY <1>4, <1>5
<1>6. \A m, n \in 1 .. 6 : q[n] = q[m] => n = m
  BY <1>1, <1>2
<1> QED BY <1>1, <1>3, <1>5, <1>6

LEMMA RankIs == Rank = StageRank(StageNow) /\ Rank' = StageRank(StageNow')
BY DEF Rank, StageRank, StageNow

LEMMA Fewer ==
  ASSUME NEW S, IsFiniteSet(S), NEW T \in SUBSET S, NEW x \in S, x \notin T
  PROVE  Cardinality(T) < Cardinality(S)
<1>1. IsFiniteSet(T) /\ Cardinality(T) <= Cardinality(S) /\ (Cardinality(S) = Cardinality(T) => S = T)
  BY FS_Subset
<1>2. Cardinality(T) \in Nat /\ Cardinality(S) \in Nat
  BY <1>1, FS_CardinalityType
<1> QED BY <1>1, <1>2

LEMMA OpenGoes ==
  ASSUME NEW file, NEW id, NEW from, from # "scan", Open(file, id, from), stage = from
  PROVE  StageNow' = from
<1>1. CASE ~Reads(file)
  BY <1>1 DEF Open, StageNow
<1>2. CASE Reads(file)
  BY <1>2 DEF Open, StageNow, NoScan
<1> QED BY <1>1, <1>2

\* One file less.
LEMMA OneLess ==
  ASSUME IInv, todo # {}, todo' \subseteq todo, Least(todo) \notin todo', main' = main, StageNow' = StageNow
  PROVE  Nearer
<1>1. todo \in SUBSET (Nat \X Nat) /\ IsFiniteSet(todo)
  BY DEF IInv, TodoRight
<1>2. Least(todo) \in todo
  BY <1>1, LeastIs
<1>3. FilesLeft' < FilesLeft
  BY <1>1, <1>2, Fewer DEF FilesLeft
<1> QED BY <1>3, RankIs DEF Nearer

\* Some bytes less.
LEMMA SomeLess ==
  ASSUME IInv, stage = "scan", UNCHANGED <<job, main, todo>>, StageNow' = StageNow,
         \/ stage' = "scan" /\ scan'.file = scan.file /\ scan'.c.at \in Nat /\ scan'.c.at > scan.c.at
         \/ stage' # "scan"
  PROVE  Nearer
<1>1. scan.c.at \in Nat /\ Data \in Seq(Byte) /\ scan.c.at <= Len(Data)
  BY ScanningIs
<1>2. Len(Data) \in Nat /\ BytesLeft = 1 + Len(Data) - scan.c.at
  BY <1>1 DEF BytesLeft
<1>3. BytesLeft' < BytesLeft
  <2>1. CASE stage' # "scan"
    <3>1. BytesLeft' = 0
      BY <2>1 DEF BytesLeft
    <3> QED BY <1>1, <1>2, <3>1
  <2>2. CASE stage' = "scan"
    <3>1. Data' = Data
      BY <2>2 DEF Data
    <3>2. BytesLeft' = 1 + Len(Data) - scan'.c.at
      BY <2>2, <3>1 DEF BytesLeft
    <3> QED BY <1>1, <1>2, <2>2, <3>2
  <2> QED BY <2>1, <2>2
<1>4. FilesLeft' = FilesLeft
  BY DEF FilesLeft
<1> QED BY <1>3, <1>4, RankIs DEF Nearer

\* Step and Jump move the window on.
LEMMA WindowAdvances ==
  ASSUME IInv, FindBlock \/ SkipOn
  PROVE  Nearer
<1>1. stage = "scan" /\ stage' = "scan" /\ scan.c.at < Len(Data) /\ UNCHANGED <<job, main, todo>> /\ Scanning
  BY DEF FindBlock, SkipOn, Scanning
<1>2. ScanRight /\ Data \in Seq(Byte) /\ CheckSummerInv(scan.c, Data)
  BY <1>1, ScanningIs
<1>3. \A d \in 1 .. BlockSize :
        CheckSummerInv(Jump(scan.c, Data, d), Data) /\ Jump(scan.c, Data, d).at > scan.c.at
  BY <1>1, <1>2, JumpKeeps
<1>4. CheckSummerInv(Step(scan.c, Data), Data) /\ Step(scan.c, Data).at > scan.c.at
  <2>1. CheckSummerInv(Step(scan.c, Data), Data) /\ Step(scan.c, Data).at = scan.c.at + 1
    BY <1>1, <1>2, StepKeeps
  <2>2. scan.c.at \in Nat
    BY <1>2, Sizes
  <2> QED BY <2>1, <2>2
<1>5. /\ scan'.file = scan.file /\ scan'.back = scan.back
      /\ scan'.c = Step(scan.c, Data) \/ \E d \in 1 .. BlockSize : scan'.c = Jump(scan.c, Data, d)
  <2>1. CASE FindBlock
    <3> DEFINE e == table.entry[Match.entry]
               full == scan.full /\ (IF scan.count = 0 THEN e.num = 1 /\ scan.c.at = 0 ELSE Match.entry = scan.next)
               id == IF scan.count = 0 THEN e.file ELSE scan.id
    <3>1. Match.entry # 0 /\ scan' = [scan EXCEPT !.id = id, !.full = full, !.count = scan.count + 1,
                   !.next = NextEntry(table, Match.entry), !.c = Jump(scan.c, Data, e.length)]
      BY <2>1 DEF FindBlock
    <3>2. e.length \in 1 .. BlockSize
      BY <1>1, <3>1, MatchIs
    <3> HIDE DEF full, id, e
    <3>3. scan' = [file |-> scan.file, want |-> scan.want, id |-> id, c |-> Jump(scan.c, Data, e.length), full |-> full,
                   count |-> scan.count + 1, next |-> NextEntry(table, Match.entry), back |-> scan.back]
      BY <1>2, <3>1 DEF ScanRight
    <3> QED BY <3>2, <3>3
  <2>2. CASE SkipOn
    <3> DEFINE c == IF Match.duplicate THEN Jump(scan.c, Data, BlockSize) ELSE Step(scan.c, Data)
    <3>1. scan' = [scan EXCEPT !.full = FALSE, !.next = 0, !.c = c]
      BY <2>2 DEF SkipOn
    <3>2. c = Step(scan.c, Data) \/ c = Jump(scan.c, Data, BlockSize)
      OBVIOUS
    <3> HIDE DEF c
    <3>3. scan' = [file |-> scan.file, want |-> scan.want, id |-> scan.id, c |-> c, full |-> FALSE,
                   count |-> scan.count, next |-> 0, back |-> scan.back]
      BY <1>2, <3>1 DEF ScanRight
    <3>4. BlockSize \in 1 .. BlockSize
      BY BlockSizeIs
    <3> QED BY <3>2, <3>3, <3>4
  <2> QED BY <2>1, <2>2
<1>6. CheckSummerInv(scan'.c, Data) /\ scan'.c.at > scan.c.at
  BY <1>3, <1>4, <1>5
<1>7. scan'.c.at \in Nat
  BY <1>2, <1>6, Sizes
<1>8. StageNow' = StageNow
  BY <1>1, <1>5 DEF StageNow
<1> QED BY <1>1, <1>5, <1>6, <1>7, <1>8, SomeLess

\* Each step comes nearer.
LEMMA StepAdvances ==
  ASSUME IInv, Next
  PROVE  Nearer \/ UNCHANGED vars
<1>1. CASE Load
  <2>1. stage = "load" /\ stage' = "load" /\ todo # {} /\ todo' = todo \ {Least(todo)} /\ main' = main
    BY <1>1 DEF Load
  <2>2. StageNow' = StageNow
    BY <2>1 DEF StageNow
  <2> QED BY <2>1, <2>2, OneLess
<1>2. CASE Prepare
  <2>1. stage = "load" /\ stage' \in {"sources", "report"} /\ main' = main
    BY <1>2 DEF Prepare
  <2>2. StageNow = "load" /\ StageNow' \in {"sources", "report"}
    BY <2>1 DEF StageNow
  <2> QED BY <2>1, <2>2, RankIs, StageRanks DEF Nearer
<1>3. CASE VerifySource
  <2> DEFINE id == Least(todo)[2]
             file == Target(id)
  <2>1. stage = "sources" /\ todo # {} /\ todo' = todo \ {Least(todo)} /\ main' = main
    BY <1>3 DEF VerifySource
  <2>2. CASE IsUsed(file)
    <3>1. stage' = "report"
      BY <1>3, <2>2 DEF VerifySource
    <3>2. StageNow = "sources" /\ StageNow' = "report"
      BY <2>1, <3>1 DEF StageNow
    <3> QED BY <2>1, <3>2, RankIs, StageRanks DEF Nearer
  <2>3. CASE ~IsUsed(file)
    <3>1. Open(file, id, "sources") \/ stage' = stage
      BY <1>3, <2>3 DEF VerifySource
    <3> HIDE DEF file, id
    <3>2. StageNow' = "sources"
      <4>1. CASE Open(file, id, "sources")
        BY <2>1, <4>1, OpenGoes
      <4>2. CASE stage' = stage
        BY <2>1, <4>2 DEF StageNow
      <4> QED BY <3>1, <4>1, <4>2
    <3>3. StageNow = "sources"
      BY <2>1 DEF StageNow
    <3> QED BY <2>1, <3>2, <3>3, OneLess
  <2> QED BY <2>2, <2>3
<1>4. CASE EndSources
  <2>1. stage = "sources" /\ stage' \in {"report", "result", "extra"} /\ main' = main
    BY <1>4 DEF EndSources
  <2>2. StageNow = "sources" /\ StageNow' \in {"report", "result", "extra"}
    BY <2>1 DEF StageNow
  <2> QED BY <2>1, <2>2, RankIs, StageRanks DEF Nearer
<1>5. CASE FindBlock \/ SkipOn
  BY <1>5, WindowAdvances
<1>6. CASE EndScan
  <2>1. stage = "scan" /\ stage' = scan.back /\ UNCHANGED <<job, main, todo>>
    BY <1>6 DEF EndScan
  <2>2. scan.back \in {"sources", "extra"}
    BY <2>1, ScanningIs DEF ScanRight
  <2>3. StageNow' = StageNow /\ stage' # "scan"
    BY <2>1, <2>2 DEF StageNow
  <2> QED BY <2>1, <2>3, SomeLess
<1>7. CASE NextExtra
  <2> DEFINE x == Least(todo)
             file == <<NameAt(x[1]), x[2] - 1>>
             skip == x[2] = 0 /\ complete[FileIds(got)[x[1]]] # NoFile
  <2>1. /\ stage = "extra" /\ todo # {} /\ main' = main
        /\ todo' = IF skip THEN {y \in todo : y[1] # x[1]} ELSE todo \ {x}
        /\ stage' = stage \/ Open(file, 0, "extra")
    BY <1>7 DEF NextExtra
  <2>2. todo' \subseteq todo /\ x \notin todo'
    BY <2>1
  <2> HIDE DEF file, skip
  <2>3. StageNow' = "extra"
    <3>1. CASE Open(file, 0, "extra")
      BY <2>1, <3>1, OpenGoes
    <3>2. CASE stage' = stage
      BY <2>1, <3>2 DEF StageNow
    <3> QED BY <2>1, <3>1, <3>2
  <2>4. StageNow = "extra"
    BY <2>1 DEF StageNow
  <2> QED BY <2>1, <2>2, <2>3, <2>4, OneLess
<1>8. CASE EndExtra
  <2>1. stage = "extra" /\ stage' = "result" /\ main' = main
    BY <1>8 DEF EndExtra
  <2>2. StageNow = "extra" /\ StageNow' = "result"
    BY <2>1 DEF StageNow
  <2> QED BY <2>1, <2>2, RankIs, StageRanks DEF Nearer
<1>9. CASE Decide
  <2>1. stage = "result" /\ stage' = "report" /\ main' = main
    BY <1>9 DEF Decide
  <2>2. StageNow = "result" /\ StageNow' = "report"
    BY <2>1 DEF StageNow
  <2> QED BY <2>1, <2>2, RankIs, StageRanks DEF Nearer
<1>10. CASE Report
  <2>1. stage = "report" /\ (Begin(main + 1) \/ (stage' = "done" /\ main' = main))
    BY <1>10 DEF Report
  <2>2. CASE Begin(main + 1)
    <3>1. main \in Nat
      BY JobIs DEF IInv, JobRight
    <3>2. main' > main
      BY <2>2, <3>1 DEF Begin
    <3> QED BY <3>2 DEF Nearer
  <2>3. CASE stage' = "done" /\ main' = main
    <3>1. StageNow = "report" /\ StageNow' = "done"
      BY <2>1, <2>3 DEF StageNow
    <3> QED BY <2>3, <3>1, RankIs, StageRanks DEF Nearer
  <2> QED BY <2>1, <2>2, <2>3
<1>11. CASE Done
  BY <1>11 DEF Done
<1> QED BY <1>1, <1>2, <1>3, <1>4, <1>5, <1>6, <1>7, <1>8, <1>9, <1>10, <1>11 DEF Next

\* Par2Repairer::Process ends, whatever it finds: every step goes to a later stage,
\* leaves fewer files, or moves the window on.
THEOREM AdvancesAlways == Spec => Advances
<1>1. IInv /\ [Next]_vars => [Nearer]_vars
  BY StepAdvances
<1> QED BY <1>1, Invariance, PTL DEF Spec, Advances

-----------------------------------------------------------------------------
(* The search trees: every block has an entry, and an entry is found by its   *)
(* checksums.                                                                *)

\* Where a walk for checksums goes on from an entry, in Insert and in the searches.
Way(t, crc, hash, j) ==
  LET e == t.entry[j] IN
  IF Greater(crc, hash, e) THEN e.right ELSE IF Less(crc, hash, e) THEN e.left ELSE e.same

\* Such a walk does not leave K, and so an entry is on it when it is in all K.
Closed(t, crc, hash, K) ==
  /\ t.root[crc % Buckets] \in K \cup {0}
  /\ \A j \in K : Way(t, crc, hash, j) \in K \cup {0}

\* An entry can be come to,
Reached(t, i) ==
  \A K \in SUBSET (1 .. Len(t.entry)) : Closed(t, t.entry[i].crc, t.entry[i].hash, K) => i \in K

\* and all can.
Searchable(t) == \A i \in 1 .. Len(t.entry) : Reached(t, i)

\* One link of a walk.
LEMMA EndOfStep ==
  ASSUME NEW n, NEW link, Onward(n, link), NEW ends
  PROVE  /\ EndOf(link, ends, 0) = 0
         /\ \A i \in 1 .. n : EndOf(link, ends, i) = IF i \in ends THEN i ELSE EndOf(link, ends, link[i])
<1> DEFINE f == CHOOSE f : IsWalk(f, link, ends)
<1>1. \E g : IsWalk(g, link, ends)
  BY WalkExists
<1>2. IsWalk(f, link, ends)
  BY <1>1
<1>3. \A i : EndOf(link, ends, i) = f[i]
  BY DEF EndOf, IsWalk
<1> HIDE DEF f
<1>4. DOMAIN link = 1 .. n /\ n \in Nat /\ \A i \in 1 .. n : i # 0
  BY DEF Onward
<1>5. f[0] = 0 /\ \A i \in 1 .. n : f[i] = IF i \in ends THEN i ELSE f[link[i]]
  BY <1>2, <1>4 DEF IsWalk
<1> QED BY <1>3, <1>5

\* Pointers that are set stay as they are when an entry is inserted, and the new
\* entry is where a walk for its checksums had come to an end.
Grows(t, u, n) ==
  /\ Len(u.entry) = n + 1
  /\ \A i \in 1 .. n :
       /\ Core(u.entry[i]) = Core(t.entry[i]) /\ u.entry[i].crc = t.entry[i].crc
       /\ \A w \in {"left", "right", "same"} : t.entry[i][w] # 0 => u.entry[i][w] = t.entry[i][w]
  /\ \A b \in 0 .. Buckets - 1 : t.root[b] # 0 => u.root[b] = t.root[b]

\* A set that a walk does not leave afterwards it did not leave before.
LEMMA ClosedBefore ==
  ASSUME NEW n \in Nat, NEW t, NEW u, Grows(t, u, n), NEW crc \in Nat, NEW hash,
         NEW K \in SUBSET (1 .. n + 1), Closed(u, crc, hash, K),
         t.root[crc % Buckets] \in 0 .. n, \A j \in 1 .. n : Way(t, crc, hash, j) \in 0 .. n
  PROVE  Closed(t, crc, hash, K \cap (1 .. n))
<1> DEFINE J == K \cap (1 .. n)
<1>1. t.root[crc % Buckets] \in J \cup {0}
  <2>1. crc % Buckets \in 0 .. Buckets - 1
    BY RootFits
  <2>2. t.root[crc % Buckets] # 0 => t.root[crc % Buckets] = u.root[crc % Buckets]
    BY <2>1 DEF Grows
  <2>3. u.root[crc % Buckets] \in K \cup {0}
    BY DEF Closed
  <2>4. t.root[crc % Buckets] # 0 => t.root[crc % Buckets] \in 1 .. n
    OBVIOUS
  <2> QED BY <2>2, <2>3, <2>4
<1>2. ASSUME NEW j \in J PROVE Way(t, crc, hash, j) \in J \cup {0}
  <2> SUFFICES ASSUME Way(t, crc, hash, j) # 0 PROVE Way(t, crc, hash, j) \in J
    OBVIOUS
  <2>1. j \in 1 .. n /\ j \in K
    OBVIOUS
  <2>2. /\ u.entry[j].crc = t.entry[j].crc /\ u.entry[j].hash = t.entry[j].hash
        /\ t.entry[j].left # 0 => u.entry[j].left = t.entry[j].left
        /\ t.entry[j].right # 0 => u.entry[j].right = t.entry[j].right
        /\ t.entry[j].same # 0 => u.entry[j].same = t.entry[j].same
    <3>1. /\ t.entry[j]["left"] # 0 => u.entry[j]["left"] = t.entry[j]["left"]
          /\ t.entry[j]["right"] # 0 => u.entry[j]["right"] = t.entry[j]["right"]
          /\ t.entry[j]["same"] # 0 => u.entry[j]["same"] = t.entry[j]["same"]
      BY <2>1 DEF Grows
    <3>2. u.entry[j].hash = t.entry[j].hash /\ u.entry[j].crc = t.entry[j].crc
      BY <2>1 DEF Grows, Core
    <3> QED BY <3>1, <3>2
  <2>3. Greater(crc, hash, u.entry[j]) = Greater(crc, hash, t.entry[j])
        /\ Less(crc, hash, u.entry[j]) = Less(crc, hash, t.entry[j])
    BY <2>2 DEF Greater, Less
  <2>4. Way(u, crc, hash, j) = Way(t, crc, hash, j)
    BY <2>2, <2>3 DEF Way
  <2>5. Way(u, crc, hash, j) \in K \cup {0}
    BY <2>1 DEF Closed
  <2>6. Way(t, crc, hash, j) \in 1 .. n
    <3>1. Way(t, crc, hash, j) \in 0 .. n
      BY <2>1
    <3> HIDE DEF Way
    <3> QED BY <3>1
  <2> QED BY <2>4, <2>5, <2>6
<1> QED BY <1>1, <1>2 DEF Closed

\* What setting a pointer leaves alone.
LEMMA PointCore ==
  ASSUME NEW C, NEW e \in Entries(C), NEW way \in {"left", "right", "same"}, NEW m \in Nat
  PROVE  LET x == [e EXCEPT ![way] = m] IN
         /\ Core(x) = Core(e) /\ x.crc = e.crc /\ x[way] = m
         /\ \A w \in {"left", "right", "same"} \ {way} : x[w] = e[w]
<1>1. CASE way = "left"
  <2>1. [e EXCEPT !["left"] = m] = [e EXCEPT !.left = m]
    OBVIOUS
  <2> DEFINE x == [e EXCEPT !.left = m]
  <2>2. x.file = e.file /\ x.num = e.num /\ x.last = e.last /\ x.hash = e.hash /\ x.length = e.length
        /\ x.crc = e.crc /\ x.left = m /\ x.right = e.right /\ x.same = e.same
    BY DEF Entries
  <2>3. x["left"] = m /\ x["right"] = e["right"] /\ x["same"] = e["same"]
    BY <2>2
  <2> HIDE DEF x
  <2> QED BY <1>1, <2>1, <2>2, <2>3 DEF Core, x
<1>2. CASE way = "right"
  <2>1. [e EXCEPT !["right"] = m] = [e EXCEPT !.right = m]
    OBVIOUS
  <2> DEFINE x == [e EXCEPT !.right = m]
  <2>2. x.file = e.file /\ x.num = e.num /\ x.last = e.last /\ x.hash = e.hash /\ x.length = e.length
        /\ x.crc = e.crc /\ x.right = m /\ x.left = e.left /\ x.same = e.same
    BY DEF Entries
  <2>3. x["right"] = m /\ x["left"] = e["left"] /\ x["same"] = e["same"]
    BY <2>2
  <2> HIDE DEF x
  <2> QED BY <1>2, <2>1, <2>2, <2>3 DEF Core, x
<1>3. CASE way = "same"
  <2>1. [e EXCEPT !["same"] = m] = [e EXCEPT !.same = m]
    OBVIOUS
  <2> DEFINE x == [e EXCEPT !.same = m]
  <2>2. x.file = e.file /\ x.num = e.num /\ x.last = e.last /\ x.hash = e.hash /\ x.length = e.length
        /\ x.crc = e.crc /\ x.same = m /\ x.left = e.left /\ x.right = e.right
    BY DEF Entries
  <2>3. x["same"] = m /\ x["left"] = e["left"] /\ x["right"] = e["right"]
    BY <2>2
  <2> HIDE DEF x
  <2> QED BY <1>3, <2>1, <2>2, <2>3 DEF Core, x
<1> QED BY <1>1, <1>2, <1>3

\* Where the ways of a table lead.
LEMMA WaysOnward ==
  ASSUME NEW C, NEW n, NEW t, IsTable(t, C, n), NEW crc \in Nat, NEW hash
  PROVE  /\ Onward(n, [i \in DOMAIN t.entry |-> Way(t, crc, hash, i)])
         /\ t.root[crc % Buckets] \in 0 .. n /\ \A j \in 1 .. n : Way(t, crc, hash, j) \in 0 .. n
<1> DEFINE link == [i \in DOMAIN t.entry |-> Way(t, crc, hash, i)]
<1>1. Onward(n, link)
  <2>1. \A i \in DOMAIN t.entry : link[i] \in {t.entry[i].left, t.entry[i].right, t.entry[i].same}
    BY DEF Way
  <2>2. DOMAIN link = DOMAIN t.entry
    OBVIOUS
  <2> HIDE DEF link
  <2> QED BY <2>1, <2>2, LinksOnward
<1>2. t.root[crc % Buckets] \in 0 .. n
  <2>1. crc % Buckets \in 0 .. Buckets - 1
    BY RootFits
  <2> QED BY <2>1 DEF IsTable
<1>3. ASSUME NEW j \in 1 .. n PROVE Way(t, crc, hash, j) \in 0 .. n
  <2>1. link[j] = Way(t, crc, hash, j) /\ n \in Nat
    BY TableHas
  <2> HIDE DEF link
  <2>2. link[j] = 0 \/ link[j] \in 1 .. n
    BY <1>1 DEF Onward
  <2> QED BY <2>1, <2>2
<1> QED BY <1>1, <1>2, <1>3

\* VerificationHashEntry::Insert adds to the table, and what it adds is reached.
LEMMA InsertGrows ==
  ASSUME NEW C, NEW n, NEW t, IsTable(t, C, n),
         NEW e \in Entries(C), e.left = 0, e.right = 0, e.same = 0
  PROVE  LET u == Insert(t, e) IN
         /\ Grows(t, u, n)
         /\ \A K \in SUBSET (1 .. n + 1) : Closed(u, e.crc, e.hash, K) => n + 1 \in K
<1> DEFINE b == e.crc % Buckets
           way == [i \in DOMAIN t.entry |->
                    IF Greater(e.crc, e.hash, t.entry[i]) THEN "right"
                    ELSE IF Less(e.crc, e.hash, t.entry[i]) THEN "left" ELSE "same"]
           link == [i \in DOMAIN t.entry |-> t.entry[i][way[i]]]
           ends == {i \in DOMAIN t.entry : link[i] = 0}
           last == EndOf(link, ends, t.root[b])
           u == Insert(t, e)
<1>0. /\ n \in Nat /\ t.entry \in Seq(Entries(C)) /\ Len(t.entry) = n /\ DOMAIN t.entry = 1 .. n
      /\ t.root \in [0 .. Buckets - 1 -> 0 .. n]
  BY TableHas DEF IsTable
<1>1. b \in 0 .. Buckets - 1 /\ e.crc \in Nat /\ e.hash \in BlockData
  BY RootFits, EntryFields
<1>2. u = IF last = 0 THEN [entry |-> Append(t.entry, e), root |-> [t.root EXCEPT ![b] = Len(t.entry) + 1]]
          ELSE [t EXCEPT !.entry = Append([t.entry EXCEPT ![last][way[last]] = Len(t.entry) + 1], e)]
  BY DEF Insert
<1>3. \A i \in 1 .. n :
        /\ way[i] \in {"left", "right", "same"} /\ link[i] = t.entry[i][way[i]]
        /\ way[i] = IF Greater(e.crc, e.hash, t.entry[i]) THEN "right"
                    ELSE IF Less(e.crc, e.hash, t.entry[i]) THEN "left" ELSE "same"
  BY <1>0
<1>4. \A i \in 1 .. n : link[i] = Way(t, e.crc, e.hash, i)
  <2> SUFFICES ASSUME NEW i \in 1 .. n PROVE link[i] = Way(t, e.crc, e.hash, i)
    OBVIOUS
  <2>1. t.entry[i]["left"] = t.entry[i].left /\ t.entry[i]["right"] = t.entry[i].right
        /\ t.entry[i]["same"] = t.entry[i].same
    OBVIOUS
  <2> HIDE DEF way, link
  <2> QED BY <1>3, <2>1 DEF Way
<1>5. Onward(n, link)
  <2>1. link = [i \in DOMAIN t.entry |-> Way(t, e.crc, e.hash, i)]
    <3>1. link = [i \in DOMAIN t.entry |-> link[i]]
      OBVIOUS
    <3> HIDE DEF link
    <3> QED BY <1>0, <1>4, <3>1
  <2> HIDE DEF link
  <2> QED BY <1>1, <2>1, WaysOnward
<1> DEFINE r == t.root[b]
<1>6. r \in 0 .. n
  <2> HIDE DEF b
  <2> QED BY <1>0, <1>1
<1> HIDE DEF way, link, b, u
<1>7. ASSUME NEW K, \A j \in K : j \in (1 .. n) \ ends => link[j] \in K
      PROVE  last \in 0 .. n /\ (last # 0 => last \in ends) /\ (r \in K => last \in K)
  <2>1. last = EndOf(link, ends, r)
    OBVIOUS
  <2> HIDE DEF ends, r, last
  <2> QED BY <1>5, <1>6, <1>7, <2>1, EndOfIs
<1>8. last \in 0 .. n /\ (last # 0 => link[last] = 0) /\ (r # 0 => last # 0)
  <2>1. \A j \in 1 .. n : j \in (1 .. n) \ ends => link[j] \in 1 .. n
    <3>1. \A j \in 1 .. n : link[j] = 0 \/ link[j] \in 1 .. n
      BY <1>5 DEF Onward
    <3> QED BY <1>0, <3>1
  <2> HIDE DEF last, r
  <2>2. last \in 0 .. n /\ (last # 0 => last \in ends) /\ (r \in 1 .. n => last \in 1 .. n)
    BY <1>7, <2>1
  <2> QED BY <1>0, <1>6, <2>2
<1>9. r = 0 => last = 0
  <2>1. EndOf(link, ends, 0) = 0
    <3> HIDE DEF ends
    <3> QED BY <1>5, EndOfStep
  <2> QED BY <2>1
<1> HIDE DEF last
<1>10. Grows(t, u, n) /\ (last = 0 => u.root[b] = n + 1) /\ (last # 0 => Way(u, e.crc, e.hash, last) = n + 1)
  <2>1. CASE last = 0
    <3>1. u = [entry |-> Append(t.entry, e), root |-> [t.root EXCEPT ![b] = n + 1]]
      BY <1>0, <1>2, <2>1
    <3>2. Len(u.entry) = n + 1 /\ \A i \in 1 .. n : u.entry[i] = t.entry[i]
      BY <1>0, <3>1
    <3>3. \A d \in 0 .. Buckets - 1 : u.root[d] = IF d = b THEN n + 1 ELSE t.root[d]
      BY <1>0, <1>1, <3>1
    <3>4. t.root[b] = 0
      BY <1>8, <2>1 DEF r
    <3>5. Grows(t, u, n)
      BY <3>2, <3>3, <3>4 DEF Grows
    <3> QED BY <1>1, <2>1, <3>3, <3>5
  <2>2. CASE last # 0
    <3> DEFINE w == way[last]
               a == [t.entry EXCEPT ![last][w] = n + 1]
    <3>1. last \in 1 .. n /\ link[last] = 0
      BY <1>8, <2>2
    <3>2. u = [entry |-> Append(a, e), root |-> t.root]
      BY <1>0, <1>2, <2>2 DEF IsTable
    <3>3. /\ w \in {"left", "right", "same"} /\ t.entry[last][w] = 0
          /\ w = IF Greater(e.crc, e.hash, t.entry[last]) THEN "right"
                 ELSE IF Less(e.crc, e.hash, t.entry[last]) THEN "left" ELSE "same"
      BY <1>3, <3>1
    <3> HIDE DEF w
    <3>4. a = [t.entry EXCEPT ![last] = [t.entry[last] EXCEPT ![w] = n + 1]]
      BY <1>0, <3>1
    <3>5. t.entry[last] \in Entries(C) /\ n + 1 \in Nat
      BY <1>0, <3>1
    <3> DEFINE x == [t.entry[last] EXCEPT ![w] = n + 1]
    <3>6. /\ Core(x) = Core(t.entry[last]) /\ x.crc = t.entry[last].crc /\ x[w] = n + 1
          /\ \A v \in {"left", "right", "same"} \ {w} : x[v] = t.entry[last][v]
      BY <3>3, <3>5, PointCore
    <3>6a. x \in Entries(C)
      BY <3>3, <3>5, PointTo
    <3>7. a \in Seq(Entries(C)) /\ Len(a) = n /\ \A i \in 1 .. n : a[i] = IF i = last THEN x ELSE t.entry[i]
      <4> HIDE DEF x
      <4> QED BY <1>0, <3>1, <3>4, <3>6a DEF x
    <3> HIDE DEF a, x
    <3>8. Len(u.entry) = n + 1 /\ \A i \in 1 .. n : u.entry[i] = IF i = last THEN x ELSE t.entry[i]
      <4>1. u.entry = Append(a, e)
        BY <3>2
      <4>2. Len(Append(a, e)) = n + 1 /\ \A i \in 1 .. n : Append(a, e)[i] = a[i]
        BY <3>7
      <4> QED BY <3>7, <4>1, <4>2
    <3>9. ASSUME NEW i \in 1 .. n
          PROVE  /\ Core(u.entry[i]) = Core(t.entry[i]) /\ u.entry[i].crc = t.entry[i].crc
                 /\ \A v \in {"left", "right", "same"} : t.entry[i][v] # 0 => u.entry[i][v] = t.entry[i][v]
      <4>1. CASE i = last
        <5>1. u.entry[i] = x
          BY <3>8, <4>1
        <5> QED BY <3>3, <3>6, <4>1, <5>1
      <4>2. CASE i # last
        <5>1. u.entry[i] = t.entry[i]
          BY <3>8, <4>2
        <5> QED BY <5>1
      <4> QED BY <4>1, <4>2
    <3>10. Grows(t, u, n)
      <4>1. u.root = t.root
        BY <3>2
      <4> QED BY <3>8, <3>9, <4>1 DEF Grows
    <3>11. Way(u, e.crc, e.hash, last) = n + 1
      <4>1. u.entry[last] = x
        BY <3>1, <3>8
      <4>2. x.crc = t.entry[last].crc /\ x.hash = t.entry[last].hash
        BY <3>6 DEF Core
      <4>3. Greater(e.crc, e.hash, x) = Greater(e.crc, e.hash, t.entry[last])
            /\ Less(e.crc, e.hash, x) = Less(e.crc, e.hash, t.entry[last])
        BY <4>2 DEF Greater, Less
      <4>4. x.left = x["left"] /\ x.right = x["right"] /\ x.same = x["same"]
        OBVIOUS
      <4> QED BY <3>3, <3>6, <4>1, <4>3, <4>4 DEF Way
    <3> QED BY <2>2, <3>10, <3>11
  <2> QED BY <2>1, <2>2
<1>11. ASSUME NEW K \in SUBSET (1 .. n + 1), Closed(u, e.crc, e.hash, K) PROVE n + 1 \in K
  <2> DEFINE J == K \cap (1 .. n)
  <2>1. Closed(t, e.crc, e.hash, J)
    <3>1. t.root[e.crc % Buckets] \in 0 .. n /\ \A j \in 1 .. n : Way(t, e.crc, e.hash, j) \in 0 .. n
      BY <1>1, WaysOnward
    <3> QED BY <1>0, <1>1, <1>10, <1>11, <3>1, ClosedBefore
  <2>2. \A j \in J : j \in (1 .. n) \ ends => link[j] \in J
    <3> SUFFICES ASSUME NEW j \in J, j \in (1 .. n) \ ends PROVE link[j] \in J
      OBVIOUS
    <3>1. link[j] # 0 /\ link[j] = Way(t, e.crc, e.hash, j)
      BY <1>0, <1>4
    <3>2. Way(t, e.crc, e.hash, j) \in J \cup {0}
      BY <2>1 DEF Closed
    <3> QED BY <3>1, <3>2
  <2>3. r \in J => last \in J
    <3> HIDE DEF J, r, ends
    <3> QED BY <1>7, <2>2
  <2>4. CASE last = 0
    <3>1. u.root[b] = n + 1 /\ u.root[b] \in K \cup {0}
      BY <1>10, <1>11, <2>4 DEF Closed, b
    <3> QED BY <1>0, <3>1
  <2>5. CASE last # 0
    <3>1. r \in J \cup {0}
      BY <2>1 DEF Closed, b
    <3>2. last \in K
      BY <1>9, <2>3, <2>5, <3>1
    <3>3. n + 1 \in K \cup {0}
      BY <1>10, <1>11, <2>5, <3>2 DEF Closed
    <3> QED BY <1>0, <3>3
  <2> QED BY <2>4, <2>5
<1> HIDE DEF u
<1>12. e.crc \in Nat
  BY <1>1
<1> QED BY <1>10, <1>11 DEF u

\* Insert() loses sight of no entry, and the new one can be come to.
LEMMA InsertSearchable ==
  ASSUME NEW C, NEW n, NEW t, IsTable(t, C, n), Searchable(t),
         NEW e \in Entries(C), e.left = 0, e.right = 0, e.same = 0
  PROVE  Searchable(Insert(t, e))
<1> DEFINE u == Insert(t, e)
<1>1. /\ Grows(t, u, n)
      /\ \A K \in SUBSET (1 .. n + 1) : Closed(u, e.crc, e.hash, K) => n + 1 \in K
  BY InsertGrows
<1>2. u.entry[n + 1] = e
  BY InsertKeeps
<1>3. n \in Nat /\ Len(t.entry) = n /\ Len(u.entry) = n + 1
  BY <1>1, TableHas DEF Grows
<1> HIDE DEF u
<1>4. Reached(u, n + 1)
  BY <1>1, <1>2, <1>3 DEF Reached
<1>5. ASSUME NEW i \in 1 .. n PROVE Reached(u, i)
  <2> DEFINE crc == t.entry[i].crc
             hash == t.entry[i].hash
  <2>1. u.entry[i].crc = crc /\ u.entry[i].hash = hash
    BY <1>1 DEF Grows, Core
  <2>2. crc \in Nat
    BY TableHas, EntryFields
  <2>3. \A K \in SUBSET (1 .. n) : Closed(t, crc, hash, K) => i \in K
    BY <1>3 DEF Searchable, Reached
  <2>4. t.root[crc % Buckets] \in 0 .. n /\ \A j \in 1 .. n : Way(t, crc, hash, j) \in 0 .. n
    BY <2>2, WaysOnward
  <2> HIDE DEF crc, hash
  <2>5. ASSUME NEW K \in SUBSET (1 .. n + 1), Closed(u, crc, hash, K) PROVE i \in K
    <3>1. Closed(t, crc, hash, K \cap (1 .. n))
      BY <1>1, <1>3, <2>2, <2>4, <2>5, ClosedBefore
    <3> QED BY <2>3, <3>1
  <2> QED BY <1>3, <2>1, <2>5 DEF Reached
<1>6. \A i \in 1 .. n + 1 : i = n + 1 \/ i \in 1 .. n
  BY <1>3
<1> QED BY <1>3, <1>4, <1>5, <1>6 DEF Searchable, u

\* The three parts of a search: where the walks of SearchCrc, of SearchHash and along
\* the list go on is where an insertion of the same block would go on.
LEMMA WayByCrc ==
  ASSUME NEW C, NEW n, NEW t, IsTable(t, C, n), NEW crc \in Nat, NEW hash, NEW j \in 1 .. n, t.entry[j].crc # crc
  PROVE  Way(t, crc, hash, j) = IF t.entry[j].crc < crc THEN t.entry[j].right ELSE t.entry[j].left
<1>1. t.entry[j].crc \in Nat
  BY TableHas, EntryFields
<1> DEFINE e == t.entry[j]
<1>2. Greater(crc, hash, e) <=> e.crc < crc
  BY <1>1 DEF Greater
<1>3. ~(e.crc < crc) => Less(crc, hash, e)
  BY <1>1 DEF Less
<1> HIDE DEF e
<1> QED BY <1>2, <1>3 DEF Way, e

\* A walk goes on as for another block only when the two hashes are equal.
LEMMA SameWay ==
  ASSUME NEW C, NEW n, NEW t, IsTable(t, C, n), NEW i \in 1 .. n, NEW j \in 1 .. n
  PROVE  LET e == t.entry[j]
             crc == t.entry[i].crc
             hash == t.entry[i].hash
         IN e.hash = hash <=> ~Less(crc, hash, e) /\ ~Greater(crc, hash, e)
<1> DEFINE e == t.entry[j]
           crc == t.entry[i].crc
           hash == t.entry[i].hash
<1>1. e \in Entries(C) /\ t.entry[i] \in Entries(C)
  BY TableHas
<1>2. crc \in Nat /\ hash \in BlockData /\ crc = Crc(hash) /\ e.crc = Crc(e.hash) /\ Number(hash) \in Nat
  BY <1>1, EntryFields, NumberAssumption
<1> HIDE DEF e, crc, hash
<1>3. ~Less(crc, hash, e) /\ ~Greater(crc, hash, e) => e.hash = hash
  BY <1>1, <1>2, SameHash
<1>4. e.hash = hash => ~Less(crc, hash, e) /\ ~Greater(crc, hash, e)
  <2> SUFFICES ASSUME e.hash = hash PROVE ~Less(crc, hash, e) /\ ~Greater(crc, hash, e)
    OBVIOUS
  <2>1. e.crc = crc /\ Number(e.hash) = Number(hash)
    BY <1>2
  <2> QED BY <1>2, <2>1 DEF Less, Greater
<1> QED BY <1>3, <1>4 DEF e, crc, hash

\* Search() for a CRC comes to the first of the entries that have it, and the entry
\* is on the way from there.
LEMMA CrcFound ==
  ASSUME NEW C, NEW n, NEW t, IsTable(t, C, n), NEW i \in 1 .. n, Reached(t, i)
  PROVE  LET crc == t.entry[i].crc
             top == SearchCrc(t, crc)
         IN /\ top \in 1 .. n /\ t.entry[top].crc = crc
            /\ \A J \in SUBSET (1 .. n) :
                 /\ top \in J
                 /\ \A j \in J : Way(t, crc, t.entry[i].hash, j) \in J \cup {0}
                 => i \in J
<1> DEFINE crc == t.entry[i].crc
           hash == t.entry[i].hash
           top == SearchCrc(t, crc)
           link == [j \in DOMAIN t.entry |-> IF t.entry[j].crc < crc THEN t.entry[j].right ELSE t.entry[j].left]
           ends == {j \in DOMAIN t.entry : t.entry[j].crc = crc}
           At(j) == EndOf(link, ends, j)
           root == t.root[crc % Buckets]
<1>1. n \in Nat /\ DOMAIN t.entry = 1 .. n /\ Len(t.entry) = n /\ crc \in Nat
  BY TableHas, EntryFields
<1>2. Onward(n, link)
  BY LinksOnward
<1>3. top = At(root)
  BY DEF SearchCrc
<1>4. \A j \in 1 .. n : j \notin ends => link[j] = Way(t, crc, hash, j)
  <2> SUFFICES ASSUME NEW j \in 1 .. n, j \notin ends PROVE link[j] = Way(t, crc, hash, j)
    OBVIOUS
  <2>1. t.entry[j].crc # crc
    BY <1>1
  <2>2. link[j] = IF t.entry[j].crc < crc THEN t.entry[j].right ELSE t.entry[j].left
    BY <1>1
  <2> HIDE DEF crc, hash, link
  <2> QED BY <1>1, <2>1, <2>2, WayByCrc
<1>5. i \in ends
  BY <1>1
<1>6. top \in 0 .. n /\ (top # 0 => t.entry[top].crc = crc)
  <2> HIDE DEF crc
  <2> QED BY <1>1, SearchCrcIs
<1>7. root \in 0 .. n /\ \A j \in 1 .. n : Way(t, crc, hash, j) \in 0 .. n
  <2> HIDE DEF crc
  <2> QED BY <1>1, WaysOnward
<1>8. \A K \in SUBSET (1 .. n) : Closed(t, crc, hash, K) => i \in K
  BY <1>1 DEF Reached
<1> HIDE DEF link, ends, crc, hash, root, top
<1>9. At(0) = 0 /\ \A j \in 1 .. n : At(j) = IF j \in ends THEN j ELSE At(link[j])
  BY <1>2, EndOfStep
<1>10. \A j \in 1 .. n : j \notin ends => At(j) = At(Way(t, crc, hash, j))
  BY <1>4, <1>9
<1> HIDE DEF At
<1>11. top # 0
  <2> SUFFICES ASSUME top = 0 PROVE FALSE
    OBVIOUS
  <2> DEFINE K == {j \in 1 .. n : At(j) = 0}
  <2>1. root \in K \cup {0}
    BY <1>1, <1>3, <1>7
  <2>2. ASSUME NEW j \in K PROVE Way(t, crc, hash, j) \in K \cup {0}
    <3>1. j \in 1 .. n /\ j # 0 /\ j \notin ends
      BY <1>1, <1>9
    <3>2. At(Way(t, crc, hash, j)) = 0 /\ Way(t, crc, hash, j) \in 0 .. n
      BY <1>7, <1>10, <3>1
    <3> QED BY <1>1, <3>2
  <2>3. Closed(t, crc, hash, K)
    BY <2>1, <2>2 DEF Closed, root
  <2>4. i \in K
    BY <1>8, <2>3
  <2> QED BY <1>1, <1>5, <1>9, <2>4
<1>12. top \in 1 .. n
  BY <1>1, <1>6, <1>11
<1>13. ASSUME NEW J \in SUBSET (1 .. n), top \in J,
              \A j \in J : Way(t, crc, hash, j) \in J \cup {0}
       PROVE  i \in J
  <2> DEFINE A == {j \in 1 .. n : j \notin ends /\ At(j) = top}
             K == A \cup J
  <2>1. \A j \in 0 .. n : At(j) = top => j \in K
    <3> SUFFICES ASSUME NEW j \in 0 .. n, At(j) = top PROVE j \in K
      OBVIOUS
    <3>1. j # 0
      BY <1>1, <1>9, <1>11
    <3>2. j \in 1 .. n
      BY <1>1, <3>1
    <3>3. j \in ends => j = top
      BY <1>9, <3>2
    <3> QED BY <1>13, <3>2, <3>3
  <2>2. root \in K
    BY <1>3, <1>7, <2>1
  <2>3. ASSUME NEW j \in K PROVE Way(t, crc, hash, j) \in K \cup {0}
    <3>1. CASE j \in A
      <4>1. At(Way(t, crc, hash, j)) = top /\ Way(t, crc, hash, j) \in 0 .. n
        BY <1>7, <1>10, <3>1
      <4> HIDE DEF K
      <4> QED BY <2>1, <4>1
    <3>2. CASE j \in J
      BY <1>13, <3>2
    <3> QED BY <3>1, <3>2
  <2>4. Closed(t, crc, hash, K)
    BY <2>2, <2>3 DEF Closed, root
  <2>5. K \in SUBSET (1 .. n)
    OBVIOUS
  <2>6. i \in K
    <3> HIDE DEF K
    <3> QED BY <1>8, <2>4, <2>5
  <2> QED BY <1>5, <2>6
<1> QED BY <1>6, <1>12, <1>13 DEF crc, hash, top

\* Search() for a hash among those comes to the first of the entries that have it.
LEMMA HashFound ==
  ASSUME NEW C, NEW n, NEW t, IsTable(t, C, n), NEW i \in 1 .. n, Reached(t, i)
  PROVE  LET crc == t.entry[i].crc
             hash == t.entry[i].hash
             list == SearchHash(t, SearchCrc(t, crc), hash)
         IN /\ list \in 1 .. n /\ t.entry[list].hash = hash
            /\ \A J \in SUBSET (1 .. n) :
                 /\ list \in J
                 /\ \A j \in J : t.entry[j].hash = hash /\ t.entry[j].same \in J \cup {0}
                 => i \in J
<1> DEFINE crc == t.entry[i].crc
           hash == t.entry[i].hash
           top == SearchCrc(t, crc)
           list == SearchHash(t, top, hash)
           right == {j \in DOMAIN t.entry : Greater(t.entry[top].crc, hash, t.entry[j])}
           left == {j \in DOMAIN t.entry : Less(t.entry[top].crc, hash, t.entry[j])}
           link2 == [j \in DOMAIN t.entry |-> IF j \in right THEN t.entry[j].right ELSE t.entry[j].left]
           ends2 == (DOMAIN t.entry) \ (left \cup right)
           At2(j) == EndOf(link2, ends2, j)
<1>1. n \in Nat /\ DOMAIN t.entry = 1 .. n /\ Len(t.entry) = n /\ crc \in Nat /\ hash \in BlockData
  BY TableHas, EntryFields
<1>2. /\ top \in 1 .. n /\ t.entry[top].crc = crc
      /\ \A J \in SUBSET (1 .. n) :
           /\ top \in J
           /\ \A j \in J : Way(t, crc, hash, j) \in J \cup {0}
           => i \in J
  BY CrcFound
<1>4. Onward(n, link2)
  <2>1. \A j \in DOMAIN t.entry : link2[j] \in {t.entry[j].left, t.entry[j].right, t.entry[j].same}
    OBVIOUS
  <2>2. DOMAIN link2 = DOMAIN t.entry
    OBVIOUS
  <2> HIDE DEF link2
  <2> QED BY <2>1, <2>2, LinksOnward
<1>5. list = At2(top)
  BY DEF SearchHash
<1>6. list \in 0 .. n /\ (list # 0 => t.entry[list].hash = hash)
  <2> HIDE DEF hash, top
  <2> QED BY <1>1, <1>2, SearchHashIs
<1>7. \A j \in 1 .. n : /\ j \in ends2 <=> t.entry[j].hash = hash
                        /\ j \notin ends2 => link2[j] = Way(t, crc, hash, j)
                        /\ j \in ends2 => Way(t, crc, hash, j) = t.entry[j].same
  <2> SUFFICES ASSUME NEW j \in 1 .. n
               PROVE  /\ j \in ends2 <=> t.entry[j].hash = hash
                      /\ j \notin ends2 => link2[j] = Way(t, crc, hash, j)
                      /\ j \in ends2 => Way(t, crc, hash, j) = t.entry[j].same
    OBVIOUS
  <2>1. /\ j \in right <=> Greater(crc, hash, t.entry[j])
        /\ j \in left <=> Less(crc, hash, t.entry[j])
    BY <1>1, <1>2
  <2>2. t.entry[j].hash = hash <=> ~Less(crc, hash, t.entry[j]) /\ ~Greater(crc, hash, t.entry[j])
    BY SameWay
  <2>3. link2[j] = IF j \in right THEN t.entry[j].right ELSE t.entry[j].left
    BY <1>1
  <2>4. j \in ends2 <=> j \notin left /\ j \notin right
    BY <1>1
  <2> HIDE DEF left, right, link2, ends2, crc, hash
  <2> QED BY <2>1, <2>2, <2>3, <2>4 DEF Way
<1>8. \A j \in 1 .. n : Way(t, crc, hash, j) \in 0 .. n
  <2> HIDE DEF crc
  <2> QED BY <1>1, WaysOnward
<1>10. t.entry[i].hash = hash
  OBVIOUS
<1> HIDE DEF left, right, link2, ends2, crc, hash, top, list
<1>11. At2(0) = 0 /\ \A j \in 1 .. n : At2(j) = IF j \in ends2 THEN j ELSE At2(link2[j])
  BY <1>4, EndOfStep
<1>12. \A j \in 1 .. n : j \notin ends2 => At2(j) = At2(Way(t, crc, hash, j))
  BY <1>7, <1>11
<1> HIDE DEF At2
<1>13. ASSUME NEW B \in SUBSET (1 .. n),
              top \in ends2 => top \in B,
              \A j \in 1 .. n : j \notin ends2 /\ At2(j) = list => j \in B,
              \A j \in B : Way(t, crc, hash, j) \in B \cup {0}
       PROVE  i \in B
  <2>1. top \in B
    BY <1>2, <1>5, <1>13
  <2> QED BY <1>2, <1>13, <2>1
<1>14. i \in ends2
  BY <1>7, <1>10
<1>15. list # 0
  <2> SUFFICES ASSUME list = 0 PROVE FALSE
    OBVIOUS
  <2> DEFINE B == {j \in 1 .. n : At2(j) = 0}
  <2>1. top \in B
    BY <1>2, <1>5
  <2>2. ASSUME NEW j \in B PROVE Way(t, crc, hash, j) \in B \cup {0}
    <3>1. j \in 1 .. n /\ j # 0 /\ j \notin ends2
      BY <1>1, <1>11
    <3>2. At2(Way(t, crc, hash, j)) = 0 /\ Way(t, crc, hash, j) \in 0 .. n
      BY <1>8, <1>12, <3>1
    <3> QED BY <1>1, <3>2
  <2>3. i \in B
    BY <1>13, <2>1, <2>2
  <2> QED BY <1>1, <1>11, <1>14, <2>3
<1>16. list \in 1 .. n
  BY <1>1, <1>6, <1>15
<1>17. ASSUME NEW J \in SUBSET (1 .. n), list \in J,
              \A j \in J : t.entry[j].hash = hash /\ t.entry[j].same \in J \cup {0}
       PROVE  i \in J
  <2> DEFINE A == {j \in 1 .. n : j \notin ends2 /\ At2(j) = list}
             B == A \cup J
  <2>1. top \in ends2 => top \in B
    <3>1. top \in ends2 => At2(top) = top
      BY <1>2, <1>11
    <3> QED BY <1>5, <1>17, <3>1
  <2>2. \A j \in 1 .. n : j \notin ends2 /\ At2(j) = list => j \in B
    OBVIOUS
  <2>3. ASSUME NEW j \in B PROVE Way(t, crc, hash, j) \in B \cup {0}
    <3>1. CASE j \in A
      <4> DEFINE w == Way(t, crc, hash, j)
      <4>1. At2(w) = list /\ w \in 0 .. n
        BY <1>8, <1>12, <3>1
      <4> HIDE DEF w
      <4>2. CASE w = 0
        BY <4>2 DEF w
      <4>3. CASE w # 0
        <5>1. w \in 1 .. n
          BY <1>1, <4>1, <4>3
        <5>2. w \in ends2 => w = list
          BY <1>11, <4>1, <5>1
        <5>3. w \in B
          BY <1>17, <4>1, <5>1, <5>2
        <5> QED BY <5>3 DEF w
      <4> QED BY <4>2, <4>3
    <3>2. CASE j \in J
      <4>1. Way(t, crc, hash, j) = t.entry[j].same
        BY <1>7, <1>17, <3>2
      <4> QED BY <1>17, <3>2, <4>1
    <3> QED BY <3>1, <3>2
  <2>4. B \in SUBSET (1 .. n)
    OBVIOUS
  <2>5. i \in B
    <3> HIDE DEF B
    <3> QED BY <1>13, <2>1, <2>2, <2>3, <2>4
  <2> QED BY <1>14, <2>5
<1> QED BY <1>6, <1>15, <1>16, <1>17 DEF list, top, crc, hash

\* An entry in S is found by its checksums, or one in S before it with the same.
LEMMA SearchFinds ==
  ASSUME NEW C, NEW n, NEW t, IsTable(t, C, n), NEW i \in 1 .. n, Reached(t, i)
  PROVE  LET list == SearchHash(t, SearchCrc(t, t.entry[i].crc), t.entry[i].hash) IN
         /\ list \in 1 .. n /\ t.entry[list].hash = t.entry[i].hash
         /\ \A S : i \in S =>
              LET r == FirstOf(t, list, S) IN
              r \in 1 .. n /\ r \in S /\ t.entry[r].hash = t.entry[i].hash /\ r <= i
         /\ t.entry[list].same = 0 => list = i
<1> DEFINE hash == t.entry[i].hash
           list == SearchHash(t, SearchCrc(t, t.entry[i].crc), hash)
           link == [j \in DOMAIN t.entry |-> t.entry[j].same]
<1>1. n \in Nat /\ DOMAIN t.entry = 1 .. n
  BY TableHas
<1>2. /\ list \in 1 .. n /\ t.entry[list].hash = hash
      /\ \A J \in SUBSET (1 .. n) :
           /\ list \in J
           /\ \A j \in J : t.entry[j].hash = hash /\ t.entry[j].same \in J \cup {0}
           => i \in J
  BY HashFound
<1>3. Onward(n, link) /\ \A j \in 1 .. n : link[j] = t.entry[j].same
  BY <1>1, LinksOnward
<1>4. \A j \in 1 .. n : t.entry[j].hash = hash /\ t.entry[j].same # 0 =>
        t.entry[j].same \in 1 .. n /\ j < t.entry[j].same /\ t.entry[t.entry[j].same].hash = hash
  <2> SUFFICES ASSUME NEW j \in 1 .. n, t.entry[j].hash = hash, t.entry[j].same # 0
               PROVE  t.entry[j].same \in 1 .. n /\ j < t.entry[j].same /\ t.entry[t.entry[j].same].hash = hash
    OBVIOUS
  <2>1. Linked(t.entry, j, n)
    BY TableHas
  <2> HIDE DEF hash
  <2> QED BY <1>1, <2>1 DEF Linked, Down
<1> HIDE DEF list, hash, link
<1>5. ASSUME NEW S, i \in S
      PROVE  LET r == FirstOf(t, list, S) IN r \in 1 .. n /\ r \in S /\ t.entry[r].hash = hash /\ r <= i
  <2> DEFINE At(j) == EndOf(link, S, j)
             r == At(list)
             J == {j \in 1 .. n : t.entry[j].hash = hash /\ ((j \notin S /\ At(j) = r) \/ (r # 0 /\ r <= j))}
  <2>1. FirstOf(t, list, S) = r
    BY DEF FirstOf, link
  <2>2. At(0) = 0 /\ \A j \in 1 .. n : At(j) = IF j \in S THEN j ELSE At(t.entry[j].same)
    BY <1>3, EndOfStep
  <2>3. r \in 0 .. n /\ (r # 0 => r \in S /\ t.entry[r].hash = hash)
    <3> HIDE DEF r
    <3> QED BY <1>2, <2>1, FirstOfIs
  <2> HIDE DEF At
  <2>4. \A j \in 1 .. n : t.entry[j].hash = hash /\ At(j) = r => j \in J
    <3> SUFFICES ASSUME NEW j \in 1 .. n, t.entry[j].hash = hash, At(j) = r PROVE j \in J
      OBVIOUS
    <3>1. j \in S => r = j
      BY <2>2
    <3> HIDE DEF r
    <3>2. j \in S => r # 0 /\ r <= j
      BY <1>1, <3>1
    <3> QED BY <3>2
  <2>5. list \in J
    BY <1>2, <2>4
  <2>6. ASSUME NEW j \in J PROVE t.entry[j].hash = hash /\ t.entry[j].same \in J \cup {0}
    <3> DEFINE s == t.entry[j].same
    <3>1. t.entry[j].hash = hash /\ j \in 1 .. n
      OBVIOUS
    <3> SUFFICES ASSUME s # 0 PROVE s \in J
      BY <3>1
    <3>2. s \in 1 .. n /\ j < s /\ t.entry[s].hash = hash
      BY <1>4, <3>1
    <3>3. CASE j \notin S /\ At(j) = r
      <4>1. At(s) = r
        BY <2>2, <3>1, <3>3
      <4> HIDE DEF J
      <4> QED BY <2>4, <3>2, <4>1
    <3>4. CASE r # 0 /\ r <= j
      <4> HIDE DEF r, s
      <4>1. r <= s
        BY <1>1, <2>3, <3>1, <3>2, <3>4
      <4> QED BY <3>2, <3>4, <4>1
    <3> QED BY <3>3, <3>4
  <2>7. J \in SUBSET (1 .. n)
    OBVIOUS
  <2>8. i \in J
    <3> HIDE DEF J
    <3> QED BY <1>2, <2>5, <2>6, <2>7
  <2>9. r # 0 /\ r <= i
    BY <1>5, <2>8
  <2> HIDE DEF r
  <2>10. r \in 1 .. n
    BY <1>1, <2>3, <2>9
  <2> QED BY <2>1, <2>3, <2>9, <2>10
<1>6. ASSUME t.entry[list].same = 0 PROVE list = i
  <2>1. \A j \in {list} : t.entry[j].hash = hash /\ t.entry[j].same \in {list} \cup {0}
    BY <1>2, <1>6
  <2>2. {list} \in SUBSET (1 .. n) /\ list \in {list}
    BY <1>2
  <2>3. i \in {list}
    BY <1>2, <2>1, <2>2
  <2> QED BY <2>3
<1> QED BY <1>2, <1>5, <1>6 DEF list, hash

\* So the table is as it should be.
LEMMA TableIsRight ==
  ASSUME NEW C, NEW n, NEW t, IsTable(t, C, n), Searchable(t)
  PROVE  TableRight(t)
<1>1. n \in Nat /\ DOMAIN t.entry = 1 .. n /\ Len(t.entry) = n
  BY TableHas
<1> SUFFICES ASSUME NEW i \in 1 .. n, NEW j \in 1 .. n
             PROVE  LET e == t.entry[i]
                        list == SearchHash(t, SearchCrc(t, e.crc), e.hash)
                    IN FirstOf(t, list, {i, j}) = IF t.entry[j].hash = e.hash /\ j < i THEN j ELSE i
  BY <1>1 DEF TableRight
<1> DEFINE list == SearchHash(t, SearchCrc(t, t.entry[i].crc), t.entry[i].hash)
           other == SearchHash(t, SearchCrc(t, t.entry[j].crc), t.entry[j].hash)
           r == FirstOf(t, list, {i, j})
<1>2. Reached(t, i) /\ Reached(t, j)
  BY <1>1 DEF Searchable
<1>3. r \in {i, j} /\ t.entry[r].hash = t.entry[i].hash /\ r <= i
  BY <1>2, SearchFinds
<1>4. t.entry[j].hash = t.entry[i].hash => r <= j
  <2> SUFFICES ASSUME t.entry[j].hash = t.entry[i].hash PROVE r <= j
    OBVIOUS
  <2>1. t.entry[i] \in Entries(C) /\ t.entry[j] \in Entries(C)
    BY TableHas
  <2>2. t.entry[i].crc = t.entry[j].crc
    BY <2>1, EntryFields
  <2>3. FirstOf(t, other, {i, j}) <= j
    BY <1>2, SearchFinds
  <2> QED BY <2>2, <2>3
<1> HIDE DEF r, list, other
<1>5. r = IF t.entry[j].hash = t.entry[i].hash /\ j < i THEN j ELSE i
  BY <1>1, <1>3, <1>4
<1> QED BY <1>5 DEF r, list

\* What a file adds to the table: its blocks in their order, and all is found.
Adds(t, u, m, k, hashes, file, size) ==
  /\ Searchable(u) /\ Len(u.entry) = m + k
  /\ \A i \in 1 .. m : Core(u.entry[i]) = Core(t.entry[i])
  /\ \A i \in 1 .. k : u.entry[m + i].file = file /\ u.entry[m + i].num = i

\* Load() adds an entry for each block of the file, in order.
LEMMA LoadFileAdds ==
  ASSUME NEW C, NEW t \in Tables(C), NEW file, NEW size, NEW n \in Nat, 1 <= n,
         NEW hashes, DOMAIN hashes = 1 .. n, Len(hashes) = n, Searchable(t),
         \A k \in 1 .. n : FileEntry(file, hashes, size, k) \in Entries(C)
  PROVE  Adds(t, LoadFile(t, file, hashes, size), Len(t.entry), n, hashes, file, size)
<1> DEFINE u == LoadFile(t, file, hashes, size)
           m == Len(t.entry)
           Item(k) == FileEntry(file, hashes, size, k)
<1>0. PICK a : FileSteps(a, C, t, file, hashes, size, n)
  BY LoadFileSteps
<1>1. /\ a \in [0 .. n -> Tables(C)] /\ a[0] = t /\ u = a[n]
      /\ \A k \in 1 .. n : a[k] = Insert(a[k - 1], Item(k))
  BY <1>0 DEF FileSteps
<1> HIDE DEF u
<1>2. m \in Nat
  <2>1. IsTable(t, C, m)
    BY TablesAre
  <2> QED BY <2>1 DEF IsTable
<1>3. \A k \in 1 .. n : /\ Item(k).file = file /\ Item(k).num = k
                        /\ Item(k).left = 0 /\ Item(k).right = 0 /\ Item(k).same = 0
  BY FileEntryIs
<1>4. \A k \in 1 .. n : Item(k) \in Entries(C)
  OBVIOUS
<1> DEFINE P(k) == Adds(t, a[k], m, k, hashes, file, size)
           T == {k \in Nat : k <= n => P(k)}
<1>5. 0 \in T
  BY <1>1, <1>2 DEF Adds
<1>6. ASSUME NEW k \in Nat, k \in T PROVE k + 1 \in T
  <2> SUFFICES ASSUME k + 1 <= n PROVE P(k + 1)
    <3> HIDE DEF P
    <3> QED OBVIOUS
  <2> DEFINE x == a[k]
             e == Item(k + 1)
             v == a[k + 1]
  <2>1. k \in 0 .. n /\ k + 1 \in 1 .. n /\ (k + 1) - 1 = k /\ k <= n
    OBVIOUS
  <2>2. /\ P(k) /\ x \in Tables(C) /\ e \in Entries(C) /\ e.file = file /\ e.num = k + 1
        /\ e.left = 0 /\ e.right = 0 /\ e.same = 0
    <3> HIDE DEF P, Item
    <3> QED BY <1>1, <1>3, <1>4, <1>6, <2>1
  <2>3. v = Insert(x, e)
    <3> HIDE DEF Item
    <3> QED BY <1>1, <2>1
  <2> HIDE DEF x, v, e, P, Item
  <2>4. IsTable(x, C, Len(x.entry)) /\ Len(v.entry) = Len(x.entry) + 1 /\ v.entry[Len(v.entry)] = e
    BY <2>2, <2>3, InsertedIs
  <2> HIDE DEF m, T
  <2>5. /\ Searchable(x) /\ Len(x.entry) = m + k
        /\ \A i \in 1 .. m : Core(x.entry[i]) = Core(t.entry[i])
        /\ \A i \in 1 .. k : x.entry[m + i].file = file /\ x.entry[m + i].num = i
    BY <2>2 DEF Adds, x, P
  <2>6. Searchable(v)
    BY <2>2, <2>3, <2>4, <2>5, InsertSearchable
  <2>7. \A i \in 1 .. m + k : Core(v.entry[i]) = Core(x.entry[i])
    BY <2>2, <2>3, <2>4, <2>5, InsertGrows DEF Grows
  <2>8. \A i \in 1 .. m : Core(v.entry[i]) = Core(t.entry[i])
    <3>1. \A i \in 1 .. m : i \in 1 .. m + k
      BY <1>2
    <3> QED BY <2>5, <2>7, <3>1
  <2>9. ASSUME NEW i \in 1 .. k + 1 PROVE v.entry[m + i].file = file /\ v.entry[m + i].num = i
    <3>1. CASE i = k + 1
      <4>1. m + i = Len(v.entry)
        BY <1>2, <2>4, <2>5, <3>1
      <4> QED BY <2>2, <2>4, <3>1, <4>1
    <3>2. CASE i # k + 1
      <4>1. i \in 1 .. k /\ m + i \in 1 .. m + k
        BY <1>2, <3>2
      <4>2. Core(v.entry[m + i]) = Core(x.entry[m + i])
        BY <2>7, <4>1
      <4>3. v.entry[m + i].file = x.entry[m + i].file /\ v.entry[m + i].num = x.entry[m + i].num
        BY <4>2 DEF Core
      <4> QED BY <2>5, <4>1, <4>3
    <3> QED BY <3>1, <3>2
  <2>10. Len(v.entry) = m + (k + 1)
    BY <1>2, <2>4, <2>5
  <2> QED BY <2>6, <2>8, <2>9, <2>10 DEF Adds, v, P
<1> HIDE DEF T
<1>7. n \in T
  BY <1>5, <1>6, Induction
<1>8. P(n)
  <2> HIDE DEF P
  <2> QED BY <1>7 DEF T
<1> QED BY <1>1, <1>8 DEF u

\* The blocks of a file are next to each other, in their order; those of every
\* file that has been loaded, of the ids I, are there.
InOrder(t) ==
  \A i, j \in 1 .. Len(t.entry) :
    t.entry[i].file = t.entry[j].file => i + t.entry[j].num = j + t.entry[i].num

\* Entry i is that of block k of a source file.
IsOf(t, i, id, k) == i \in 1 .. Len(t.entry) /\ t.entry[i].file = id /\ t.entry[i].num = k

\* All blocks of a source file have an entry,
HasFile(t, g, id) == \A k \in 1 .. BlockCount(DescIn(g, id).data) : \E i \in 1 .. Len(t.entry) : IsOf(t, i, id, k)

\* and so have those of all the files of I that can be verified, and no others.
HoldsFiles(t, g, I) ==
  /\ Searchable(t) /\ InOrder(t)
  /\ \A i \in 1 .. Len(t.entry) : t.entry[i].file \in I
  /\ \A id \in I \cap Known(g) : CheckedIn(g, id) => HasFile(t, g, id)

\* What PrepareVerificationHashTable() is to have made.
FullTable(g, t) ==
  Searchable(t) /\ InOrder(t) /\ \A id \in Known(g) : CheckedIn(g, id) => HasFile(t, g, id)

\* A source file more.
LEMMA LoadSourceAdds ==
  ASSUME NEW P, Truthful(P), NEW g \in Gots(P), Sized(g), NEW t \in LoadedTables(Cores(g)),
         NEW I, HoldsFiles(t, g, I), NEW id, id \notin I
  PROVE  HoldsFiles(LoadSource(g, t, id), g, I \cup {id})
<1>1. CASE ~(id \in Known(g) /\ CheckedIn(g, id))
  <2>1. LoadSource(g, t, id) = t
    BY <1>1 DEF LoadSource
  <2> QED BY <1>1, <2>1 DEF HoldsFiles
<1>2. CASE id \in Known(g) /\ CheckedIn(g, id)
  <2> DEFINE C == Cores(g)
             data == DescIn(g, id).data
             size == Len(data)
             blocks == VerifyIn(g, id).blocks
             n == Len(blocks)
             m == Len(t.entry)
             u == LoadFile(t, id, blocks, size)
  <2>1. /\ n = BlockCount(data) /\ 1 <= n /\ blocks \in Seq(BlockData)
        /\ \A k \in 1 .. n : FileEntry(id, blocks, size, k) \in Entries(C)
    BY <1>2, SourceEntry
  <2>2. t \in Tables(C)
    BY DEF LoadedTables
  <2>3. LoadSource(g, t, id) = u
    BY <1>2 DEF LoadSource
  <2>4. /\ Searchable(t) /\ InOrder(t) /\ \A i \in 1 .. m : t.entry[i].file \in I
        /\ \A other \in I \cap Known(g) : CheckedIn(g, other) => HasFile(t, g, other)
    BY DEF HoldsFiles
  <2> HIDE DEF C, size, blocks
  <2>5. n \in Nat /\ DOMAIN blocks = 1 .. n
    BY <2>1
  <2>6. Adds(t, u, m, n, blocks, id, size)
    BY <2>1, <2>2, <2>4, <2>5, LoadFileAdds
  <2>7. m \in Nat
    <3>1. IsTable(t, C, m)
      BY <2>2, TablesAre
    <3> QED BY <3>1 DEF IsTable
  <2> HIDE DEF u, m, n
  <2>8. /\ Searchable(u) /\ Len(u.entry) = m + n
        /\ \A i \in 1 .. m : u.entry[i].file = t.entry[i].file /\ u.entry[i].num = t.entry[i].num
        /\ \A i \in 1 .. n : u.entry[m + i].file = id /\ u.entry[m + i].num = i
    BY <2>6 DEF Adds, Core
  <2>9. \A i \in 1 .. m + n : i \in 1 .. m \/ (i - m \in 1 .. n /\ i = m + (i - m))
    BY <2>5, <2>7
  <2>10. \A i \in 1 .. m : u.entry[i].file \in I
    BY <2>4, <2>8 DEF m
  <2>11. \A i \in 1 .. m + n : i \notin 1 .. m => u.entry[i].file = id /\ u.entry[i].num = i - m
    <3> SUFFICES ASSUME NEW i \in 1 .. m + n, i \notin 1 .. m
                 PROVE  u.entry[i].file = id /\ u.entry[i].num = i - m
      OBVIOUS
    <3> DEFINE k == i - m
    <3>1. k \in 1 .. n /\ i = m + k
      BY <2>9
    <3> HIDE DEF k
    <3>2. u.entry[m + k].file = id /\ u.entry[m + k].num = k
      BY <2>8, <3>1
    <3>3. u.entry[i].file = id /\ u.entry[i].num = k
      BY <3>1, <3>2
    <3> QED BY <3>3 DEF k
  <2>12. InOrder(u)
    <3> SUFFICES ASSUME NEW i \in 1 .. m + n, NEW j \in 1 .. m + n, u.entry[i].file = u.entry[j].file
                 PROVE  i + u.entry[j].num = j + u.entry[i].num
      BY <2>8 DEF InOrder
    <3>1. CASE i \in 1 .. m /\ j \in 1 .. m
      BY <2>4, <2>8, <3>1 DEF InOrder, m
    <3>2. CASE i \notin 1 .. m /\ j \notin 1 .. m
      <4>1. u.entry[i].num = i - m /\ u.entry[j].num = j - m
        BY <2>11, <3>2
      <4> QED BY <2>5, <2>7, <4>1
    <3>3. CASE ~(i \in 1 .. m <=> j \in 1 .. m)
      BY <2>10, <2>11, <3>3
    <3> QED BY <3>1, <3>2, <3>3
  <2>13. \A i \in 1 .. Len(u.entry) : u.entry[i].file \in I \cup {id}
    BY <2>8, <2>10, <2>11
  <2>14. ASSUME NEW other \in (I \cup {id}) \cap Known(g), CheckedIn(g, other) PROVE HasFile(u, g, other)
    <3>1. CASE other = id
      <4> SUFFICES ASSUME NEW k \in 1 .. n PROVE IsOf(u, m + k, id, k) /\ m + k \in 1 .. Len(u.entry)
        BY <2>1, <3>1 DEF HasFile, data
      <4>1. m + k \in 1 .. m + n
        BY <2>5, <2>7
      <4> QED BY <2>8, <4>1 DEF IsOf
    <3>2. CASE other # id
      <4>1. HasFile(t, g, other)
        BY <2>4, <2>14, <3>2
      <4>2. \A i \in 1 .. m : i \in 1 .. Len(u.entry)
        BY <2>5, <2>7, <2>8
      <4>3. \A i \in 1 .. m : \A k : IsOf(t, i, other, k) => IsOf(u, i, other, k)
        BY <2>8, <4>2 DEF IsOf
      <4> QED BY <4>1, <4>2, <4>3 DEF HasFile, m
    <3> QED BY <3>1, <3>2
  <2>15. HoldsFiles(u, g, I \cup {id})
    BY <2>8, <2>12, <2>13, <2>14 DEF HoldsFiles
  <2> QED BY <2>3, <2>15
<1> QED BY <1>1, <1>2

\* All source files whose checksums are known are in the table.
LEMMA LoadSourcesFull ==
  ASSUME NEW P, Truthful(P), NEW g \in Gots(P), Sized(g), g.main \in MainPacket
  PROVE  FullTable(g, LoadSources(g))
<1> DEFINE q == FileIds(g)
           n == Len(q)
           I(k) == {q[i] : i \in 1 .. k}
<1>1. g.main \in P /\ g.main.type = "main" /\ q \in Seq(Id)
  <2>1. g.main # None
    BY DEF MainPacket, None
  <2>2. g.main \in P \cup {None}
    BY GotFields
  <2> QED BY <2>1, <2>2 DEF MainPacket, FileIds
<1>2. \A i, j \in DOMAIN q : q[i] = q[j] => i = j
  BY <1>1 DEF Truthful, FileIds
<1>3. PICK a : SourceSteps(a, g)
  BY <1>1, LoadSourcesSteps
<1>4. /\ n \in Nat /\ DOMAIN q = 1 .. n
      /\ a \in [0 .. n -> LoadedTables(Cores(g))]
      /\ a[0] = EmptyTable /\ LoadSources(g) = a[n]
      /\ \A k \in 1 .. n : a[k] = LoadSource(g, a[k - 1], q[k])
  BY <1>1, <1>3 DEF SourceSteps
<1> HIDE DEF q, n
<1> DEFINE Q(k) == HoldsFiles(a[k], g, I(k))
           T == {k \in Nat : k <= n => Q(k)}
<1>5. 0 \in T
  <2>1. EmptyTable.entry = <<>>
    BY DEF EmptyTable
  <2>2. Searchable(EmptyTable) /\ InOrder(EmptyTable)
    BY <2>1 DEF Searchable, InOrder
  <2>3. I(0) = {}
    OBVIOUS
  <2>4. Q(0)
    BY <1>4, <2>1, <2>2, <2>3 DEF HoldsFiles
  <2> HIDE DEF Q
  <2> QED BY <2>4
<1>6. ASSUME NEW k \in Nat, k \in T PROVE k + 1 \in T
  <2> SUFFICES ASSUME k + 1 <= n PROVE Q(k + 1)
    <3> HIDE DEF Q
    <3> QED OBVIOUS
  <2>1. k \in 0 .. n /\ k + 1 \in 1 .. n /\ (k + 1) - 1 = k /\ k <= n
    BY <1>4
  <2>2. Q(k)
    <3> HIDE DEF Q
    <3> QED BY <1>6, <2>1
  <2>3. a[k] \in LoadedTables(Cores(g)) /\ a[k + 1] = LoadSource(g, a[k], q[k + 1])
    BY <1>4, <2>1
  <2>4. q[k + 1] \notin I(k)
    <3> SUFFICES ASSUME NEW i \in 1 .. k, q[i] = q[k + 1] PROVE FALSE
      OBVIOUS
    <3>1. i \in 1 .. n /\ k + 1 \in 1 .. n /\ i # k + 1
      BY <1>4, <2>1
    <3> QED BY <1>2, <1>4, <3>1
  <2>5. I(k + 1) = I(k) \cup {q[k + 1]}
    <3>1. 1 .. k + 1 = (1 .. k) \cup {k + 1}
      OBVIOUS
    <3> QED BY <3>1
  <2> HIDE DEF I
  <2> QED BY <2>2, <2>3, <2>4, <2>5, LoadSourceAdds
<1> HIDE DEF T
<1>7. n \in T
  BY <1>4, <1>5, <1>6, Induction
<1>8. Q(n)
  <2> HIDE DEF Q
  <2> QED BY <1>4, <1>7 DEF T
<1>9. Known(g) \subseteq I(n)
  BY <1>4 DEF Known, q, Range
<1> HIDE DEF I
<1>10. \A id \in Known(g) : id \in I(n) \cap Known(g)
  BY <1>9
<1> QED BY <1>4, <1>8, <1>10 DEF HoldsFiles, FullTable

-----------------------------------------------------------------------------
(* An intact block shows in the window. *)

\* What is added to a short block are zeros.
LEMMA PaddedEnd ==
  ASSUME NEW s \in Seq(Byte), NEW n \in Nat, Len(s) <= n
  PROVE  \A i \in Len(s) + 1 .. n : Padded(s, n)[i] = 0
<1> DEFINE z == [i \in 1 .. n - Len(s) |-> 0]
           m == Len(s)
<1>1. m \in Nat /\ n - m \in Nat /\ n - m = n - Len(s)
  <2>1. Len(s) \in Nat
    BY LenProperties
  <2> QED BY <2>1
<1>2. z \in [1 .. n - m -> Byte] /\ DOMAIN z = 1 .. n - m /\ \A i \in 1 .. n - m : z[i] = 0
  BY CrcAssumption
<1>3. Padded(s, n) = s \o z
  BY DEF Padded
<1> HIDE DEF z
<1>4. z \in Seq(Byte) /\ Len(z) = n - m
  BY <1>1, <1>2
<1>5. \A i \in 1 .. m + Len(z) : (s \o z)[i] = IF i <= m THEN s[i] ELSE z[i - m]
  BY <1>4, ConcatProperties
<1> HIDE DEF m
<1>6. ASSUME NEW i \in m + 1 .. n PROVE (s \o z)[i] = 0
  <2>1. i \in 1 .. m + Len(z) /\ ~(i <= m) /\ i - m \in 1 .. n - m
    BY <1>1, <1>4
  <2> QED BY <1>2, <1>5, <2>1
<1> QED BY <1>3, <1>6 DEF m

\* The buffer of a file that has just been opened: its first bytes, then zeros.
LEMMA StartShows ==
  ASSUME NEW data \in Seq(Byte), data # <<>>
  PROVE  /\ Start(data).out = 0
         /\ \A i \in Len(data) + 1 .. 2 * BlockSize : Start(data).buffer[i] = 0
<1> DEFINE zeros == Padded(<<>>, 2 * BlockSize)
           c == [at |-> 0, buffer |-> zeros, out |-> 0, tail |-> 0, read |-> 0, first |-> <<>>, full |-> <<>>]
           bytes == Bytes(data, 0, 2 * BlockSize)
           buffer == Padded(bytes, 2 * BlockSize)
<1>1. BlockSize \in Nat /\ 1 <= BlockSize /\ 2 * BlockSize \in Nat /\ Len(data) \in Nat /\ 0 < Len(data)
  BY BlockSizeIs, LenProperties, EmptySeq
<1>2. Start(data) = Fill(c, data)
  BY DEF Start, zeros
<1>3. /\ bytes \in Seq(Byte) /\ Len(bytes) \in Nat /\ Len(bytes) <= 2 * BlockSize /\ 0 + Len(bytes) <= Len(data)
      /\ Len(bytes) = 2 * BlockSize \/ 0 + Len(bytes) = Len(data)
  <2> DEFINE m == 2 * BlockSize
  <2>1. m \in Nat /\ 0 \in Nat /\ 0 <= Len(data)
    BY <1>1
  <2> HIDE DEF m
  <2>2. LET b == Bytes(data, 0, m) IN
        /\ b \in Seq(Byte) /\ Len(b) \in Nat /\ Len(b) <= m /\ 0 + Len(b) <= Len(data)
        /\ Len(b) = m \/ 0 + Len(b) = Len(data)
    BY <2>1, BytesIs
  <2> QED BY <2>2 DEF m
<1>4. SubSeq(zeros, 1, 0) \o bytes = bytes
  <2> HIDE DEF bytes
  <2>1. SubSeq(zeros, 1, 0) = <<>>
    BY SubSeqEmpty
  <2> QED BY <1>3, <2>1, ConcatEmptySeq
<1>5. Fill(c, data).buffer = buffer /\ Fill(c, data).out = 0
  <2> DEFINE u == UpdateHashes(c, bytes)
  <2>1. c.read = 0 /\ c.tail = 0 /\ c.buffer = zeros /\ c.out = 0
    OBVIOUS
  <2>2. 2 * BlockSize - c.tail = 2 * BlockSize /\ ~(c.read >= Len(data))
    BY <1>1, <2>1
  <2>3. Fill(c, data) = [u EXCEPT !.buffer = Padded(SubSeq(@, 1, c.tail) \o bytes, 2 * BlockSize),
                                  !.read = @ + Len(bytes), !.tail = @ + Len(bytes)]
    <3> HIDE DEF c, bytes
    <3> QED BY <2>1, <2>2 DEF Fill, bytes, u
  <2>4. \E x, y \in Seq(Byte) : u = [c EXCEPT !.first = x, !.full = y]
    <3>1. c \in Checksummers
      <4>1. zeros \in Seq(Byte)
        <5>1. <<>> \in Seq(Byte) /\ Len(<<>>) = 0 /\ Len(<<>>) <= 2 * BlockSize
          BY <1>1, EmptySeq
        <5> QED BY <1>1, <5>1, PaddedIs
      <4> HIDE DEF zeros
      <4> QED BY <1>1, <4>1, EmptySeq DEF Checksummers
    <3>2. Hashed(c, data)
      <4>1. SubSeq(data, 1, 0) = <<>>
        BY SubSeqEmpty
      <4>2. (IF c.read < HashedFirst THEN c.read ELSE HashedFirst) = 0 /\ c.first = <<>> /\ c.full = <<>>
        BY <2>1, SizesAssumption
      <4> HIDE DEF c
      <4> QED BY <2>1, <4>1, <4>2 DEF Hashed
    <3>3. c.read <= Len(data) /\ c.read = 0
      BY <1>1, <2>1
    <3> HIDE DEF c
    <3> DEFINE m == 2 * BlockSize
    <3>4. m \in Nat
      BY <1>1
    <3> HIDE DEF m
    <3>5. LET b == Bytes(data, c.read, m) IN
          \E x, y \in Seq(Byte) :
            /\ UpdateHashes(c, b) = [c EXCEPT !.first = x, !.full = y]
            /\ Hashed([first |-> x, full |-> y, read |-> c.read + Len(b)], data)
      BY <3>1, <3>2, <3>3, <3>4, UpdateHashesKeeps
    <3> QED BY <3>3, <3>5 DEF u, bytes, m
  <2> PICK x \in Seq(Byte), y \in Seq(Byte) : u = [c EXCEPT !.first = x, !.full = y]
    BY <2>4
  <2>5. u = [at |-> 0, buffer |-> zeros, out |-> 0, tail |-> 0, read |-> 0, first |-> x, full |-> y]
    OBVIOUS
  <2> HIDE DEF u, bytes, zeros
  <2>6. u.buffer = zeros /\ u.out = 0
    BY <2>5
  <2>7. Fill(c, data).out = u.out /\ Fill(c, data).buffer = Padded(SubSeq(u.buffer, 1, 0) \o bytes, 2 * BlockSize)
    <3> HIDE DEF c
    <3> QED BY <2>1, <2>3, <2>5
  <2> QED BY <1>4, <2>6, <2>7 DEF buffer
<1> HIDE DEF c, bytes
<1>6. \A i \in Len(bytes) + 1 .. 2 * BlockSize : buffer[i] = 0
  BY <1>1, <1>3, PaddedEnd
<1>7. \A i \in Len(data) + 1 .. 2 * BlockSize : i \in Len(bytes) + 1 .. 2 * BlockSize
  BY <1>1, <1>3
<1> HIDE DEF buffer
<1> QED BY <1>2, <1>5, <1>6, <1>7

\* The bytes of a part that is long enough.
LEMMA BytesOfBytes ==
  ASSUME NEW S, NEW data \in Seq(S), NEW m \in Nat, NEW from \in Nat, NEW n \in Nat, from + n <= m
  PROVE  Bytes(Bytes(data, 0, m), from, n) = Bytes(data, from, n)
<1> DEFINE L == Len(data)
           e == IF m < L THEN m ELSE L
           a == Bytes(data, 0, m)
           end == IF from + n < L THEN from + n ELSE L
<1>1. L \in Nat /\ e \in Nat /\ e <= L /\ end \in Nat /\ end <= e
      /\ end = IF from + n < e THEN from + n ELSE e
  <2>1. L \in Nat
    BY LenProperties
  <2> HIDE DEF L
  <2> QED BY <2>1
<1>2. a = SubSeq(data, 0 + 1, e)
  <2>1. 0 + m = m
    OBVIOUS
  <2> QED BY <2>1 DEF Bytes
<1>3. Bytes(data, from, n) = SubSeq(data, from + 1, end)
  BY DEF Bytes
<1> HIDE DEF e, end
<1>4. Len(a) = e
  <2>1. Len(SubSeq(data, 0 + 1, e)) = IF 0 < e THEN e - 0 ELSE 0
    <3>1. 0 \in Nat /\ e <= Len(data)
      BY <1>1
    <3> QED BY <1>1, <3>1, PartIs
  <2>2. (IF 0 < e THEN e - 0 ELSE 0) = e
    BY <1>1
  <2> QED BY <1>2, <2>1, <2>2
<1>5. Bytes(a, from, n) = SubSeq(a, from + 1, end)
  BY <1>1, <1>4 DEF Bytes
<1>6. SubSeq(SubSeq(data, 0 + 1, e), from + 1, end) = SubSeq(data, 0 + from + 1, 0 + end)
  <2>1. 0 \in Nat /\ 0 <= e /\ e <= Len(data) /\ end <= e - 0
    BY <1>1
  <2> QED BY <1>1, <2>1, PartOfPart
<1>7. 0 + from = from /\ 0 + end = end
  BY <1>1
<1> HIDE DEF a
<1> QED BY <1>2, <1>3, <1>5, <1>6, <1>7 DEF a

\* Where one block ends the next begins.
LEMMA BlockEnds ==
  ASSUME NEW k \in Nat, 1 <= k
  PROVE  (k - 1) * BlockSize \in Nat /\ k * BlockSize \in Nat /\ (k - 1) * BlockSize + BlockSize = k * BlockSize
<1> DEFINE j == k - 1
<1>1. BlockSize \in Nat /\ j \in Nat /\ k = j + 1
  BY BlockSizeIs
<1> HIDE DEF j
<1>2. j * BlockSize \in Nat /\ (j + 1) * BlockSize \in Nat
  BY <1>1, TimesMonotone
<1>3. (j + 1) * BlockSize = j * BlockSize + BlockSize
  BY <1>1
<1> QED BY <1>1, <1>2, <1>3 DEF j

\* A file that is intact up to some block.
LEMMA IntactIs ==
  ASSUME NEW data \in Seq(Byte), NEW own \in Seq(Byte), NEW k \in 1 .. BlockCount(own),
         Bytes(data, 0, k * BlockSize) = Bytes(own, 0, k * BlockSize)
  PROVE  /\ (k - 1) * BlockSize < Len(data)
         /\ Bytes(data, (k - 1) * BlockSize, BlockSize) = BlockBytes(own, k)
         /\ \A j \in 1 .. k : Bytes(data, 0, j * BlockSize) = Bytes(own, 0, j * BlockSize)
<1> DEFINE m == k * BlockSize
           from == (k - 1) * BlockSize
           a == Bytes(data, 0, m)
           b == Bytes(own, 0, m)
<1>0. k \in Nat /\ 1 <= k /\ BlockSize \in Nat /\ 1 <= BlockSize /\ Len(data) \in Nat /\ Len(own) \in Nat
  BY BlockStarts, BlockSizeIs, LenProperties
<1>1. m \in Nat /\ from \in Nat /\ from + BlockSize = m /\ from < Len(own)
  BY <1>0, BlockEnds, BlockStarts
<1>2. \A j \in 1 .. k : j * BlockSize \in Nat /\ j * BlockSize <= m
  <2> TAKE j \in 1 .. k
  <2>1. j \in Nat /\ j <= k
    BY <1>0
  <2> QED BY <1>0, <2>1, TimesMonotone
<1>3. a = b
  OBVIOUS
<1>4. BlockBytes(own, k) = Bytes(own, from, BlockSize)
  BY DEF BlockBytes
<1> HIDE DEF m, from
<1>5. Bytes(data, from, BlockSize) = Bytes(own, from, BlockSize)
  <2>1. from + BlockSize <= m
    BY <1>1
  <2>2. Bytes(a, from, BlockSize) = Bytes(data, from, BlockSize)
    BY <1>0, <1>1, <2>1, BytesOfBytes
  <2>3. Bytes(b, from, BlockSize) = Bytes(own, from, BlockSize)
    BY <1>0, <1>1, <2>1, BytesOfBytes
  <2> QED BY <1>3, <2>2, <2>3
<1>6. ASSUME NEW n \in Nat, n <= m PROVE Bytes(data, 0, n) = Bytes(own, 0, n)
  <2>1. 0 \in Nat /\ 0 + n <= m
    BY <1>6
  <2>2. Bytes(a, 0, n) = Bytes(data, 0, n)
    BY <1>1, <2>1, BytesOfBytes
  <2>3. Bytes(b, 0, n) = Bytes(own, 0, n)
    BY <1>1, <2>1, BytesOfBytes
  <2> QED BY <1>3, <2>2, <2>3
<1>7. from < Len(data)
  <2>1. 0 \in Nat /\ 0 <= Len(data) /\ 0 <= Len(own)
    BY <1>0
  <2>2. Len(a) \in Nat /\ 0 + Len(a) <= Len(data)
    BY <1>1, <2>1, BytesIs
  <2>3. Len(b) \in Nat /\ (Len(b) = m \/ 0 + Len(b) = Len(own))
    BY <1>1, <2>1, BytesIs
  <2>4. Len(a) = Len(b)
    BY <1>3
  <2> HIDE DEF a, b
  <2> QED BY <1>0, <1>1, <2>2, <2>3, <2>4
<1>8. \A j \in 1 .. k : Bytes(data, 0, j * BlockSize) = Bytes(own, 0, j * BlockSize)
  BY <1>2, <1>6
<1> QED BY <1>4, <1>5, <1>7, <1>8 DEF from

\* An intact block, when the window is upon it.
LEMMA WindowShows ==
  ASSUME NEW data \in Seq(Byte), NEW own \in Seq(Byte), NEW k \in 1 .. BlockCount(own),
         NEW c, CheckSummerInv(c, data), c.at < Len(data),
         Bytes(data, c.at, BlockSize) = BlockBytes(own, k)
  PROVE  LET l == Len(BlockBytes(own, k)) IN
         /\ BlockLength(c, data) = l
         /\ ShortHash(c, l) = Block(own, k)
         /\ l = BlockSize \/ c = Start(data) => Hash(c) = Block(own, k)
<1> DEFINE s == BlockBytes(own, k)
           l == Len(s)
           h == Hash(c)
           b == Block(own, k)
<1>0. BlockSize \in Nat /\ 1 <= BlockSize /\ Len(data) \in Nat /\ c.at \in Nat /\ c.out \in Nat
  BY BlockSizeIs, Sizes
<1>1. /\ s \in Seq(Byte) /\ l \in 1 .. BlockSize /\ \A i \in 1 .. l : b[i] = s[i]
  BY BlockIs
<1>2. BlockLength(c, data) = l
  BY DEF BlockLength
<1>3. Window(c, l) = s
  <2>1. WindowRight(c, data)
    BY CheckSummerRight
  <2> HIDE DEF s
  <2> QED BY <1>2, <2>1 DEF WindowRight, s
<1>4. ShortHash(c, l) = b
  BY <1>3 DEF ShortHash, Block
<1>5. b = Padded(s, BlockSize)
  BY DEF Block
<1>6. /\ b \in Seq(Byte) /\ Len(b) = BlockSize /\ \A i \in l + 1 .. BlockSize : b[i] = 0
  <2>1. Len(s) <= BlockSize
    BY <1>0, <1>1
  <2> HIDE DEF s, b
  <2> QED BY <1>0, <1>1, <1>5, <2>1, PaddedIs, PaddedEnd
<1>7. h \in Seq(Byte) /\ Len(h) = BlockSize /\ \A i \in 1 .. BlockSize : h[i] = c.buffer[c.out + i]
  <2>1. BlockSize \in 0 .. BlockSize
    BY <1>0
  <2> QED BY <2>1, WindowIs DEF Hash
<1>8. \A i \in 1 .. l : s[i] = c.buffer[c.out + i]
  <2>1. l \in 0 .. BlockSize
    BY <1>0, <1>1
  <2> HIDE DEF s
  <2> QED BY <1>3, <2>1, WindowIs
<1> HIDE DEF s, h, b
<1>9. ASSUME l = BlockSize \/ c = Start(data) PROVE h = b
  <2>1. ASSUME NEW i \in 1 .. BlockSize, ~(i <= l) PROVE h[i] = b[i]
    <3>1. c = Start(data) /\ i \in l + 1 .. BlockSize
      BY <1>0, <1>1, <1>9, <2>1
    <3>2. c.at = 0 /\ data # <<>>
      BY <1>0, <3>1, StartRight
    <3>3. 0 + l = Len(data)
      <4>1. 0 \in Nat /\ 0 <= Len(data)
        BY <1>0
      <4>2. Len(Bytes(data, 0, BlockSize)) = BlockSize \/ 0 + Len(Bytes(data, 0, BlockSize)) = Len(data)
        BY <1>0, <4>1, BytesIs
      <4>3. Len(Bytes(data, 0, BlockSize)) = l
        BY <3>2 DEF s
      <4>4. l # BlockSize
        BY <1>0, <1>1, <2>1
      <4> QED BY <4>2, <4>3, <4>4
    <3>4. i \in Len(data) + 1 .. 2 * BlockSize /\ 0 + i = i
      BY <1>0, <1>1, <3>1, <3>3
    <3>5. c.out = 0 /\ c.buffer[i] = 0
      BY <3>1, <3>2, <3>4, StartShows
    <3> QED BY <1>6, <1>7, <3>1, <3>4, <3>5
  <2>2. ASSUME NEW i \in 1 .. BlockSize, i <= l PROVE h[i] = b[i]
    <3>1. i \in 1 .. l
      BY <1>0, <1>1, <2>2
    <3> QED BY <1>1, <1>7, <1>8, <3>1
  <2>3. \A i \in 1 .. Len(h) : h[i] = b[i]
    BY <1>7, <2>1, <2>2
  <2> QED BY <1>6, <1>7, <2>3, SeqEqual
<1> QED BY <1>2, <1>4, <1>9 DEF s, h, b

\* Entry i stands for the block that is expected and the window shows.
Ahead(t, n, i, next, c, data, taken, here, whole) ==
  LET e == t.entry[i] IN
  /\ e.file \notin whole /\ i \notin here /\ Fits(e, c, data)
  /\ \A j \in 1 .. n : t.entry[j].file = e.file /\ j < i => j \in taken
  /\ ShortHash(c, e.length) = e.hash
  /\ next = i \/ (next = 0 /\ e.num = 1 /\ c.at = 0)
  /\ (next = i /\ e.last) \/ Hash(c) = e.hash

\* FindMatch finds the block that is expected, or it has been found before and
\* there is another one with the same data.
LEMMA FindsNext ==
  ASSUME NEW C, NEW n, NEW t, IsTable(t, C, n), NEW i \in 1 .. n, Reached(t, i),
         NEW next, NEW c, NEW data, NEW taken, NEW here, NEW whole,
         Ahead(t, n, i, next, c, data, taken, here, whole)
  PROVE  \/ FindMatch(t, next, t.entry[i].file, c, data, taken, here, whole).entry = i
         \/ /\ i \in taken /\ ~(next = i /\ t.entry[i].last)
            /\ \E j \in 1 .. n : j # i /\ t.entry[j].hash = t.entry[i].hash
<1> DEFINE e == t.entry[i]
           file == e.file
           m == FindMatch(t, next, file, c, data, taken, here, whole)
           top == SearchCrc(t, Checksum(c))
           hit == IF top = 0 THEN 0 ELSE SearchHash(t, top, Hash(c))
           list == SearchHash(t, SearchCrc(t, e.crc), e.hash)
<1>a. /\ file \notin whole /\ i \notin here /\ Fits(e, c, data)
      /\ \A j \in 1 .. n : t.entry[j].file = file /\ j < i => j \in taken
      /\ ShortHash(c, e.length) = e.hash
      /\ next = i \/ (next = 0 /\ e.num = 1 /\ c.at = 0)
      /\ (next = i /\ e.last) \/ Hash(c) = e.hash
  BY DEF Ahead
<1>1. /\ n \in Nat /\ DOMAIN t.entry = 1 .. n /\ i # 0 /\ i \in Nat /\ e.crc = Crc(e.hash)
      /\ Linked(t.entry, i, n)
  BY TableHas, EntryFields
<1>2. m = CASE Expected(t, next, c, taken) -> MatchOf(next)
            [] ~Expected(t, next, c, taken) /\ hit = 0 -> NoMatch
            [] OTHER -> IF t.entry[hit].same = 0
                        THEN FindOnly(t, hit, next, c, data, taken, here, whole)
                        ELSE FindAmong(t, hit, file, c, data, taken)
  BY DEF FindMatch
<1>3. /\ list \in 1 .. n /\ t.entry[list].hash = e.hash
      /\ \A S : i \in S => LET r == FirstOf(t, list, S) IN r \in 1 .. n /\ r \in S /\ r <= i
      /\ t.entry[list].same = 0 => list = i
  BY SearchFinds
<1> HIDE DEF m
<1>4. CASE Expected(t, next, c, taken)
  <2>1. next = i
    BY <1>a, <1>4 DEF Expected
  <2>2. m.entry = i
    BY <1>2, <1>4, <2>1 DEF MatchOf
  <2> QED BY <2>2 DEF m
<1>5. CASE ~Expected(t, next, c, taken)
  <2>1. ~(next = i /\ e.last)
    <3> SUFFICES ASSUME next = i, e.last PROVE FALSE
      OBVIOUS
    <3>1. ShortChecksum(c, e.length) = e.crc
      BY <1>1, <1>a DEF ShortChecksum
    <3> QED BY <1>1, <1>a, <1>5, <3>1 DEF Expected
  <2>2. Hash(c) = e.hash
    BY <1>a, <2>1
  <2>3. Checksum(c) = e.crc
    BY <1>1, <2>2 DEF Checksum
  <2>4. hit = list
    <3>1. SearchCrc(t, e.crc) # 0
      BY CrcFound
    <3> QED BY <2>2, <2>3, <3>1
  <2>5. hit # 0
    BY <1>1, <1>3, <2>4
  <2> HIDE DEF list, hit
  <2>6. m = IF t.entry[list].same = 0
            THEN FindOnly(t, list, next, c, data, taken, here, whole)
            ELSE FindAmong(t, list, file, c, data, taken)
    BY <1>2, <1>5, <2>4, <2>5
  <2>7. CASE t.entry[list].same = 0
    <3>1. list = i
      BY <1>3, <2>7
    <3>2. m = FindOnly(t, i, next, c, data, taken, here, whole)
      BY <2>6, <2>7, <3>1
    <3>3. FindOnly(t, i, next, c, data, taken, here, whole) = MatchOf(i)
      BY <1>a DEF FindOnly
    <3>4. m.entry = i
      BY <3>2, <3>3 DEF MatchOf
    <3> QED BY <3>4 DEF m
  <2>8. CASE t.entry[list].same # 0
    <3>1. m = FindAmong(t, list, file, c, data, taken)
      BY <2>6, <2>8
    <3>2. CASE i \notin taken
      <4> DEFINE free == {j \in (DOMAIN t.entry) \ taken : Fits(t.entry[j], c, data)}
                 S == {j \in free : t.entry[j].file = file}
                 own == FirstOf(t, list, S)
      <4>1. i \in S
        BY <1>1, <1>a, <3>2
      <4>2. own \in 1 .. n /\ own \in S /\ own <= i
        BY <1>3, <4>1
      <4>3. own \notin taken /\ t.entry[own].file = file
        BY <4>2
      <4> HIDE DEF S, free
      <4>4. own = i
        BY <1>1, <1>a, <4>2, <4>3
      <4>5. FindAmong(t, list, file, c, data, taken) = MatchOf(own)
        BY <1>1, <4>4 DEF FindAmong, S, free
      <4>6. m.entry = i
        BY <3>1, <4>4, <4>5 DEF MatchOf
      <4> QED BY <4>6 DEF m
    <3>3. CASE i \in taken
      <4>1. CASE list # i
        BY <1>3, <2>1, <3>3, <4>1
      <4>2. CASE list = i
        <5> DEFINE j == e.same
        <5>1. j \in 1 .. n /\ j # i /\ t.entry[j].hash = e.hash
          BY <1>1, <2>8, <4>2 DEF Linked, Down
        <5> QED BY <2>1, <3>3, <5>1
      <4> QED BY <4>1, <4>2
    <3> QED BY <3>2, <3>3
  <2> QED BY <2>7, <2>8
<1> QED BY <1>4, <1>5

\* What has been found is found again only if it is a last block, or the only
\* one with its data.
LEMMA MatchFresh ==
  ASSUME NEW C, NEW n, NEW t, IsTable(t, C, n), Searchable(t),
         NEW data \in Seq(Byte), NEW c, CheckSummerInv(c, data), c.at < Len(data),
         NEW next, NEW file, NEW taken, NEW here, NEW whole, NEW i \in 1 .. n,
         FindMatch(t, next, file, c, data, taken, here, whole).entry = i, i \in taken
  PROVE  t.entry[i].last \/ \A j \in 1 .. n : t.entry[j].hash = t.entry[i].hash => j = i
<1> DEFINE m == FindMatch(t, next, file, c, data, taken, here, whole)
           top == SearchCrc(t, Checksum(c))
           hit == IF top = 0 THEN 0 ELSE SearchHash(t, top, Hash(c))
<1>1. n \in Nat /\ DOMAIN t.entry = 1 .. n /\ Len(t.entry) = n
  BY TableHas
<1>2. m = CASE Expected(t, next, c, taken) -> MatchOf(next)
            [] ~Expected(t, next, c, taken) /\ hit = 0 -> NoMatch
            [] OTHER -> IF t.entry[hit].same = 0
                        THEN FindOnly(t, hit, next, c, data, taken, here, whole)
                        ELSE FindAmong(t, hit, file, c, data, taken)
  BY DEF FindMatch
<1>3. m.entry = i /\ i # 0
  BY <1>1
<1> HIDE DEF m
<1>4. CASE Expected(t, next, c, taken)
  <2>1. next = i
    BY <1>2, <1>3, <1>4 DEF MatchOf
  <2> QED BY <1>4, <2>1 DEF Expected
<1>5. CASE ~Expected(t, next, c, taken)
  <2>1. hit # 0
    <3> SUFFICES ASSUME hit = 0 PROVE FALSE
      OBVIOUS
    <3> HIDE DEF hit
    <3>1. m = NoMatch
      BY <1>2, <1>5
    <3> QED BY <1>3, <3>1 DEF NoMatch
  <2>2. hit \in 1 .. n /\ t.entry[hit].hash = Hash(c) /\ top # 0
    <3>1. Hash(c) \in BlockData /\ Checksum(c) \in Nat
      BY HashIs
    <3>2. top \in 0 .. n
      BY <3>1, SearchCrcIs
    <3> HIDE DEF top
    <3>3. top \in 1 .. n
      BY <1>1, <2>1, <3>2
    <3>4. SearchHash(t, top, Hash(c)) \in 0 .. n
          /\ (SearchHash(t, top, Hash(c)) # 0 => t.entry[SearchHash(t, top, Hash(c))].hash = Hash(c))
      BY <3>1, <3>3, SearchHashIs
    <3> DEFINE r == SearchHash(t, top, Hash(c))
    <3>5. hit = r /\ r # 0
      BY <2>1, <3>3
    <3>6. r \in 0 .. n
      BY <3>4
    <3> HIDE DEF hit, r
    <3>7. r \in 1 .. n
      BY <1>1, <3>5, <3>6
    <3> QED BY <3>3, <3>4, <3>5, <3>7 DEF r
  <2>3. CASE t.entry[hit].same = 0
    <3>1. m = FindOnly(t, hit, next, c, data, taken, here, whole)
      <4> HIDE DEF hit
      <4> QED BY <1>2, <1>5, <2>1, <2>3
    <3>2. FindOnly(t, hit, next, c, data, taken, here, whole) \in {Duplicate, NoMatch, MatchOf(hit)}
      BY DEF FindOnly
    <3>3. i = hit
      <4> HIDE DEF hit
      <4> QED BY <1>3, <3>1, <3>2 DEF Duplicate, NoMatch, MatchOf
    <3>4. ASSUME NEW j \in 1 .. n, t.entry[j].hash = t.entry[i].hash PROVE j = i
      <4> DEFINE list == SearchHash(t, SearchCrc(t, t.entry[j].crc), t.entry[j].hash)
      <4>1. t.entry[j].hash = Hash(c)
        BY <2>2, <3>3, <3>4
      <4>2. t.entry[j].crc = Checksum(c)
        BY <4>1, TableHas, EntryFields DEF Checksum
      <4>3. list = hit
        BY <2>2, <4>1, <4>2
      <4>4. Reached(t, j)
        BY <1>1 DEF Searchable
      <4>5. t.entry[list].same = 0 => list = j
        BY <4>4, SearchFinds
      <4> HIDE DEF list, hit
      <4> QED BY <2>3, <3>3, <4>3, <4>5
    <3> QED BY <3>4
  <2>4. CASE t.entry[hit].same # 0
    <3> DEFINE free == {j \in (DOMAIN t.entry) \ taken : Fits(t.entry[j], c, data)}
               mine == {j \in free : t.entry[j].file = file}
               own == FirstOf(t, hit, mine)
               any == FirstOf(t, hit, free)
    <3>1. m = FindAmong(t, hit, file, c, data, taken)
      <4> HIDE DEF hit
      <4> QED BY <1>2, <1>5, <2>1, <2>4
    <3> HIDE DEF hit
    <3>2. FindAmong(t, hit, file, c, data, taken) \in {Duplicate}
          \/ (own # 0 /\ FindAmong(t, hit, file, c, data, taken) = MatchOf(own))
          \/ (any # 0 /\ FindAmong(t, hit, file, c, data, taken) = MatchOf(any))
      BY DEF FindAmong
    <3>3. own # 0 => own \in mine
      BY <2>2, FirstOfIs
    <3>4. any # 0 => any \in free
      BY <2>2, FirstOfIs
    <3>5. own # 0 => own \notin taken
      BY <3>3
    <3>6. any # 0 => any \notin taken
      BY <3>4
    <3> HIDE DEF own, any
    <3> QED BY <1>3, <3>1, <3>2, <3>5, <3>6 DEF Duplicate, MatchOf
  <2> QED BY <2>3, <2>4
<1> QED BY <1>4, <1>5

-----------------------------------------------------------------------------
(* Where a file is being looked for in its place. *)

\* The blocks of a source file.
BlocksOf(id) == 1 .. BlockCount(DataOf(id))

\* The blocks at the start of a source file are in the file of its name.
IntactTo(id, k) ==
  /\ Target(id) \in DOMAIN job.disk
  /\ Bytes(job.disk[Target(id)], 0, k * BlockSize) = Bytes(DataOf(id), 0, k * BlockSize)

\* No other source file has a block with the same data,
Only(id) ==
  \A other \in Known(got) \ {id} : \A k \in BlocksOf(id), l \in BlocksOf(other) :
    Block(DataOf(id), k) # Block(DataOf(other), l)

\* a block that the file has twice was found in another file,
Elsewhere(id) ==
  \E k, l \in BlocksOf(id) :
    /\ k # l /\ k # BlockCount(DataOf(id)) /\ Block(DataOf(id), k) = Block(DataOf(id), l)
    /\ found[id][k].file \notin {NoFile, Target(id)}

\* and what there is of the file is found, unless one of these prevents it.
Looked(id) ==
  Checked(id) =>
    \/ \A k \in BlocksOf(id) : IntactTo(id, k) => IsSet(found[id][k])
    \/ Elsewhere(id) \/ ~Only(id)

\* The file with the name of a source file is followed block by block.
OnTrack(id) ==
  LET p == scan.count IN
  /\ p < BlockCount(DataOf(id)) /\ scan.id = id
  /\ scan.c.at = IF p * BlockSize < Len(Data) THEN p * BlockSize ELSE Len(Data)
  /\ p = 0 => scan.next = 0 /\ scan.c = Start(Data)
  /\ p # 0 => IsOf(table, scan.next, id, p + 1)
  /\ \A j \in 1 .. p : IsSet(found[id][j])
  /\ \A j \in p + 1 .. BlockCount(DataOf(id)) : found[id][j].file # scan.file

\* Only the par2 files and the disk tell what is intact.
LEMMA SameSources ==
  ASSUME job' = job, got' = got
  PROVE  /\ (Known(got))' = Known(got)
         /\ \A id : /\ DataOf(id)' = DataOf(id) /\ Target(id)' = Target(id) /\ BlocksOf(id)' = BlocksOf(id)
                    /\ Description(id)' = Description(id) /\ (Checked(id)' <=> Checked(id)) /\ (Only(id)' <=> Only(id))
                    /\ \A k : IntactTo(id, k)' <=> IntactTo(id, k)
<1>1. (Known(got))' = Known(got)
  OBVIOUS
<1>2. \A id : /\ DataOf(id)' = DataOf(id) /\ Target(id)' = Target(id) /\ Description(id)' = Description(id)
              /\ (Checked(id)' <=> Checked(id))
  BY DEF DataOf, Target, Description, Checked
<1>3. \A id : BlocksOf(id)' = BlocksOf(id)
  BY <1>2 DEF BlocksOf
<1>4. \A id : Only(id)' <=> Only(id)
  BY <1>1, <1>2, <1>3 DEF Only
<1>5. \A id, k : IntactTo(id, k)' <=> IntactTo(id, k)
  BY <1>2 DEF IntactTo
<1> QED BY <1>1, <1>2, <1>3, <1>4, <1>5

\* What is known while the code works.
LEMMA AtWork ==
  ASSUME IInv, stage \in Working
  PROVE  /\ job \in Jobs /\ got \in Gots(Packets(job)) /\ got.main \in MainPacket /\ Sized(got)
         /\ Truthful(Packets(job)) /\ AllKnown(got)
         /\ table \in LoadedTables(Cores(got)) /\ Len(table.entry) \in Nat
         /\ DOMAIN table.entry = 1 .. Len(table.entry) /\ IsTable(table, Cores(got), Len(table.entry))
         /\ DOMAIN found = Known(got) /\ DOMAIN complete = Known(got)
         /\ \A f \in DOMAIN job.disk : job.disk[f] \in Seq(Byte)
<1>1. /\ job \in Jobs /\ got \in Gots(Packets(job)) /\ got.main \in MainPacket /\ AllKnown(got)
      /\ Prepared(job, got, table, found, complete)
      /\ table \in LoadedTables(Cores(got)) /\ table \in Tables(Cores(got)) /\ Len(table.entry) \in Nat
  BY WorkingIs
<1>2. IsTable(table, Cores(got), Len(table.entry))
  BY <1>1, TablesAre
<1>3. DOMAIN found = Known(got) /\ DOMAIN complete = Known(got)
  BY <1>1, SourcesAre
<1>4. Sized(got)
  BY <1>1 DEF Prepared
<1>5. Truthful(Packets(job)) /\ \A f \in DOMAIN job.disk : job.disk[f] \in Seq(Byte)
  BY <1>1, JobIs
<1>6. DOMAIN table.entry = 1 .. Len(table.entry)
  BY <1>2, TableHas
<1> QED BY <1>1, <1>2, <1>3, <1>4, <1>5, <1>6

\* The same of one source file.
LEMMA SourceAtWork ==
  ASSUME IInv, stage \in Working, NEW id \in Known(got)
  PROVE  /\ DataOf(id) \in Seq(Byte) /\ DataOf(id) = DescIn(got, id).data /\ Target(id) # NoFile
         /\ BlockCount(DataOf(id)) \in Nat /\ DOMAIN found[id] = BlocksOf(id)
         /\ found[id] \in [BlocksOf(id) -> Places(job.disk)]
         /\ Checked(id) => /\ 1 <= BlockCount(DataOf(id)) /\ Len(Hashes(id)) = BlockCount(DataOf(id))
<1>1. Prepared(job, got, table, found, complete)
  BY WorkingIs
<1>2. /\ DataOf(id) \in Seq(Byte) /\ DataOf(id) = DescIn(got, id).data /\ Target(id) # NoFile
      /\ BlockCount(DataOf(id)) \in Nat /\ DOMAIN found[id] = BlocksOf(id)
      /\ found[id] \in [BlocksOf(id) -> Places(job.disk)]
  BY <1>1, SourcesAre DEF BlocksOf
<1>3. ASSUME Checked(id) PROVE 1 <= BlockCount(DataOf(id)) /\ Len(Hashes(id)) = BlockCount(DataOf(id))
  <2>1. CheckedIn(got, id)
    BY <1>3 DEF Checked
  <2>2. Len(VerifyIn(got, id).blocks) = BlockCount(DescIn(got, id).data) /\ 1 <= Len(VerifyIn(got, id).blocks)
    BY <2>1, AtWork, SourceEntry
  <2> QED BY <1>2, <2>2 DEF Hashes
<1> QED BY <1>2, <1>3

\* An entry of the table and the block it stands for.
LEMMA EntryAtWork ==
  ASSUME IInv, stage \in Working, NEW i \in 1 .. Len(table.entry)
  PROVE  LET e == table.entry[i] IN
         /\ e.file \in Known(got) /\ e.num \in BlocksOf(e.file) /\ PlaceOf(i) = found[e.file][e.num]
         /\ e.hash = Block(DataOf(e.file), e.num) /\ e.length = Len(BlockBytes(DataOf(e.file), e.num))
         /\ e.length \in 1 .. BlockSize /\ (e.last <=> e.num = BlockCount(DataOf(e.file)))
<1> DEFINE e == table.entry[i]
           data == DescIn(got, e.file).data
<1>1. /\ e.file \in Known(got) /\ e.num \in 1 .. BlockCount(data)
      /\ e.hash = Block(data, e.num) /\ e.length = Len(BlockBytes(data, e.num))
      /\ e.length \in 1 .. BlockSize /\ (e.last <=> e.num = BlockCount(data))
  BY AtWork, EntryOfSource
<1>2. data = DataOf(e.file)
  BY <1>1, SourceAtWork
<1> HIDE DEF data
<1> QED BY <1>1, <1>2 DEF BlocksOf, PlaceOf

\* A block has one entry.
LEMMA OneEntry ==
  ASSUME NEW t, InOrder(t), Len(t.entry) \in Nat, NEW i, NEW j, NEW id, NEW k \in Nat, IsOf(t, i, id, k), IsOf(t, j, id, k)
  PROVE  i = j
<1>1. i \in 1 .. Len(t.entry) /\ j \in 1 .. Len(t.entry) /\ i \in Nat /\ j \in Nat
  BY DEF IsOf
<1>2. i + k = j + k
  BY <1>1 DEF InOrder, IsOf
<1> QED BY <1>1, <1>2

\* After the entry of a block comes that of the next one.
LEMMA EntryAfter ==
  ASSUME IInv, stage \in Working, FullTable(got, table), NEW id \in Known(got), Checked(id),
         NEW k \in BlocksOf(id), NEW i, IsOf(table, i, id, k)
  PROVE  IF k = BlockCount(DataOf(id)) THEN NextEntry(table, i) = 0 ELSE IsOf(table, NextEntry(table, i), id, k + 1)
<1>1. i \in 1 .. Len(table.entry) /\ table.entry[i].file = id /\ table.entry[i].num = k /\ Len(table.entry) \in Nat
  BY AtWork DEF IsOf
<1>2. table.entry[i].last <=> k = BlockCount(DataOf(id))
  BY <1>1, EntryAtWork
<1>3. NextEntry(table, i) = IF k = BlockCount(DataOf(id)) THEN 0 ELSE i + 1
  BY <1>2 DEF NextEntry
<1>4. CASE k # BlockCount(DataOf(id))
  <2>1. k + 1 \in BlocksOf(id) /\ k \in Nat /\ BlockCount(DataOf(id)) \in Nat
    BY <1>4, SourceAtWork DEF BlocksOf
  <2>2. CheckedIn(got, id) /\ DataOf(id) = DescIn(got, id).data
    BY SourceAtWork DEF Checked
  <2>3. PICK j \in 1 .. Len(table.entry) : IsOf(table, j, id, k + 1)
    BY <2>1, <2>2 DEF FullTable, HasFile, BlocksOf
  <2>4. i + (k + 1) = j + k
    BY <1>1, <2>3 DEF FullTable, InOrder, IsOf
  <2>5. j = i + 1
    BY <1>1, <2>1, <2>4
  <2> QED BY <1>3, <1>4, <2>3, <2>5
<1> QED BY <1>3, <1>4

\* All blocks but the last are full.
LEMMA FullBlock ==
  ASSUME NEW data \in Seq(Byte), NEW k \in 1 .. BlockCount(data), k # BlockCount(data)
  PROVE  Len(BlockBytes(data, k)) = BlockSize
<1> DEFINE n == BlockCount(data)
           l == Len(BlockBytes(data, k))
<1>1. n \in Nat /\ k \in Nat /\ 1 <= k /\ k + 1 \in 1 .. n /\ k + 1 - 1 = k
  BY BlockStarts
<1>2. k * BlockSize < Len(data) /\ Len(data) \in Nat /\ BlockSize \in Nat
  BY <1>1, BlockStarts, LenProperties, BlockSizeIs
<1>3. (k - 1) * BlockSize \in Nat /\ k * BlockSize \in Nat /\ (k - 1) * BlockSize + BlockSize = k * BlockSize
  BY <1>1, BlockEnds
<1>4. l = LengthOf(Len(data), k)
  BY BlockIs
<1> DEFINE from == (k - 1) * BlockSize
<1>5. ~(Len(data) - from < BlockSize)
  BY <1>2, <1>3
<1> QED BY <1>4, <1>5 DEF LengthOf

\* The next block of a file that is followed is found when it is intact, unless
\* it was found in another file and has a double.
LEMMA FollowStep ==
  ASSUME IInv, FullTable(got, table), Scanning, NEW id \in Known(got), Checked(id), scan.file = Target(id),
         OnTrack(id), complete[id] = NoFile, IntactTo(id, scan.count + 1)
  PROVE  \/ IsOf(table, Match.entry, id, scan.count + 1)
         \/ IsSet(found[id][scan.count + 1]) /\ (Elsewhere(id) \/ ~Only(id))
<1> DEFINE p == scan.count
           k == scan.count + 1
           own == DataOf(id)
           n == Len(table.entry)
<1>1. stage = "scan" /\ scan.c.at < Len(Data)
  BY DEF Scanning
<1>2. /\ ScanRight /\ Data \in Seq(Byte) /\ CheckSummerInv(scan.c, Data) /\ stage \in Working
      /\ scan.next \in 0 .. n
  BY <1>1, ScanningIs
<1>3. /\ n \in Nat /\ DOMAIN table.entry = 1 .. n /\ IsTable(table, Cores(got), n) /\ DOMAIN complete = Known(got)
  BY <1>2, AtWork
<1>4. own \in Seq(Byte) /\ own = DescIn(got, id).data /\ BlockCount(own) \in Nat /\ BlocksOf(id) = 1 .. BlockCount(own)
  BY <1>2, SourceAtWork DEF BlocksOf
<1>5. p \in Nat /\ k \in BlocksOf(id) /\ k \in Nat /\ k - 1 = p /\ 1 <= k
  <2>1. p \in Nat /\ p < BlockCount(own)
    BY <1>2 DEF ScanRight, OnTrack
  <2> QED BY <1>4, <2>1
<1>6. PICK i \in 1 .. n : IsOf(table, i, id, k)
  <2>1. CheckedIn(got, id)
    BY DEF Checked
  <2> QED BY <1>4, <1>5, <2>1 DEF FullTable, HasFile
<1> DEFINE e == table.entry[i]
<1>7. /\ e.file = id /\ e.num = k /\ PlaceOf(i) = found[id][k]
      /\ e.hash = Block(own, k) /\ e.length = Len(BlockBytes(own, k)) /\ (e.last <=> k = BlockCount(own))
  BY <1>2, <1>6, EntryAtWork DEF IsOf
<1>8. scan.c.at = p * BlockSize /\ Bytes(Data, scan.c.at, BlockSize) = BlockBytes(own, k)
  <2>1. Bytes(Data, 0, k * BlockSize) = Bytes(own, 0, k * BlockSize)
    BY DEF IntactTo, Data
  <2>2. (k - 1) * BlockSize < Len(Data) /\ Bytes(Data, (k - 1) * BlockSize, BlockSize) = BlockBytes(own, k)
    BY <1>2, <1>4, <1>5, <2>1, IntactIs
  <2>3. p * BlockSize < Len(Data) /\ Bytes(Data, p * BlockSize, BlockSize) = BlockBytes(own, k)
    BY <1>5, <2>2
  <2> QED BY <2>3 DEF OnTrack
<1>9. /\ BlockLength(scan.c, Data) = e.length /\ ShortHash(scan.c, e.length) = e.hash
      /\ e.length = BlockSize \/ scan.c = Start(Data) => Hash(scan.c) = e.hash
  BY <1>1, <1>2, <1>4, <1>5, <1>7, <1>8, WindowShows
<1>10. Fits(e, scan.c, Data)
  BY <1>9 DEF Fits
<1>11. scan.next = i \/ (scan.next = 0 /\ e.num = 1 /\ scan.c.at = 0 /\ scan.c = Start(Data))
  <2>1. CASE p = 0
    <3>1. scan.next = 0 /\ scan.c = Start(Data) /\ k = 1
      BY <1>5, <2>1 DEF OnTrack
    <3> QED BY <1>2, <1>7, <3>1, StartRight
  <2>2. CASE p # 0
    <3>1. IsOf(table, scan.next, id, k)
      BY <2>2 DEF OnTrack
    <3> QED BY <1>3, <1>5, <1>6, <3>1, OneEntry DEF FullTable
  <2> QED BY <2>1, <2>2
<1>12. (scan.next = i /\ e.last) \/ Hash(scan.c) = e.hash
  <2>1. ASSUME ~e.last PROVE e.length = BlockSize
    BY <1>4, <1>5, <1>7, <2>1, FullBlock
  <2> QED BY <1>9, <1>11, <2>1
<1>13. ASSUME NEW j \in 1 .. n, table.entry[j].file = e.file, j < i PROVE j \in Taken
  <2>1. table.entry[j].num \in BlocksOf(id) /\ PlaceOf(j) = found[id][table.entry[j].num]
    BY <1>2, <1>7, <1>13, EntryAtWork
  <2>2. i + table.entry[j].num = j + k
    BY <1>3, <1>6, <1>7, <1>13 DEF FullTable, InOrder
  <2>3. table.entry[j].num \in 1 .. p
    <3>1. table.entry[j].num \in Nat /\ 1 <= table.entry[j].num /\ i \in Nat /\ j \in Nat
      BY <1>3, <1>4, <1>6, <2>1
    <3> QED BY <1>5, <1>13, <2>2, <3>1
  <2>4. IsSet(PlaceOf(j))
    BY <2>1, <2>3 DEF OnTrack
  <2> QED BY <1>3, <2>4 DEF Taken
<1>14. found[id][k].file # scan.file
  <2>1. k \in p + 1 .. BlockCount(own)
    BY <1>4, <1>5
  <2> QED BY <2>1 DEF OnTrack
<1>15. i \notin Here /\ e.file \notin Whole
  BY <1>7, <1>14 DEF Here, Whole
<1>16. Reached(table, i)
  BY <1>3, <1>6 DEF FullTable, Searchable
<1>17. Match = FindMatch(table, scan.next, e.file, scan.c, Data, Taken, Here, Whole)
  BY <1>7 DEF Match, OnTrack
<1>18. \/ Match.entry = i
       \/ /\ i \in Taken /\ ~(scan.next = i /\ e.last)
          /\ \E j \in 1 .. n : j # i /\ table.entry[j].hash = e.hash
  <2> DEFINE c == scan.c
             next == scan.next
             data == Data
             taken == Taken
             here == Here
             whole == Whole
  <2>1. Ahead(table, n, i, next, c, data, taken, here, whole)
    <3>1. /\ e.file \notin whole /\ i \notin here /\ Fits(e, c, data) /\ ShortHash(c, e.length) = e.hash
          /\ next = i \/ (next = 0 /\ e.num = 1 /\ c.at = 0)
          /\ (next = i /\ e.last) \/ Hash(c) = e.hash
      BY <1>9, <1>10, <1>11, <1>12, <1>15
    <3>2. \A j \in 1 .. n : table.entry[j].file = e.file /\ j < i => j \in taken
      BY <1>13
    <3> HIDE DEF c, next, data, taken, here, whole, n
    <3> QED BY <3>1, <3>2 DEF Ahead
  <2> HIDE DEF c, next, data, taken, here, whole, n
  <2>2. \/ FindMatch(table, next, table.entry[i].file, c, data, taken, here, whole).entry = i
        \/ /\ i \in taken /\ ~(next = i /\ table.entry[i].last)
           /\ \E j \in 1 .. n : j # i /\ table.entry[j].hash = table.entry[i].hash
    BY <1>3, <1>6, <1>16, <2>1, FindsNext
  <2> QED BY <1>17, <2>2 DEF c, next, data, taken, here, whole
<1>19. CASE Match.entry = i
  BY <1>6, <1>19
<1>20. CASE /\ i \in Taken /\ ~(scan.next = i /\ e.last)
            /\ \E j \in 1 .. n : j # i /\ table.entry[j].hash = e.hash
  <2>1. IsSet(found[id][k])
    BY <1>7, <1>20 DEF Taken
  <2>2. PICK j \in 1 .. n : j # i /\ table.entry[j].hash = e.hash
    BY <1>20
  <2> DEFINE f == table.entry[j].file
             l == table.entry[j].num
  <2>3. f \in Known(got) /\ l \in BlocksOf(f) /\ Block(own, k) = Block(DataOf(f), l)
    BY <1>2, <1>7, <2>2, EntryAtWork
  <2>4. CASE f # id
    <3>1. ~Only(id)
      BY <1>5, <2>3, <2>4 DEF Only
    <3> QED BY <2>1, <3>1
  <2>5. CASE f = id
    <3>1. l # k
      <4>1. IsOf(table, j, id, l)
        BY <2>5 DEF IsOf
      <4> QED BY <1>3, <1>5, <1>6, <2>2, <4>1, OneEntry DEF FullTable
    <3>2. k # BlockCount(own)
      <4>1. CASE scan.next = i
        BY <1>7, <1>20, <4>1
      <4>2. CASE scan.next # i
        <5>1. k = 1 /\ l \in 1 .. BlockCount(own)
          BY <1>4, <1>7, <1>11, <2>3, <2>5, <4>2
        <5> QED BY <1>4, <3>1, <5>1
      <4> QED BY <4>1, <4>2
    <3>3. found[id][k].file \notin {NoFile, Target(id)}
      BY <1>14, <2>1 DEF IsSet
    <3>4. Elsewhere(id)
      BY <1>5, <2>3, <2>5, <3>1, <3>2, <3>3 DEF Elsewhere
    <3> QED BY <2>1, <3>4
  <2> QED BY <2>4, <2>5
<1> QED BY <1>18, <1>19, <1>20

\* When the end of the file is reached there was nothing more of it.
LEMMA TrackEnds ==
  ASSUME IInv, stage = "scan", FullTable(got, table), ~Scanning, NEW id \in Known(got), Checked(id),
         scan.file = Target(id), OnTrack(id)
  PROVE  ~IntactTo(id, scan.count + 1)
<1> DEFINE p == scan.count
           k == scan.count + 1
           own == DataOf(id)
<1>1. ScanRight /\ Data \in Seq(Byte) /\ CheckSummerInv(scan.c, Data) /\ stage \in Working
  BY ScanningIs
<1>2. own \in Seq(Byte) /\ own = DescIn(got, id).data /\ BlockCount(own) \in Nat
  BY <1>1, SourceAtWork
<1>3. p \in Nat /\ k \in 1 .. BlockCount(own) /\ k - 1 = p
  <2>1. p \in Nat /\ p < BlockCount(own)
    BY <1>1 DEF ScanRight, OnTrack
  <2> QED BY <1>2, <2>1
<1>4. BlockVerifiable
  <2>1. CheckedIn(got, id)
    BY DEF Checked
  <2>2. \E i \in 1 .. Len(table.entry) : IsOf(table, i, id, k)
    BY <1>2, <1>3, <2>1 DEF FullTable, HasFile
  <2>3. Len(EmptyTable.entry) = 0
    BY EmptySeq DEF EmptyTable
  <2>4. 1 .. 0 = {}
    OBVIOUS
  <2>5. table # EmptyTable
    BY <2>2, <2>3, <2>4
  <2> QED BY <2>5 DEF BlockVerifiable
<1>5. scan.c.at = Len(Data)
  <2>1. scan.c.at \in Nat /\ Len(Data) \in Nat /\ scan.c.at <= Len(Data)
    BY <1>1, Sizes
  <2> QED BY <1>4, <2>1 DEF Scanning
<1>6. ASSUME IntactTo(id, k) PROVE FALSE
  <2>1. Bytes(Data, 0, k * BlockSize) = Bytes(own, 0, k * BlockSize)
    BY <1>6 DEF IntactTo, Data
  <2>2. (k - 1) * BlockSize < Len(Data)
    BY <1>1, <1>2, <1>3, <2>1, IntactIs
  <2>3. p * BlockSize < Len(Data)
    BY <1>3, <2>2
  <2>4. scan.c.at = p * BlockSize
    BY <2>3 DEF OnTrack
  <2>5. Len(Data) \in Nat
    BY <1>1, Sizes
  <2> QED BY <1>5, <2>3, <2>4, <2>5
<1> QED BY <1>6

\* A step of a scan that finds a block,
LEMMA FindBlockIs ==
  ASSUME IInv, FindBlock
  PROVE  LET i == Match.entry
             e == table.entry[i]
         IN /\ i \in 1 .. Len(table.entry) /\ e.file \in Known(got) /\ e.num \in BlocksOf(e.file)
            /\ Scanning /\ stage = "scan" /\ stage \in Working
            /\ UNCHANGED <<job, main, stage, todo, got, used, table, complete, failed, result, needed>>
            /\ DOMAIN found' = Known(got)
            /\ found'[e.file][e.num].file = scan.file /\ IsSet(found'[e.file][e.num])
            /\ \A id \in Known(got) : \A k \in BlocksOf(id) :
                 id # e.file \/ k # e.num => found'[id][k] = found[id][k]
            /\ scan'.file = scan.file /\ scan'.want = scan.want /\ scan'.back = scan.back
            /\ scan'.id = IF scan.count = 0 THEN e.file ELSE scan.id
            /\ scan'.full <=> /\ scan.full
                              /\ IF scan.count = 0 THEN e.num = 1 /\ scan.c.at = 0 ELSE i = scan.next
            /\ scan.count \in Nat /\ scan'.count = scan.count + 1 /\ scan'.next = NextEntry(table, i)
            /\ scan'.c = Jump(scan.c, Data, e.length) /\ Data' = Data
            /\ scan'.c.at = IF scan.c.at + e.length < Len(Data) THEN scan.c.at + e.length ELSE Len(Data)
<1> DEFINE i == Match.entry
           e == table.entry[i]
           p == Location(scan.file, scan.c.at)
           asExpected == IF scan.count = 0 THEN e.num = 1 /\ scan.c.at = 0 ELSE i = scan.next
           id0 == IF scan.count = 0 THEN e.file ELSE scan.id
<1>1. /\ Scanning /\ i # 0 /\ stage = "scan" /\ scan.c.at < Len(Data)
      /\ UNCHANGED <<job, main, stage, todo, got, used, table, complete, failed, result, needed>>
      /\ found' = [found EXCEPT ![e.file][e.num] = p]
      /\ scan' = [scan EXCEPT !.id = id0, !.full = @ /\ asExpected, !.count = @ + 1,
                              !.next = NextEntry(table, i), !.c = Jump(@, Data, e.length)]
  BY DEF FindBlock, Scanning
<1>2. /\ ScanRight /\ scan.file \in DOMAIN job.disk /\ Data \in Seq(Byte) /\ CheckSummerInv(scan.c, Data)
      /\ scan.c.at \in Nat /\ stage \in Working
  BY <1>1, ScanningIs
<1>3. job \in Jobs /\ DOMAIN found = Known(got)
  BY <1>2, AtWork
<1>4. i \in 1 .. Len(table.entry)
  BY <1>1, MatchIs
<1> HIDE DEF i
<1>5. e.file \in Known(got) /\ e.num \in BlocksOf(e.file) /\ e.length \in 1 .. BlockSize
  BY <1>2, <1>4, EntryAtWork
<1>6. p.file = scan.file /\ IsSet(p)
  <2>1. p.file = scan.file
    BY <1>2, <1>3, PlaceIs
  <2>2. NoFile \notin DOMAIN job.disk
    BY <1>3, JobIs
  <2> QED BY <1>2, <2>1, <2>2 DEF IsSet
<1> HIDE DEF p, e, asExpected
<1>7. DOMAIN found' = Known(got) /\ found'[e.file] = [found[e.file] EXCEPT ![e.num] = p]
      /\ \A id \in Known(got) : id # e.file => found'[id] = found[id]
  BY <1>1, <1>3, <1>5
<1>8. DOMAIN found[e.file] = BlocksOf(e.file)
  BY <1>2, <1>5, SourceAtWork
<1>9. found'[e.file][e.num] = p /\ \A k \in BlocksOf(e.file) : k # e.num => found'[e.file][k] = found[e.file][k]
  BY <1>5, <1>7, <1>8
<1>10. \A id \in Known(got) : \A k \in BlocksOf(id) : id # e.file \/ k # e.num => found'[id][k] = found[id][k]
  BY <1>7, <1>9
<1>11. scan' = [file |-> scan.file, want |-> scan.want, id |-> id0, c |-> Jump(scan.c, Data, e.length),
                full |-> scan.full /\ asExpected, count |-> scan.count + 1, next |-> NextEntry(table, i), back |-> scan.back]
       /\ scan.count \in Nat
  BY <1>1, <1>2 DEF ScanRight
<1> HIDE DEF id0
<1>12. /\ scan'.file = scan.file /\ scan'.want = scan.want /\ scan'.back = scan.back
       /\ scan'.id = id0 /\ (scan'.full <=> scan.full /\ asExpected) /\ scan'.count = scan.count + 1
       /\ scan'.next = NextEntry(table, i) /\ scan'.c = Jump(scan.c, Data, e.length)
  BY <1>11
<1>13. Data' = Data
  BY <1>1, <1>12 DEF Data
<1>14. Jump(scan.c, Data, e.length).at = IF scan.c.at + e.length < Len(Data) THEN scan.c.at + e.length ELSE Len(Data)
  BY <1>1, <1>2, <1>5, JumpKeeps
<1> QED BY <1>1, <1>2, <1>4, <1>5, <1>6, <1>7, <1>9, <1>10, <1>11, <1>12, <1>13, <1>14 DEF i, e, asExpected, id0

\* and one that goes on.
LEMMA SkipOnIs ==
  ASSUME IInv, SkipOn
  PROVE  /\ Scanning /\ stage = "scan" /\ stage \in Working /\ Match.entry = 0
         /\ UNCHANGED <<job, main, stage, todo, got, used, table, found, complete, failed, result, needed>>
         /\ scan'.file = scan.file /\ scan'.want = scan.want /\ scan'.back = scan.back /\ ~scan'.full
<1>1. /\ Scanning /\ stage = "scan" /\ Match.entry = 0
      /\ UNCHANGED <<job, main, stage, todo, got, used, table, found, complete, failed, result, needed>>
      /\ \E c : scan' = [scan EXCEPT !.full = FALSE, !.next = 0, !.c = c]
  BY DEF SkipOn, Scanning
<1>2. ScanRight /\ stage \in Working
  BY <1>1, ScanningIs
<1>3. PICK c : scan' = [scan EXCEPT !.full = FALSE, !.next = 0, !.c = c]
  BY <1>1
<1>4. scan' = [file |-> scan.file, want |-> scan.want, id |-> scan.id, c |-> c, full |-> FALSE,
               count |-> scan.count, next |-> 0, back |-> scan.back]
  BY <1>2, <1>3 DEF ScanRight
<1> QED BY <1>1, <1>2, <1>4

\* The file has been scanned.
LEMMA EndScanIs ==
  ASSUME IInv, EndScan
  PROVE  /\ stage = "scan" /\ stage \in Working /\ ~Scanning /\ stage' = scan.back
         /\ UNCHANGED <<job, main, todo, got, used, table, failed, result, needed>>
         /\ FullMatch => complete' = [complete EXCEPT ![scan.id] = scan.file] /\ found' = found
         /\ \A id \in Known(got) : Checked(id) =>
              found'[id] = found[id] /\ (~FullMatch => complete'[id] = complete[id])
<1>1. /\ stage = "scan" /\ ~Scanning /\ stage' = scan.back
      /\ UNCHANGED <<job, main, todo, got, used, table, failed, result, needed>>
  BY DEF EndScan
<1>2. stage \in Working /\ DOMAIN found = Known(got) /\ DOMAIN complete = Known(got)
  <2>1. stage \in Working
    BY <1>1, ScanningIs
  <2> QED BY <2>1, AtWork
<1>3. ASSUME FullMatch PROVE complete' = [complete EXCEPT ![scan.id] = scan.file] /\ found' = found
  BY <1>3 DEF EndScan
<1>4. ASSUME ~FullMatch, NEW id \in Known(got), Checked(id) PROVE found'[id] = found[id] /\ complete'[id] = complete[id]
  <2>1. \/ found' = found /\ complete' = complete
        \/ \E full, first : LET matches == WholeMatches(full, first)
                                m == FileIds(got)[Min(matches)]
                            IN /\ matches # {}
                               /\ complete' = [complete EXCEPT ![m] = scan.file]
                               /\ \E h : found' = [found EXCEPT ![m] = h]
    <3>1. PICK full, first :
             LET matches == IF scan.count > 0 THEN {} ELSE WholeMatches(full, first)
                 m == FileIds(got)[Min(matches)]
             IN IF matches = {} THEN UNCHANGED <<complete, found>>
                ELSE /\ complete' = [complete EXCEPT ![m] = scan.file]
                     /\ found' = [found EXCEPT ![m] = [k \in DOMAIN @ |-> Location(scan.file, (k - 1) * BlockSize)]]
      BY <1>4 DEF EndScan
    <3>2. CASE scan.count > 0
      BY <3>1, <3>2
    <3>3. CASE ~(scan.count > 0)
      <4>1. CASE WholeMatches(full, first) = {}
        BY <3>1, <3>3, <4>1
      <4>2. CASE WholeMatches(full, first) # {}
        BY <3>1, <3>3, <4>2
      <4> QED BY <4>1, <4>2
    <3> QED BY <3>2, <3>3
  <2>2. CASE found' = found /\ complete' = complete
    BY <2>2
  <2>3. ASSUME NEW full, NEW first, NEW m, NEW h, WholeMatches(full, first) # {},
               m = FileIds(got)[Min(WholeMatches(full, first))],
               complete' = [complete EXCEPT ![m] = scan.file], found' = [found EXCEPT ![m] = h]
        PROVE  found'[id] = found[id] /\ complete'[id] = complete[id]
    <3> DEFINE matches == WholeMatches(full, first)
    <3>1. matches \subseteq DOMAIN FileIds(got) /\ \A n \in matches : ~Checked(FileIds(got)[n])
      BY DEF WholeMatches
    <3>2. DOMAIN FileIds(got) \subseteq Nat
      BY <1>2, AtWork, KnownIs
    <3> HIDE DEF matches
    <3>3. Min(matches) \in matches
      BY <2>3, <3>1, <3>2, MinIs DEF matches
    <3>4. m # id
      BY <1>4, <2>3, <3>1, <3>3 DEF matches
    <3> QED BY <1>2, <2>3, <3>4
  <2> QED BY <2>1, <2>2, <2>3
<1> QED BY <1>1, <1>2, <1>3, <1>4

\* What was found of a file stays found, and a block with a double where it was.
Stays(id) ==
  Checked(id) =>
    \A k \in BlocksOf(id) :
      /\ IsSet(found[id][k]) => IsSet(found'[id][k])
      /\ IsSet(found[id][k]) /\ k # BlockCount(DataOf(id))
         /\ (\E l \in BlocksOf(id) : k # l /\ Block(DataOf(id), k) = Block(DataOf(id), l))
         => found'[id][k] = found[id][k]

\* A file that has been looked for stays so while no block is given up.
LEMMA LookedStays ==
  ASSUME job' = job, got' = got, NEW id, Stays(id), Looked(id)
  PROVE  Looked(id)'
<1>1. /\ DataOf(id)' = DataOf(id) /\ Target(id)' = Target(id) /\ BlocksOf(id)' = BlocksOf(id)
      /\ (Checked(id)' <=> Checked(id)) /\ (Only(id)' <=> Only(id))
      /\ \A k : IntactTo(id, k)' <=> IntactTo(id, k)
  BY SameSources
<1>2. ASSUME Checked(id), Elsewhere(id) PROVE Elsewhere(id)'
  <2>1. PICK k \in BlocksOf(id), l \in BlocksOf(id) :
          /\ k # l /\ k # BlockCount(DataOf(id)) /\ Block(DataOf(id), k) = Block(DataOf(id), l)
          /\ found[id][k].file \notin {NoFile, Target(id)}
    BY <1>2 DEF Elsewhere
  <2>2. found'[id][k] = found[id][k]
    BY <1>2, <2>1 DEF Stays, IsSet
  <2>3. \E x, y \in BlocksOf(id)' :
          /\ x # y /\ x # BlockCount(DataOf(id)') /\ Block(DataOf(id)', x) = Block(DataOf(id)', y)
          /\ found'[id][x].file \notin {NoFile, Target(id)'}
    BY <1>1, <2>1, <2>2
  <2> QED BY <2>3 DEF Elsewhere
<1>3. SUFFICES ASSUME Checked(id)
      PROVE  \/ \A k \in BlocksOf(id) : IntactTo(id, k) => IsSet(found'[id][k])
             \/ Elsewhere(id)' \/ ~Only(id)
  <2>1. Looked(id)' <=> (Checked(id)' => \/ \A k \in BlocksOf(id)' : IntactTo(id, k)' => IsSet(found[id][k])'
                                        \/ Elsewhere(id)' \/ ~Only(id)')
    BY DEF Looked
  <2>2. \A k : IsSet(found[id][k])' <=> IsSet(found'[id][k])
    BY DEF IsSet
  <2> QED BY <1>1, <2>1, <2>2
<1>4. CASE Elsewhere(id) \/ ~Only(id)
  BY <1>2, <1>3, <1>4
<1>5. CASE \A k \in BlocksOf(id) : IntactTo(id, k) => IsSet(found[id][k])
  BY <1>3, <1>5 DEF Stays
<1> QED BY <1>3, <1>4, <1>5 DEF Looked

\* A block is found again only where nothing hangs on it.
LEMMA FindBlockStays ==
  ASSUME IInv, FullTable(got, table), FindBlock, NEW id \in Known(got)
  PROVE  Stays(id)
<1> DEFINE i == Match.entry
           e == table.entry[i]
           n == Len(table.entry)
<1>1. /\ i \in 1 .. n /\ e.file \in Known(got) /\ e.num \in BlocksOf(e.file) /\ Scanning /\ stage = "scan"
      /\ stage \in Working /\ IsSet(found'[e.file][e.num])
      /\ \A x \in Known(got) : \A k \in BlocksOf(x) : x # e.file \/ k # e.num => found'[x][k] = found[x][k]
  BY FindBlockIs
<1>2. SUFFICES ASSUME Checked(id), NEW k \in BlocksOf(id), IsSet(found[id][k]), id = e.file, k = e.num,
                      k # BlockCount(DataOf(id)),
                      NEW l \in BlocksOf(id), k # l, Block(DataOf(id), k) = Block(DataOf(id), l)
               PROVE  FALSE
  <2> HIDE DEF e, i, n
  <2> QED BY <1>1 DEF Stays
<1>3. /\ n \in Nat /\ DOMAIN table.entry = 1 .. n /\ IsTable(table, Cores(got), n)
  BY <1>1, AtWork
<1>4. PlaceOf(i) = found[id][k] /\ e.hash = Block(DataOf(id), k) /\ ~e.last
  BY <1>1, <1>2, EntryAtWork
<1>5. i \in Taken
  BY <1>1, <1>2, <1>3, <1>4 DEF Taken
<1>6. PICK j \in 1 .. n : IsOf(table, j, id, l)
  <2>1. CheckedIn(got, id) /\ BlocksOf(id) = 1 .. BlockCount(DescIn(got, id).data)
    BY <1>1, <1>2, SourceAtWork DEF Checked, BlocksOf
  <2> QED BY <1>2, <2>1 DEF FullTable, HasFile
<1>7. table.entry[j].hash = Block(DataOf(id), l) /\ table.entry[j].num = l
  BY <1>1, <1>6, EntryAtWork DEF IsOf
<1>8. Data \in Seq(Byte) /\ CheckSummerInv(scan.c, Data) /\ scan.c.at < Len(Data)
  BY <1>1, ScanningIs DEF Scanning
<1>9. FindMatch(table, scan.next, scan.id, scan.c, Data, Taken, Here, Whole).entry = i
  BY DEF Match
<1>10. table.entry[i].last \/ \A x \in 1 .. n : table.entry[x].hash = table.entry[i].hash => x = i
  <2> HIDE DEF i, n
  <2> QED BY <1>1, <1>3, <1>5, <1>8, <1>9, MatchFresh DEF FullTable
<1>11. j = i
  BY <1>2, <1>4, <1>7, <1>10
<1> QED BY <1>2, <1>7, <1>11

\* The end of a scan gives up no block of a file that can be verified.
LEMMA EndScanStays ==
  ASSUME IInv, EndScan, NEW id \in Known(got)
  PROVE  Stays(id)
<1>1. Checked(id) => found'[id] = found[id]
  BY EndScanIs
<1> QED BY <1>1 DEF Stays

\* The last block ends where the file ends.
LEMMA LastBlock ==
  ASSUME NEW data \in Seq(Byte), NEW k \in 1 .. BlockCount(data), k = BlockCount(data)
  PROVE  (k - 1) * BlockSize + Len(BlockBytes(data, k)) >= Len(data)
<1>1. k \in Nat /\ 1 <= k /\ Len(data) \in Nat /\ BlockSize \in Nat /\ 1 <= BlockSize
  BY BlockStarts, BlockSizeIs, LenProperties
<1>2. (k - 1) * BlockSize \in Nat /\ k * BlockSize \in Nat /\ (k - 1) * BlockSize + BlockSize = k * BlockSize
  BY <1>1, BlockEnds
<1> DEFINE a == Len(data) + BlockSize - 1
           l == Len(BlockBytes(data, k))
           from == (k - 1) * BlockSize
<1>3. k = a \div BlockSize /\ a \in Nat
  BY <1>1 DEF BlockCount
<1>4. a < k * BlockSize + BlockSize
  BY <1>1, <1>3, DivIs
<1>5. Len(data) <= k * BlockSize
  BY <1>1, <1>2, <1>4
<1>6. l = IF Len(data) - from < BlockSize THEN Len(data) - from ELSE BlockSize
  BY BlockIs DEF LengthOf
<1> HIDE DEF l, from
<1>7. from \in Nat /\ from + BlockSize = k * BlockSize
  BY <1>2 DEF from
<1>8. from + l >= Len(data)
  BY <1>1, <1>5, <1>6, <1>7
<1> QED BY <1>8 DEF from, l

\* One block of a file that is followed.
LEMMA FollowOn ==
  ASSUME IInv, FullTable(got, table), FindBlock, NEW id \in Known(got), Checked(id), OnTrack(id),
         IsOf(table, Match.entry, id, scan.count + 1)
  PROVE  /\ scan'.id = id /\ (scan.full => scan'.full) /\ scan'.count \in BlocksOf(id)
         /\ scan'.count = scan.count + 1
         /\ \A k \in BlocksOf(id) : k # scan'.count => found'[id][k] = found[id][k]
         /\ \A k \in 1 .. scan'.count : IsSet(found'[id][k])
         /\ IF scan'.count = BlockCount(DataOf(id))
            THEN scan'.next = 0 /\ (Data = DataOf(id) => scan'.c.at = Len(Data))
            ELSE OnTrack(id)'
<1> DEFINE i == Match.entry
           e == table.entry[i]
           p == scan.count
           k == p + 1
           own == DataOf(id)
           m == BlockCount(own)
<1>1. /\ i \in 1 .. Len(table.entry) /\ stage = "scan" /\ stage \in Working /\ Scanning
      /\ job' = job /\ got' = got /\ table' = table
      /\ found'[e.file][e.num].file = scan.file /\ IsSet(found'[e.file][e.num])
      /\ \A x \in Known(got) : \A y \in BlocksOf(x) : x # e.file \/ y # e.num => found'[x][y] = found[x][y]
      /\ scan'.file = scan.file
      /\ scan'.id = IF p = 0 THEN e.file ELSE scan.id
      /\ scan'.full <=> scan.full /\ IF p = 0 THEN e.num = 1 /\ scan.c.at = 0 ELSE i = scan.next
      /\ p \in Nat /\ scan'.count = p + 1 /\ scan'.next = NextEntry(table, i) /\ Data' = Data
      /\ scan'.c.at = IF scan.c.at + e.length < Len(Data) THEN scan.c.at + e.length ELSE Len(Data)
  BY FindBlockIs
<1>2. /\ e.file = id /\ e.num = k
  BY DEF IsOf
<1>3. /\ p < m /\ scan.id = id
      /\ scan.c.at = IF p * BlockSize < Len(Data) THEN p * BlockSize ELSE Len(Data)
      /\ p = 0 => scan.next = 0 /\ scan.c = Start(Data)
      /\ p # 0 => IsOf(table, scan.next, id, p + 1)
      /\ \A j \in 1 .. p : IsSet(found[id][j])
      /\ \A j \in p + 1 .. m : found[id][j].file # scan.file
  BY DEF OnTrack
<1>4. own \in Seq(Byte) /\ m \in Nat /\ BlocksOf(id) = 1 .. m
  BY <1>1, SourceAtWork DEF BlocksOf
<1>5. k \in 1 .. m /\ k \in Nat /\ 1 <= k /\ k - 1 = p
  BY <1>1, <1>3, <1>4
<1>6. Len(Data) \in Nat /\ scan.c.at < Len(Data) /\ scan.c.at \in Nat /\ Data \in Seq(Byte)
  BY <1>1, ScanningIs DEF Scanning
<1>7. p * BlockSize \in Nat /\ k * BlockSize \in Nat /\ p * BlockSize + BlockSize = k * BlockSize
  BY <1>5, BlockEnds
<1>8. scan.c.at = p * BlockSize
  BY <1>3, <1>6, <1>7
<1>9. e.length = Len(BlockBytes(own, k))
  BY <1>1, <1>2, EntryAtWork
<1>10. scan.full => scan'.full
  <2>1. CASE p = 0
    BY <1>1, <1>2, <1>3, <1>6, <2>1, StartRight
  <2>2. CASE p # 0
    <3>1. IsOf(table, scan.next, id, k)
      BY <1>3, <2>2
    <3>2. Len(table.entry) \in Nat
      BY <1>1, AtWork
    <3>3. scan.next = i
      BY <1>5, <3>1, <3>2, OneEntry DEF FullTable
    <3> QED BY <1>1, <2>2, <3>3
  <2> QED BY <2>1, <2>2
<1>11. scan'.id = id
  BY <1>1, <1>2, <1>3
<1>12. \A x \in BlocksOf(id) : x # k => found'[id][x] = found[id][x]
  BY <1>1, <1>2
<1>13. \A x \in 1 .. k : IsSet(found'[id][x])
  <2>1. IsSet(found'[id][k])
    BY <1>1, <1>2
  <2>2. ASSUME NEW x \in 1 .. k, x # k PROVE IsSet(found'[id][x])
    <3>1. x \in 1 .. p /\ x \in BlocksOf(id)
      BY <1>1, <1>3, <1>4, <1>5, <2>2
    <3> QED BY <1>3, <1>12, <2>2, <3>1
  <2> QED BY <2>1, <2>2
<1>14. IF k = m THEN NextEntry(table, i) = 0 ELSE IsOf(table, NextEntry(table, i), id, k + 1)
  BY <1>1, <1>4, <1>5, EntryAfter
<1>15. ASSUME k = m, Data = own PROVE scan'.c.at = Len(Data)
  <2>1. p * BlockSize + Len(BlockBytes(own, k)) >= Len(own)
    BY <1>4, <1>5, <1>15, LastBlock
  <2>2. e.length \in Nat
    BY <1>4, <1>5, <1>9, BlockIs
  <2> HIDE DEF e
  <2>3. ~(scan.c.at + e.length < Len(Data))
    BY <1>6, <1>8, <1>9, <1>15, <2>1, <2>2
  <2> QED BY <1>1, <2>3 DEF e
<1>16. ASSUME k # m PROVE OnTrack(id)'
  <2>1. e.length = BlockSize
    BY <1>4, <1>5, <1>9, <1>16, FullBlock
  <2>2. scan'.c.at = IF k * BlockSize < Len(Data) THEN k * BlockSize ELSE Len(Data)
    BY <1>1, <1>7, <1>8, <2>1
  <2>3. \A j \in k + 1 .. m : found'[id][j].file # scan.file
    <3> SUFFICES ASSUME NEW j \in k + 1 .. m PROVE found'[id][j].file # scan.file
      OBVIOUS
    <3>1. j \in p + 1 .. m /\ j \in 1 .. m /\ j # k
      BY <1>1, <1>5
    <3> QED BY <1>3, <1>4, <1>12, <3>1
  <2>4. DataOf(id)' = own
    BY <1>1, SameSources
  <2>5. k < m /\ k # 0
    BY <1>1, <1>3, <1>4, <1>16
  <2>6. IsOf(table, scan'.next, id, k + 1)
    BY <1>1, <1>14, <1>16
  <2> DEFINE q == scan'.count
  <2>7. /\ q < m /\ scan'.id = id
        /\ scan'.c.at = IF q * BlockSize < Len(Data) THEN q * BlockSize ELSE Len(Data)
        /\ q # 0
        /\ IsOf(table, scan'.next, id, q + 1)
        /\ \A j \in 1 .. q : IsSet(found'[id][j])
        /\ \A j \in q + 1 .. m : found'[id][j].file # scan'.file
    BY <1>1, <1>11, <1>13, <2>2, <2>3, <2>5, <2>6
  <2> HIDE DEF q, m, own
  <2>8. IsOf(table', scan'.next, id, q + 1)
    BY <1>1, <2>7
  <2>9. \A j \in 1 .. q : IsSet(found[id][j])'
    BY <2>7 DEF IsSet
  <2> QED BY <1>1, <2>4, <2>7, <2>8, <2>9 DEF OnTrack, q, m, own
<1> HIDE DEF i, e
<1> QED BY <1>1, <1>4, <1>5, <1>10, <1>11, <1>12, <1>13, <1>14, <1>15, <1>16

-----------------------------------------------------------------------------
(* The scans of the source files leave nothing behind. *)

\* The fields of diskFileMap.
UsedIs == used = [pars |-> used.pars, files |-> used.files]

\* A file that could be opened.
Opened(file, id, from) ==
  /\ stage' = "scan" /\ file \in used'.files /\ failed' = failed
  /\ scan'.file = file /\ scan'.want = id /\ scan'.id = id /\ scan'.back = from
  /\ scan'.full /\ scan'.count = 0 /\ scan'.next = 0 /\ scan'.c = Start(job.disk[file])

\* Open() begins a scan, or fails.
LEMMA OpenOpens ==
  ASSUME UsedIs, NEW file, NEW id, NEW from, Open(file, id, from)
  PROVE  /\ UsedIs' /\ used.files \subseteq used'.files
         /\ \/ Opened(file, id, from)
            \/ UNCHANGED <<stage, scan>> /\ (failed' <=> failed \/ id # 0)
<1>1. used' = [pars |-> used.pars, files |-> used.files \cup {file}]
  <2>1. used' = [used EXCEPT !.files = @ \cup {file}]
    BY DEF Open
  <2> DEFINE x == used.pars
             y == used.files
  <2>2. used = [pars |-> x, files |-> y]
    BY DEF UsedIs
  <2> HIDE DEF x, y
  <2>3. [used EXCEPT !.files = @ \cup {file}] = [pars |-> x, files |-> y \cup {file}]
    BY <2>2
  <2> QED BY <2>1, <2>3 DEF x, y
<1>2. UsedIs' /\ used.files \subseteq used'.files /\ file \in used'.files
  BY <1>1 DEF UsedIs
<1>3. CASE ~Reads(file)
  BY <1>2, <1>3 DEF Open
<1>4. CASE Reads(file)
  <2> DEFINE data == job.disk[file]
  <2>1. /\ stage' = "scan" /\ failed' = failed
        /\ scan' = [NoScan EXCEPT !.file = file, !.want = id, !.id = id, !.back = from, !.c = Start(data)]
    BY <1>4 DEF Open
  <2>2. scan' = [file |-> file, want |-> id, id |-> id, c |-> Start(data), full |-> TRUE, count |-> 0,
                 next |-> 0, back |-> from]
    BY <2>1 DEF NoScan
  <2> HIDE DEF data
  <2>3. /\ scan'.file = file /\ scan'.want = id /\ scan'.id = id /\ scan'.back = from
        /\ scan'.full /\ scan'.count = 0 /\ scan'.next = 0 /\ scan'.c = Start(data)
    BY <2>2
  <2>4. Opened(file, id, from)
    BY <1>2, <2>1, <2>3 DEF Opened, data
  <2> QED BY <1>2, <2>4
<1> QED BY <1>2, <1>3, <1>4

\* What the steps before the scans do.
LEMMA PrepareIs ==
  ASSUME IInv, Prepare
  PROVE  /\ UNCHANGED <<job, used, failed>> /\ stage = "load" /\ stage' \in {"sources", "report"} /\ ~Verified'
         /\ stage' = "sources" =>
              /\ FullTable(got', table') /\ todo' = {<<DescIn(got', id).name, id>> : id \in Known(got')}
              /\ \A id \in Known(got') :
                   /\ complete'[id] = NoFile
                   /\ \A k \in 1 .. BlockCount(DescIn(got', id).data) : found'[id][k] = Nowhere
<1> DEFINE g == Consistent(got)
           ids == Known(g)
<1>1. /\ stage = "load" /\ UNCHANGED <<job, used, failed>> /\ job \in Jobs /\ got \in Gots(Packets(job))
      /\ IF got.main = None
         THEN result' = "eInsufficientCriticalData" /\ stage' = "report"
         ELSE /\ got' = g
              /\ found' = [id \in ids |-> NoBlocks(DescIn(g, id).data)]
              /\ complete' = [id \in ids |-> NoFile]
              /\ table' = LoadSources(g)
              /\ IF ids = Range(FileIds(g))
                 THEN /\ stage' = "sources" /\ todo' = {<<DescIn(g, id).name, id>> : id \in ids}
                      /\ UNCHANGED result
                 ELSE stage' = "report" /\ result' = "eFileIOError"
  BY DEF Prepare, IInv, JobRight
<1>2. ~Verified
  BY <1>1, NoAnswer
<1> HIDE DEF g, ids
<1>3. stage' \in {"sources", "report"} /\ ~Verified'
  BY <1>1, <1>2 DEF Verified
<1>4. SUFFICES ASSUME stage' = "sources"
      PROVE  /\ FullTable(got', table') /\ todo' = {<<DescIn(got', id).name, id>> : id \in Known(got')}
             /\ \A id \in Known(got') :
                  /\ complete'[id] = NoFile
                  /\ \A k \in 1 .. BlockCount(DescIn(got', id).data) : found'[id][k] = Nowhere
  BY <1>1, <1>3
<1>5. /\ got.main # None /\ got' = g /\ table' = LoadSources(g)
      /\ found' = [id \in ids |-> NoBlocks(DescIn(g, id).data)] /\ complete' = [id \in ids |-> NoFile]
      /\ todo' = {<<DescIn(g, id).name, id>> : id \in ids}
  BY <1>1, <1>4
<1>6. g \in Gots(Packets(job)) /\ Sized(g) /\ g.main \in MainPacket
  <2>1. g \in Gots(Packets(job)) /\ Sized(g) /\ g.main = got.main
    BY <1>1, ConsistentKeeps DEF g
  <2> QED BY <1>1, <1>5, <2>1, GotFields
<1>7. FullTable(g, LoadSources(g))
  <2>1. Truthful(Packets(job))
    BY <1>1, JobIs
  <2> QED BY <1>6, <2>1, LoadSourcesFull
<1>8. ASSUME NEW id \in Known(g)
      PROVE  complete'[id] = NoFile /\ \A k \in 1 .. BlockCount(DescIn(g, id).data) : found'[id][k] = Nowhere
  <2>1. complete'[id] = NoFile /\ found'[id] = NoBlocks(DescIn(g, id).data)
    BY <1>5 DEF ids
  <2> QED BY <2>1 DEF NoBlocks
<1> QED BY <1>5, <1>7, <1>8 DEF ids

\* One turn of VerifySourceFiles().
LEMMA VerifySourceIs ==
  ASSUME IInv, UsedIs, VerifySource
  PROVE  LET id == Least(todo)[2]
             file == Target(id)
         IN /\ Least(todo) \in todo /\ todo' = todo \ {Least(todo)} /\ stage = "sources" /\ stage \in Working
            /\ UNCHANGED <<job, got, table, found, complete>> /\ ~Verified' /\ UsedIs' /\ used.files \subseteq used'.files
            /\ \/ stage' = "report"
               \/ stage' = "sources" /\ (failed' <=> failed) /\ file \notin DOMAIN job.disk
               \/ stage' = "sources" /\ (failed' <=> failed \/ id # 0)
               \/ Opened(file, id, "sources") /\ file \notin used.files /\ file \in DOMAIN job.disk
<1> DEFINE id == Least(todo)[2]
           file == Target(id)
<1>1. /\ stage = "sources" /\ stage \in Working /\ todo # {} /\ todo' = todo \ {Least(todo)}
      /\ UNCHANGED <<job, main, got, table, found, complete, needed>>
  BY DEF VerifySource, Working
<1>2. todo \in SUBSET (Nat \X Nat) /\ ~Verified
  BY <1>1, WorkingIs
<1>3. Least(todo) \in todo
  BY <1>1, <1>2, LeastIs
<1>4. /\ UsedIs' /\ used.files \subseteq used'.files /\ ~Verified'
      /\ \/ stage' = "report"
         \/ stage' = "sources" /\ (failed' <=> failed) /\ file \notin DOMAIN job.disk
         \/ stage' = "sources" /\ (failed' <=> failed \/ id # 0)
         \/ Opened(file, id, "sources") /\ file \notin used.files /\ file \in DOMAIN job.disk
  <2>1. CASE IsUsed(file)
    BY <2>1 DEF VerifySource, UsedIs, Verified
  <2>2. CASE ~IsUsed(file) /\ file \in DOMAIN job.disk
    <3>1. Open(file, id, "sources") /\ result' = result
      BY <2>2 DEF VerifySource
    <3> HIDE DEF file, id
    <3>2. file \notin used.files
      BY <2>2 DEF IsUsed
    <3> QED BY <1>1, <1>2, <2>2, <3>1, <3>2, OpenOpens DEF Verified
  <2>3. CASE ~IsUsed(file) /\ file \notin DOMAIN job.disk
    BY <1>1, <1>2, <2>3 DEF VerifySource, UsedIs, Verified
  <2> QED BY <2>1, <2>2, <2>3
<1> QED BY <1>1, <1>3, <1>4

\* The steps between and after the scans.
LEMMA NextExtraIs ==
  ASSUME IInv, UsedIs, NextExtra
  PROVE  /\ stage = "extra" /\ stage \in Working /\ UNCHANGED <<job, got, table, found, complete, result>>
         /\ UsedIs' /\ used.files \subseteq used'.files
         /\ stage' = "extra" \/ \E file : Opened(file, 0, "extra")
<1> DEFINE x == Least(todo)
           file == <<NameAt(x[1]), x[2] - 1>>
<1>1. /\ stage = "extra" /\ stage \in Working /\ UNCHANGED <<job, got, table, found, complete, result>>
      /\ IF x[2] = 0 \/ IsUsed(file) THEN UNCHANGED <<stage, used, scan, failed>> ELSE Open(file, 0, "extra")
  BY DEF NextExtra, Working
<1>2. CASE x[2] = 0 \/ IsUsed(file)
  BY <1>1, <1>2 DEF UsedIs
<1>3. CASE ~(x[2] = 0 \/ IsUsed(file))
  <2>1. Open(file, 0, "extra")
    BY <1>1, <1>3
  <2> HIDE DEF file
  <2> QED BY <1>1, <2>1, OpenOpens
<1> QED BY <1>2, <1>3

\* Nothing is being looked for before the packets have been read, or after a
\* failure: the other steps, of which only one ends the work with an answer.
Idles ==
  /\ UsedIs => UsedIs'
  /\ \/ stage' \notin Working /\ ~Verified'
     \/ stage' \notin Working /\ (Verified' => Verified) /\ UNCHANGED <<job, got, found, complete, result>>

\* Loading and reporting touch none of this.
LEMMA OthersIdle ==
  ASSUME IInv, Load \/ Report
  PROVE  Idles
<1>1. CASE Load
  <2>1. /\ stage = "load" /\ stage' = stage /\ result' = result
        /\ \/ used' = used
           \/ \E x : used' = [used EXCEPT !.pars = x]
    BY <1>1 DEF Load
  <2>2. UsedIs => UsedIs'
    <3>1. SUFFICES ASSUME UsedIs, NEW x, used' = [used EXCEPT !.pars = x] PROVE UsedIs'
      BY <2>1 DEF UsedIs
    <3> DEFINE y == used.files
    <3>2. used = [pars |-> used.pars, files |-> y]
      BY <3>1 DEF UsedIs
    <3> HIDE DEF y
    <3>3. used' = [pars |-> x, files |-> y]
      BY <3>1, <3>2
    <3> QED BY <3>3 DEF UsedIs
  <2>3. ~Verified
    BY <2>1, NoAnswer
  <2> QED BY <2>1, <2>2, <2>3 DEF Idles, Working, Verified
<1>2. CASE Report
  <2>1. /\ stage = "report" /\ UNCHANGED <<job, scan, result>>
        /\ \/ stage' = "done" /\ UNCHANGED <<main, todo, got, used, table, found, complete, failed>>
           \/ ~Verified /\ Begin(main + 1)
    BY <1>2 DEF Report
  <2>2. CASE stage' = "done" /\ UNCHANGED <<main, todo, got, used, table, found, complete, failed>>
    BY <2>1, <2>2 DEF Idles, Working, Verified, UsedIs
  <2>3. CASE ~Verified /\ Begin(main + 1)
    <3>1. stage' = "load" /\ used' = [pars |-> {}, files |-> {}]
      BY <2>3 DEF Begin
    <3> QED BY <2>1, <2>3, <3>1 DEF Idles, Working, Verified, UsedIs
  <2> QED BY <2>1, <2>2, <2>3
<1> QED BY <1>1, <1>2

\* Between the stages nothing that was found is changed.
LEMMA BetweenIs ==
  ASSUME IInv, EndSources \/ EndExtra \/ Decide
  PROVE  /\ stage \in {"sources", "extra", "result"} /\ UNCHANGED <<job, got, used, table, found, complete>>
         /\ stage' \in {"extra", "result", "report"} /\ (~Decide => ~Verified')
         /\ stage' # "report" => ~Decide /\ (stage = "sources" => todo = {} /\ ~failed)
<1>1. CASE EndSources
  <2>1. stage = "sources" /\ ~Verified
    <3>1. stage = "sources"
      BY <1>1 DEF EndSources
    <3> QED BY <3>1, NoAnswer
  <2> QED BY <1>1, <2>1 DEF EndSources, Decide, Verified
<1>2. CASE EndExtra
  <2>1. stage = "extra" /\ ~Verified
    <3>1. stage = "extra"
      BY <1>2 DEF EndExtra
    <3> QED BY <3>1, NoAnswer
  <2> QED BY <1>2, <2>1 DEF EndExtra, Decide, Verified
<1>3. CASE Decide
  BY <1>3 DEF Decide
<1> QED BY <1>1, <1>2, <1>3

\* A full match that goes on is that of a source file, block by block.
Chain ==
  scan.count > 0 /\ scan.full /\ Checked(scan.id) =>
    LET p == scan.count
        m == BlockCount(DataOf(scan.id))
    IN /\ p <= m /\ \A j \in 1 .. p : IsSet(found[scan.id][j])
       /\ IF p = m THEN scan.next = 0 ELSE IsOf(table, scan.next, scan.id, p + 1)

\* Of a complete file all blocks are found,
CompleteFound ==
  \A id \in Known(got) : Checked(id) /\ complete[id] # NoFile => \A k \in BlocksOf(id) : IsSet(found[id][k])

\* and blocks are found in files that have been opened.
UsedRight ==
  /\ \A id \in Known(got) : Checked(id) => \A k \in BlocksOf(id) : found[id][k].file \in used.files \cup {NoFile}
  /\ stage = "scan" => scan.file \in used.files

\* What is found can be traced: to the table, and to a file that was opened.
Traced ==
  /\ UsedIs
  /\ stage \in Working =>
       /\ FullTable(got, table) /\ UsedRight /\ CompleteFound
       /\ stage = "scan" => Chain

\* What was found stays, and nothing is new.
LEMMA TracedStays ==
  ASSUME Traced, stage \in Working, UNCHANGED <<job, got, table, found, complete>>,
         UsedIs', used.files \subseteq used'.files,
         stage' = "scan" => scan'.file \in used'.files /\ Chain'
  PROVE  Traced'
<1>1. FullTable(got, table) /\ UsedRight /\ CompleteFound
  BY DEF Traced
<1>2. /\ (Known(got))' = Known(got)
      /\ \A id : DataOf(id)' = DataOf(id) /\ BlocksOf(id)' = BlocksOf(id) /\ (Checked(id)' <=> Checked(id))
  BY SameSources
<1>3. FullTable(got, table)'
  BY <1>1
<1>4. CompleteFound'
  BY <1>1, <1>2 DEF CompleteFound, IsSet
<1>5. UsedRight'
  BY <1>1, <1>2 DEF UsedRight
<1> QED BY <1>3, <1>4, <1>5 DEF Traced

\* A scan begins with no match.
LEMMA OpenedChain ==
  ASSUME NEW file, NEW id, NEW from, Opened(file, id, from)
  PROVE  Chain' /\ scan'.file \in used'.files
<1>1. scan'.count = 0 /\ scan'.file \in used'.files
  BY DEF Opened
<1> QED BY <1>1 DEF Chain

\* The steps keep it: first nothing is found,
LEMMA PrepareTraces ==
  ASSUME IInv, Traced, Prepare
  PROVE  Traced'
<1>1. /\ used' = used /\ stage' \in {"sources", "report"}
      /\ stage' = "sources" =>
           /\ FullTable(got', table')
           /\ \A id \in Known(got') :
                /\ complete'[id] = NoFile
                /\ \A k \in 1 .. BlockCount(DescIn(got', id).data) : found'[id][k] = Nowhere
  BY PrepareIs
<1>2. UsedIs'
  BY <1>1 DEF Traced, UsedIs
<1>3. Nowhere.file = NoFile
  BY DEF Nowhere, Location
<1>4. ASSUME stage' = "sources" PROVE UsedRight' /\ CompleteFound'
  <2>1. \A id : BlocksOf(id)' = 1 .. BlockCount(DescIn(got', id).data)
    BY DEF BlocksOf, DataOf, Description
  <2> QED BY <1>1, <1>3, <1>4, <2>1 DEF UsedRight, CompleteFound
<1> QED BY <1>1, <1>2, <1>4 DEF Traced, Working

\* then a match goes on from the one before, or begins anew;
LEMMA FindBlockTraces ==
  ASSUME IInv, Traced, FindBlock
  PROVE  Traced'
<1> DEFINE i == Match.entry
           e == table.entry[i]
           p == scan.count
           id == scan'.id
           m == BlockCount(DataOf(id))
<1>1. /\ i \in 1 .. Len(table.entry) /\ e.file \in Known(got) /\ e.num \in BlocksOf(e.file)
      /\ stage = "scan" /\ stage \in Working /\ Scanning
      /\ UNCHANGED <<job, stage, got, used, table, complete>>
      /\ found'[e.file][e.num].file = scan.file /\ IsSet(found'[e.file][e.num])
      /\ \A x \in Known(got) : \A k \in BlocksOf(x) : x # e.file \/ k # e.num => found'[x][k] = found[x][k]
      /\ scan'.file = scan.file
      /\ scan'.id = IF p = 0 THEN e.file ELSE scan.id
      /\ scan'.full <=> scan.full /\ IF p = 0 THEN e.num = 1 /\ scan.c.at = 0 ELSE i = scan.next
      /\ p \in Nat /\ scan'.count = p + 1 /\ scan'.next = NextEntry(table, i)
  BY FindBlockIs
<1> HIDE DEF i
<1>2. FullTable(got, table) /\ UsedRight /\ CompleteFound /\ Chain /\ UsedIs
  BY <1>1 DEF Traced
<1>3. /\ (Known(got))' = Known(got)
      /\ \A x : DataOf(x)' = DataOf(x) /\ BlocksOf(x)' = BlocksOf(x) /\ (Checked(x)' <=> Checked(x))
  BY <1>1, SameSources
<1>4. UsedIs' /\ FullTable(got, table)'
  BY <1>1, <1>2 DEF UsedIs
<1>5. ASSUME NEW x \in Known(got), NEW k \in BlocksOf(x)
      PROVE  /\ IsSet(found[x][k]) => IsSet(found'[x][k])
             /\ found'[x][k].file \in {found[x][k].file, scan.file}
  BY <1>1
<1>6. CompleteFound'
  <2>1. ASSUME NEW x \in Known(got), Checked(x), complete'[x] # NoFile, NEW k \in BlocksOf(x) PROVE IsSet(found'[x][k])
    BY <1>1, <1>2, <1>5, <2>1 DEF CompleteFound
  <2> QED BY <1>3, <2>1 DEF CompleteFound, IsSet
<1>7. UsedRight'
  <2>1. \A x \in Known(got) : Checked(x) => \A k \in BlocksOf(x) : found'[x][k].file \in used'.files \cup {NoFile}
    BY <1>1, <1>2, <1>5 DEF UsedRight
  <2>2. scan'.file \in used'.files
    BY <1>1, <1>2 DEF UsedRight
  <2> QED BY <1>3, <2>1, <2>2 DEF UsedRight
<1>8. Chain'
  <2>1. SUFFICES ASSUME scan'.full, Checked(id)
                 PROVE  /\ p + 1 <= m /\ \A j \in 1 .. p + 1 : IsSet(found'[id][j])
                        /\ IF p + 1 = m THEN scan'.next = 0 ELSE IsOf(table, scan'.next, id, p + 1 + 1)
    <3> DEFINE q == scan'.count
               n == scan'.next
    <3>1. q = p + 1 /\ table' = table
      BY <1>1
    <3>2. (Checked(id) <=> Checked(scan.id)') /\ m = BlockCount(DataOf(scan.id)')
      <4>1. \A x : Checked(x) <=> (\E y \in got'.verify : y.id = x)
        BY <1>1 DEF Checked, CheckedIn
      <4>2. \A x : DataOf(x) = DescIn(got', x).data
        BY <1>1 DEF DataOf, Description
      <4> QED BY <4>1, <4>2 DEF Checked, CheckedIn, DataOf, Description
    <3>3. \A j : IsSet(found'[id][j]) <=> IsSet(found[scan.id][j])'
      BY DEF IsSet
    <3> QED BY <1>1, <3>1, <3>2, <3>3 DEF Chain
  <2>2. id \in Known(got) /\ e.file = id /\ e.num = p + 1 /\ \A j \in 1 .. p : IsSet(found[id][j])
    <3>1. CASE p = 0
      BY <1>1, <2>1, <3>1
    <3>2. CASE p # 0
      <4>1. p > 0 /\ scan.full /\ i = scan.next /\ id = scan.id
        BY <1>1, <2>1, <3>2
      <4>2. id \in Known(got)
        BY <1>1, <4>1, ScanningIs DEF ScanRight
      <4>3. /\ \A j \in 1 .. p : IsSet(found[id][j])
            /\ IF p = m THEN scan.next = 0 ELSE IsOf(table, scan.next, id, p + 1)
        BY <1>2, <2>1, <4>1 DEF Chain
      <4>4. Len(table.entry) \in Nat
        BY <1>1, AtWork
      <4> HIDE DEF id, m, p
      <4>5. i # 0
        BY <1>1, <4>4
      <4>6. IsOf(table, i, id, p + 1)
        BY <4>1, <4>3, <4>5
      <4> QED BY <4>2, <4>3, <4>6 DEF IsOf
    <3> QED BY <3>1, <3>2
  <2>3. m \in Nat /\ BlocksOf(id) = 1 .. m /\ p + 1 \in BlocksOf(id)
    BY <1>1, <2>2, SourceAtWork DEF BlocksOf
  <2>4. IsOf(table, i, id, p + 1)
    BY <1>1, <2>2 DEF IsOf
  <2>5. IF p + 1 = m THEN NextEntry(table, i) = 0 ELSE IsOf(table, NextEntry(table, i), id, p + 1 + 1)
    BY <1>1, <1>2, <2>1, <2>2, <2>3, <2>4, EntryAfter
  <2>6. ASSUME NEW j \in 1 .. p + 1 PROVE IsSet(found'[id][j])
    <3>1. j \in BlocksOf(id)
      BY <1>1, <2>3
    <3>2. CASE j = p + 1
      BY <1>1, <2>2, <3>2
    <3>3. CASE j # p + 1
      <4>1. j \in 1 .. p
        BY <1>1, <3>3
      <4> QED BY <1>5, <2>2, <3>1, <4>1
    <3> QED BY <3>2, <3>3
  <2> QED BY <1>1, <2>3, <2>5, <2>6
<1> QED BY <1>4, <1>6, <1>7, <1>8 DEF Traced

\* no match ends a full match,
LEMMA SkipOnTraces ==
  ASSUME IInv, Traced, SkipOn
  PROVE  Traced'
<1>1. /\ stage = "scan" /\ stage \in Working /\ UNCHANGED <<job, got, used, table, found, complete>>
      /\ scan'.file = scan.file /\ ~scan'.full
  BY SkipOnIs
<1>2. scan.file \in used.files /\ UsedIs
  BY <1>1 DEF Traced, UsedRight
<1>3. Chain' /\ UsedIs' /\ scan'.file \in used'.files
  BY <1>1, <1>2 DEF Chain, UsedIs
<1> QED BY <1>1, <1>3, TracedStays

\* and a file is complete when a full match came to its end.
LEMMA EndScanTraces ==
  ASSUME IInv, Traced, EndScan
  PROVE  Traced'
<1>1. /\ stage = "scan" /\ stage \in Working /\ ~Scanning /\ stage' = scan.back
      /\ UNCHANGED <<job, got, used, table>>
      /\ FullMatch => complete' = [complete EXCEPT ![scan.id] = scan.file] /\ found' = found
      /\ \A id \in Known(got) : Checked(id) =>
           found'[id] = found[id] /\ (~FullMatch => complete'[id] = complete[id])
  BY EndScanIs
<1>2. scan.back \in {"sources", "extra"}
  BY <1>1, ScanningIs DEF ScanRight
<1>3. FullTable(got, table) /\ UsedRight /\ CompleteFound /\ Chain /\ UsedIs
  BY <1>1 DEF Traced
<1>4. /\ (Known(got))' = Known(got)
      /\ \A x : DataOf(x)' = DataOf(x) /\ BlocksOf(x)' = BlocksOf(x) /\ (Checked(x)' <=> Checked(x))
  BY <1>1, SameSources
<1>5. UsedIs' /\ FullTable(got, table)' /\ stage' # "scan"
  BY <1>1, <1>2, <1>3 DEF UsedIs
<1>6. UsedRight'
  <2>1. \A x \in Known(got) : Checked(x) => \A k \in BlocksOf(x) : found'[x][k].file \in used'.files \cup {NoFile}
    BY <1>1, <1>3 DEF UsedRight
  <2> QED BY <1>4, <1>5, <2>1 DEF UsedRight
<1>7. ASSUME NEW id \in Known(got), Checked(id), complete'[id] # NoFile, NEW k \in BlocksOf(id) PROVE IsSet(found'[id][k])
  <2>1. found'[id] = found[id] /\ DOMAIN complete = Known(got)
    BY <1>1, <1>7, AtWork
  <2>2. CASE FullMatch /\ id = scan.id
    <3>1. scan.count > 0 /\ scan.full /\ scan.count = Len(Hashes(id))
      BY <2>2 DEF FullMatch
    <3>2. scan.count = BlockCount(DataOf(id)) /\ BlocksOf(id) = 1 .. BlockCount(DataOf(id))
      BY <1>1, <1>7, <3>1, SourceAtWork DEF BlocksOf
    <3>3. \A j \in 1 .. scan.count : IsSet(found[id][j])
      BY <1>3, <1>7, <2>2, <3>1 DEF Chain
    <3> QED BY <2>1, <3>2, <3>3
  <2>3. CASE ~(FullMatch /\ id = scan.id)
    <3>1. complete[id] # NoFile
      BY <1>1, <1>7, <2>1, <2>3
    <3> QED BY <1>3, <1>7, <2>1, <3>1 DEF CompleteFound
  <2> QED BY <2>2, <2>3
<1>8. CompleteFound'
  BY <1>4, <1>7 DEF CompleteFound, IsSet
<1> QED BY <1>5, <1>6, <1>8 DEF Traced

\* At first there is nothing to trace.
LEMMA InitTraces == Init => Traced
BY DEF Init, Traced, UsedIs, Working

\* Every step keeps it.
LEMMA StepTraces ==
  ASSUME IInv, Traced, [Next]_vars
  PROVE  Traced'
<1>a. UsedIs
  BY DEF Traced
<1>1. CASE Load \/ Report
  <2>1. stage' \notin Working /\ UsedIs'
    BY <1>a, <1>1, OthersIdle DEF Idles
  <2> QED BY <2>1 DEF Traced
<1>2. CASE Prepare
  BY <1>2, PrepareTraces
<1>3. CASE VerifySource
  <2>1. /\ stage \in Working /\ UNCHANGED <<job, got, table, found, complete>> /\ UsedIs' /\ used.files \subseteq used'.files
        /\ stage' \in {"report", "sources"} \/ \E file, id : Opened(file, id, "sources")
    BY <1>a, <1>3, VerifySourceIs
  <2>2. stage' = "scan" => scan'.file \in used'.files /\ Chain'
    BY <2>1, OpenedChain
  <2> QED BY <2>1, <2>2, TracedStays
<1>4. CASE EndSources \/ EndExtra \/ Decide
  <2>1. /\ stage \in {"sources", "extra", "result"} /\ UNCHANGED <<job, got, used, table, found, complete>>
        /\ stage' \in {"extra", "result", "report"}
    BY <1>4, BetweenIs
  <2>2. UsedIs' /\ used.files \subseteq used'.files
    BY <1>a, <2>1 DEF UsedIs
  <2> QED BY <2>1, <2>2, TracedStays DEF Working
<1>5. CASE FindBlock
  BY <1>5, FindBlockTraces
<1>6. CASE SkipOn
  BY <1>6, SkipOnTraces
<1>7. CASE EndScan
  BY <1>7, EndScanTraces
<1>8. CASE NextExtra
  <2>1. /\ stage \in Working /\ UNCHANGED <<job, got, table, found, complete>> /\ UsedIs' /\ used.files \subseteq used'.files
        /\ stage' = "extra" \/ \E file : Opened(file, 0, "extra")
    BY <1>a, <1>8, NextExtraIs
  <2>2. stage' = "scan" => scan'.file \in used'.files /\ Chain'
    BY <2>1, OpenedChain
  <2> QED BY <2>1, <2>2, TracedStays
<1>9. CASE Done \/ UNCHANGED vars
  <2>1. UNCHANGED <<job, stage, got, used, table, found, complete, scan>>
    BY <1>9 DEF Done, vars
  <2> QED BY <2>1 DEF Traced, UsedIs, UsedRight, CompleteFound, Chain, DataOf, BlocksOf, Checked, Description
<1> QED BY <1>1, <1>2, <1>3, <1>4, <1>5, <1>6, <1>7, <1>8, <1>9 DEF Next

\* VerifySourceFiles opens the source files one after another.
Turn(id) == <<Description(id).name, id>>
\* Files are still being looked for in their places,
InSources == stage = "sources" \/ (stage = "scan" /\ scan.back = "sources")
\* and this one is being scanned now.
Looking(id) == stage = "scan" /\ scan.want = id

\* A source file has its turn still to come, is being followed, or has been looked for.
SourcesRight ==
  /\ todo \subseteq {Turn(id) : id \in Known(got)}
  /\ stage = "scan" => scan.want \in Known(got)
  /\ \A id \in Known(got) : Looking(id) =>
       scan.file = Target(id) /\ Turn(id) \notin todo /\ (Checked(id) => OnTrack(id) \/ Looked(id))
  /\ \A id \in Known(got) : Turn(id) \in todo \/ Looking(id) \/ failed \/ Looked(id)

\* After VerifySourceFiles() all have been looked for.
LookedFor ==
  /\ stage \in Working => IF InSources THEN SourcesRight ELSE \A id \in Known(got) : Looked(id)
  /\ Verified => \A id \in Known(got) : Looked(id)

\* A file that is damaged where the scan has come to has been looked for.
LEMMA TrackLooked ==
  ASSUME IInv, stage = "scan", NEW id \in Known(got), scan.file = Target(id), OnTrack(id), ~IntactTo(id, scan.count + 1)
  PROVE  Looked(id)
<1> DEFINE p == scan.count
           own == DataOf(id)
<1>1. Data \in Seq(Byte) /\ stage \in Working /\ p \in Nat
  BY ScanningIs DEF ScanRight
<1>2. own \in Seq(Byte) /\ BlocksOf(id) = 1 .. BlockCount(own) /\ BlockCount(own) \in Nat
  BY <1>1, SourceAtWork DEF BlocksOf
<1>3. ASSUME NEW k \in BlocksOf(id), IntactTo(id, k) PROVE k <= p
  <2>1. Bytes(Data, 0, k * BlockSize) = Bytes(own, 0, k * BlockSize) /\ Target(id) \in DOMAIN job.disk
    BY <1>3 DEF IntactTo, Data
  <2>2. \A j \in 1 .. k : Bytes(Data, 0, j * BlockSize) = Bytes(own, 0, j * BlockSize)
    BY <1>1, <1>2, <2>1, IntactIs
  <2>3. ASSUME p + 1 \in 1 .. k PROVE FALSE
    BY <2>1, <2>2, <2>3 DEF IntactTo, Data
  <2> QED BY <1>1, <1>2, <2>3
<1>4. \A j \in 1 .. p : IsSet(found[id][j])
  BY DEF OnTrack
<1>5. ASSUME NEW k \in BlocksOf(id), IntactTo(id, k) PROVE IsSet(found[id][k])
  <2>1. k \in 1 .. p
    BY <1>1, <1>2, <1>3, <1>5
  <2> QED BY <1>4, <2>1
<1> QED BY <1>5 DEF Looked

\* A file of which all is found has been looked for, too,
LEMMA AllLooked ==
  ASSUME NEW id, \A k \in BlocksOf(id) : IsSet(found[id][k])
  PROVE  Looked(id)
BY DEF Looked

\* and one that is lost sight of at an intact block.
LEMMA TrackLost ==
  ASSUME IInv, Traced, Scanning, NEW id \in Known(got), Checked(id), scan.file = Target(id), OnTrack(id),
         ~IsOf(table, Match.entry, id, scan.count + 1)
  PROVE  Looked(id)
<1>1. stage = "scan" /\ stage \in Working
  BY DEF Scanning, Working
<1>2. FullTable(got, table) /\ CompleteFound
  BY <1>1 DEF Traced
<1>3. CASE complete[id] # NoFile
  BY <1>2, <1>3, AllLooked DEF CompleteFound
<1>4. CASE ~IntactTo(id, scan.count + 1)
  BY <1>1, <1>4, TrackLooked
<1>5. CASE complete[id] = NoFile /\ IntactTo(id, scan.count + 1)
  <2>1. Elsewhere(id) \/ ~Only(id)
    BY <1>2, <1>5, FollowStep
  <2> QED BY <2>1 DEF Looked
<1> QED BY <1>3, <1>4, <1>5

\* What all have had, they keep.
LEMMA LookedGoesOn ==
  ASSUME job' = job, got' = got, \A id \in Known(got) : Looked(id) /\ Stays(id)
  PROVE  \A id \in Known(got)' : Looked(id)'
<1>1. Known(got)' = Known(got)
  OBVIOUS
<1> QED BY <1>1, LookedStays

\* A step of the scan of a source file, or its last.
LEMMA SourcesGoOn ==
  ASSUME SourcesRight, stage = "scan", UNCHANGED <<job, got, todo, failed>>,
         \A id \in Known(got) : Stays(id),
         \/ /\ stage' = "scan" /\ scan'.want = scan.want /\ scan'.file = scan.file
            /\ \A id \in Known(got) : Looking(id) /\ Checked(id) => OnTrack(id)' \/ Looked(id)'
         \/ stage' = "sources" /\ \A id \in Known(got) : Looking(id) => Looked(id)'
  PROVE  SourcesRight'
<1>1. /\ (Known(got))' = Known(got)
      /\ \A id : Target(id)' = Target(id) /\ Turn(id)' = Turn(id) /\ (Checked(id)' <=> Checked(id))
  BY SameSources DEF Turn
<1>2. todo' \subseteq {Turn(id)' : id \in Known(got)'}
  BY <1>1 DEF SourcesRight
<1>3. ASSUME NEW id \in Known(got), Looked(id) PROVE Looked(id)'
  BY <1>3, LookedStays
<1>4. CASE /\ stage' = "scan" /\ scan'.want = scan.want /\ scan'.file = scan.file
           /\ \A id \in Known(got) : Looking(id) /\ Checked(id) => OnTrack(id)' \/ Looked(id)'
  <2>1. \A id : Looking(id)' <=> Looking(id)
    BY <1>4 DEF Looking
  <2>2. scan'.want \in Known(got)'
    BY <1>1, <1>4 DEF SourcesRight
  <2>3. \A id \in Known(got)' : Looking(id)' =>
          scan'.file = Target(id)' /\ Turn(id)' \notin todo' /\ (Checked(id)' => OnTrack(id)' \/ Looked(id)')
    BY <1>1, <1>4, <2>1 DEF SourcesRight
  <2>4. \A id \in Known(got)' : Turn(id)' \in todo' \/ Looking(id)' \/ failed' \/ Looked(id)'
    BY <1>1, <1>3, <2>1 DEF SourcesRight
  <2> QED BY <1>2, <2>2, <2>3, <2>4 DEF SourcesRight
<1>5. CASE stage' = "sources" /\ \A id \in Known(got) : Looking(id) => Looked(id)'
  <2>1. \A id : ~Looking(id)'
    BY <1>5 DEF Looking
  <2>2. \A id \in Known(got)' : Turn(id)' \in todo' \/ Looking(id)' \/ failed' \/ Looked(id)'
    BY <1>1, <1>3, <1>5 DEF SourcesRight
  <2> QED BY <1>2, <1>5, <2>1, <2>2 DEF SourcesRight
<1> QED BY <1>4, <1>5

\* The steps keep it: first all turns are to come,
LEMMA PrepareLooks ==
  ASSUME IInv, Prepare
  PROVE  LookedFor'
<1>1. /\ stage' \in {"sources", "report"} /\ ~Verified'
      /\ stage' = "sources" => todo' = {<<DescIn(got', id).name, id>> : id \in Known(got')}
  BY PrepareIs
<1>2. ASSUME stage' = "sources" PROVE SourcesRight'
  <2>1. \A id : Turn(id)' = <<DescIn(got', id).name, id>>
    BY DEF Turn, Description
  <2>2. todo' = {Turn(id)' : id \in Known(got)'}
    BY <1>1, <1>2, <2>1
  <2>3. \A id : ~Looking(id)'
    BY <1>2 DEF Looking
  <2> QED BY <1>2, <2>2, <2>3 DEF SourcesRight
<1>3. stage' = "sources" => InSources'
  BY DEF InSources
<1> QED BY <1>1, <1>2, <1>3 DEF LookedFor, Working

\* A source file that is opened is followed from its start.
LEMMA OpenedTrack ==
  ASSUME IInv, Traced, stage = "sources", UNCHANGED <<job, got, found>>, NEW id \in Known(got), Checked(id),
         Opened(Target(id), id, "sources"), Target(id) \notin used.files, Target(id) \in DOMAIN job.disk
  PROVE  OnTrack(id)'
<1> DEFINE file == Target(id)
           m == BlockCount(DataOf(id))
           data == job.disk[file]
<1>1. /\ scan'.file = file /\ scan'.id = id /\ scan'.count = 0 /\ scan'.next = 0 /\ scan'.c = Start(data)
  BY DEF Opened
<1>2. stage \in Working /\ UsedRight
  BY DEF Working, Traced
<1>3. m \in Nat /\ 1 <= m /\ BlocksOf(id) = 1 .. m /\ file # NoFile
  BY <1>2, SourceAtWork DEF BlocksOf
<1>4. Data' = data /\ data \in Seq(Byte)
  BY <1>1, <1>2, AtWork DEF Data
<1>5. scan'.c = Start(Data') /\ scan'.c.at = 0 /\ Len(Data') \in Nat
  BY <1>1, <1>4, StartRight
<1>6. BlockSize \in Nat
  BY BlockSizeIs
<1>7. \A j \in 1 .. m : found'[id][j].file # scan'.file
  BY <1>1, <1>2, <1>3 DEF UsedRight
<1> HIDE DEF data, file, m
<1> DEFINE q == scan'.count
           data2 == Data'
<1>8. q = 0 /\ q < m /\ q + 1 .. m = 1 .. m /\ 1 .. q = {} /\ q * BlockSize = 0
  BY <1>1, <1>3, <1>6
<1> HIDE DEF q, data2
<1>9. scan'.c.at = IF q * BlockSize < Len(data2) THEN q * BlockSize ELSE Len(data2)
  BY <1>5, <1>8 DEF data2
<1>10. /\ q = 0 => scan'.next = 0 /\ scan'.c = Start(data2)
       /\ \A j \in 1 .. q : IsSet(found[id][j])'
       /\ \A j \in q + 1 .. m : found'[id][j].file # scan'.file
  BY <1>1, <1>5, <1>7, <1>8 DEF data2
<1>11. DataOf(id)' = DataOf(id) /\ scan'.id = id
  BY <1>1, SameSources
<1> QED BY <1>8, <1>9, <1>10, <1>11 DEF OnTrack, q, m, data2

\* one that has come begins on track, or there is no file,
LEMMA VerifySourceLooks ==
  ASSUME IInv, Traced, LookedFor, VerifySource
  PROVE  LookedFor'
<1>0. PICK id : id = Least(todo)[2]
  OBVIOUS
<1> DEFINE file == Target(id)
<1>1. /\ Least(todo) \in todo /\ todo' = todo \ {Least(todo)} /\ stage = "sources" /\ stage \in Working
      /\ UNCHANGED <<job, got, table, found, complete>> /\ ~Verified'
      /\ \/ stage' = "report"
         \/ stage' = "sources" /\ (failed' <=> failed) /\ file \notin DOMAIN job.disk
         \/ stage' = "sources" /\ (failed' <=> failed \/ id # 0)
         \/ Opened(file, id, "sources") /\ file \notin used.files /\ file \in DOMAIN job.disk
  BY <1>0, VerifySourceIs DEF Traced
<1>2. SourcesRight /\ UsedRight
  BY <1>1 DEF LookedFor, InSources, Traced
<1>3. id \in Known(got) /\ Least(todo) = Turn(id) /\ id # 0
  <2>1. PICK x \in Known(got) : Least(todo) = Turn(x)
    BY <1>1, <1>2 DEF SourcesRight
  <2>2. id = x
    BY <1>0, <2>1 DEF Turn
  <2>3. id \in Nat \ {0}
    BY <1>1, <2>1, <2>2, AtWork, DescInIs
  <2> QED BY <2>1, <2>2, <2>3
<1>4. /\ (Known(got))' = Known(got) /\ DOMAIN job.disk' = DOMAIN job.disk
      /\ \A x : /\ Target(x)' = Target(x) /\ Turn(x)' = Turn(x) /\ (Checked(x)' <=> Checked(x))
                /\ DataOf(x)' = DataOf(x)
                /\ \A k : IntactTo(x, k)' <=> IntactTo(x, k)
  BY <1>1, SameSources DEF Turn
<1>5. ASSUME NEW x \in Known(got), Looked(x) PROVE Looked(x)'
  <2>1. Stays(x)
    BY <1>1 DEF Stays
  <2> QED BY <1>1, <1>5, <2>1, LookedStays
<1>6. todo' \subseteq {Turn(x)' : x \in Known(got)'} /\ Turn(id)' \notin todo'
  BY <1>1, <1>2, <1>3, <1>4 DEF SourcesRight
<1>7. ASSUME NEW x \in Known(got), x # id PROVE Turn(x)' \in todo' \/ failed \/ Looked(x)'
  <2>1. Turn(x) # Turn(id)
    BY <1>7 DEF Turn
  <2>2. Turn(x) \in todo \/ failed \/ Looked(x)
    BY <1>1, <1>2 DEF SourcesRight, Looking
  <2> QED BY <1>1, <1>3, <1>4, <1>5, <2>1, <2>2
<1>8. CASE stage' = "report"
  BY <1>1, <1>8 DEF LookedFor, Working
<1>9. CASE stage' = "sources" /\ (failed => failed') /\ (failed' \/ Looked(id)')
  <2>1. \A x \in Known(got)' : Turn(x)' \in todo' \/ Looking(x)' \/ failed' \/ Looked(x)'
    BY <1>4, <1>7, <1>9
  <2>2. \A x : ~Looking(x)'
    BY <1>9 DEF Looking
  <2>3. SourcesRight'
    BY <1>6, <1>9, <2>1, <2>2 DEF SourcesRight
  <2> QED BY <1>1, <1>9, <2>3 DEF LookedFor, InSources
<1>10. CASE stage' = "sources" /\ (failed' <=> failed) /\ file \notin DOMAIN job.disk
  <2>1. \A k : ~IntactTo(id, k)'
    BY <1>4, <1>10 DEF IntactTo
  <2>2. Looked(id)'
    BY <2>1 DEF Looked
  <2> QED BY <1>9, <1>10, <2>2
<1>11. CASE stage' = "sources" /\ (failed' <=> failed \/ id # 0)
  BY <1>3, <1>9, <1>11
<1>12. CASE Opened(file, id, "sources") /\ file \notin used.files /\ file \in DOMAIN job.disk
  <2>1. /\ stage' = "scan" /\ failed' = failed /\ scan'.file = file /\ scan'.want = id /\ scan'.id = id
        /\ scan'.back = "sources" /\ scan'.count = 0 /\ scan'.next = 0 /\ scan'.c = Start(job.disk[file])
    BY <1>12 DEF Opened
  <2>2. \A x : Looking(x)' <=> x = id
    BY <2>1 DEF Looking
  <2>3. ASSUME Checked(id) PROVE OnTrack(id)'
    BY <1>1, <1>3, <1>12, <2>3, OpenedTrack
  <2>4. \A x \in Known(got)' : Looking(x)' =>
          scan'.file = Target(x)' /\ Turn(x)' \notin todo' /\ (Checked(x)' => OnTrack(x)' \/ Looked(x)')
    BY <1>4, <1>6, <2>1, <2>2, <2>3
  <2>5. \A x \in Known(got)' : Turn(x)' \in todo' \/ Looking(x)' \/ failed' \/ Looked(x)'
    BY <1>4, <1>7, <2>1, <2>2
  <2>6. scan'.want \in Known(got)'
    BY <1>3, <1>4, <2>1
  <2>7. SourcesRight'
    BY <1>6, <2>4, <2>5, <2>6 DEF SourcesRight
  <2> QED BY <1>1, <2>1, <2>7 DEF LookedFor, InSources
<1> QED BY <1>1, <1>8, <1>10, <1>11, <1>12

\* a match goes on along the track, or shows why not,
LEMMA FindBlockLooks ==
  ASSUME IInv, Traced, LookedFor, FindBlock
  PROVE  LookedFor'
<1>1. /\ Scanning /\ stage = "scan" /\ stage \in Working
      /\ UNCHANGED <<job, stage, todo, got, table, failed, result>>
      /\ scan'.file = scan.file /\ scan'.want = scan.want /\ scan'.back = scan.back
  BY FindBlockIs
<1>2. FullTable(got, table)
  BY <1>1 DEF Traced
<1>3. \A id \in Known(got) : Stays(id)
  BY <1>2, FindBlockStays
<1>4. ~Verified /\ ~Verified'
  <2>1. ~Verified
    BY <1>1, NoAnswer
  <2> QED BY <1>1, <2>1 DEF Verified
<1>5. InSources' <=> InSources
  BY <1>1 DEF InSources
<1>6. CASE ~InSources
  <2>1. \A id \in Known(got)' : Looked(id)'
    BY <1>1, <1>3, <1>6, LookedGoesOn DEF LookedFor
  <2> QED BY <1>4, <1>5, <1>6, <2>1 DEF LookedFor
<1>7. CASE InSources
  <2>1. SourcesRight
    BY <1>1, <1>7 DEF LookedFor
  <2>2. ASSUME NEW id \in Known(got), Looking(id), Checked(id) PROVE OnTrack(id)' \/ Looked(id)'
    <3>1. scan.file = Target(id) /\ (OnTrack(id) \/ Looked(id))
      BY <2>1, <2>2 DEF SourcesRight
    <3>2. CASE Looked(id)
      BY <1>1, <1>3, <3>2, LookedStays
    <3>3. CASE OnTrack(id) /\ ~IsOf(table, Match.entry, id, scan.count + 1)
      <4>1. Looked(id)
        BY <1>1, <2>2, <3>1, <3>3, TrackLost
      <4> QED BY <3>2, <4>1
    <3>4. CASE OnTrack(id) /\ IsOf(table, Match.entry, id, scan.count + 1)
      <4> DEFINE q == scan'.count
      <4>1. /\ \A k \in 1 .. q : IsSet(found'[id][k])
            /\ q # BlockCount(DataOf(id)) => OnTrack(id)'
        BY <1>2, <2>2, <3>4, FollowOn
      <4>2. ASSUME q = BlockCount(DataOf(id)) PROVE Looked(id)'
        <5>1. \A k \in BlocksOf(id)' : IsSet(found[id][k])'
          <6>1. BlocksOf(id)' = BlocksOf(id)
            BY <1>1, SameSources
          <6>2. BlocksOf(id) = 1 .. q
            BY <4>2 DEF BlocksOf
          <6> HIDE DEF q
          <6> QED BY <4>1, <6>1, <6>2 DEF IsSet
        <5> QED BY <5>1 DEF Looked
      <4> QED BY <4>1, <4>2
    <3> QED BY <3>1, <3>2, <3>3, <3>4
  <2>3. SourcesRight'
    BY <1>1, <1>3, <2>1, <2>2, SourcesGoOn
  <2> QED BY <1>4, <1>5, <1>7, <2>3 DEF LookedFor
<1> QED BY <1>6, <1>7

\* A file that is skipped through, or at its end, has been looked for.
LEMMA WantLooked ==
  ASSUME IInv, Traced, SourcesRight, stage = "scan", (Scanning => Match.entry = 0), NEW id \in Known(got), Looking(id)
  PROVE  Looked(id)
<1>1. stage \in Working /\ scan.file = Target(id) /\ (Checked(id) => OnTrack(id) \/ Looked(id))
  BY DEF SourcesRight, Working
<1>2. CASE ~Checked(id) \/ Looked(id)
  BY <1>1, <1>2 DEF Looked
<1>3. CASE Checked(id) /\ OnTrack(id) /\ ~Scanning
  <2>1. ~IntactTo(id, scan.count + 1)
    <3>1. FullTable(got, table)
      BY <1>1 DEF Traced
    <3> QED BY <1>1, <1>3, <3>1, TrackEnds
  <2> QED BY <1>1, <1>3, <2>1, TrackLooked
<1>4. CASE Checked(id) /\ OnTrack(id) /\ Scanning
  <2>1. ~IsOf(table, Match.entry, id, scan.count + 1)
    <3>1. Len(table.entry) \in Nat
      BY <1>1, AtWork
    <3> QED BY <1>4, <3>1 DEF IsOf
  <2> QED BY <1>1, <1>4, <2>1, TrackLost
<1> QED BY <1>1, <1>2, <1>3, <1>4

\* a place without a match is one where the file is damaged,
LEMMA SkipOnLooks ==
  ASSUME IInv, Traced, LookedFor, SkipOn
  PROVE  LookedFor'
<1>1. /\ Scanning /\ stage = "scan" /\ stage \in Working /\ Match.entry = 0
      /\ UNCHANGED <<job, stage, todo, got, table, found, failed, result>>
      /\ scan'.file = scan.file /\ scan'.want = scan.want /\ scan'.back = scan.back
  BY SkipOnIs
<1>2. \A id \in Known(got) : Stays(id)
  BY <1>1 DEF Stays
<1>3. ~Verified'
  <2>1. ~Verified
    BY <1>1, NoAnswer
  <2> QED BY <1>1, <2>1 DEF Verified
<1>4. InSources' <=> InSources
  BY <1>1 DEF InSources
<1>5. CASE ~InSources
  <2>1. \A id \in Known(got)' : Looked(id)'
    BY <1>1, <1>2, <1>5, LookedGoesOn DEF LookedFor
  <2> QED BY <1>3, <1>4, <1>5, <2>1 DEF LookedFor
<1>6. CASE InSources
  <2>1. SourcesRight
    BY <1>1, <1>6 DEF LookedFor
  <2>2. ASSUME NEW id \in Known(got), Looking(id) PROVE Looked(id)'
    <3>1. Looked(id)
      BY <1>1, <2>1, <2>2, WantLooked
    <3> QED BY <1>1, <1>2, <3>1, LookedStays
  <2>3. SourcesRight'
    BY <1>1, <1>2, <2>1, <2>2, SourcesGoOn
  <2> QED BY <1>3, <1>4, <1>6, <2>3 DEF LookedFor
<1> QED BY <1>5, <1>6

\* and at its end the file has been looked for.
LEMMA EndScanLooks ==
  ASSUME IInv, Traced, LookedFor, EndScan
  PROVE  LookedFor'
<1>1. /\ stage = "scan" /\ stage \in Working /\ ~Scanning /\ stage' = scan.back
      /\ UNCHANGED <<job, todo, got, failed, result>>
  BY EndScanIs
<1>2. \A id \in Known(got) : Stays(id)
  BY EndScanStays
<1>3. ~Verified'
  <2>1. ~Verified
    BY <1>1, NoAnswer
  <2> QED BY <1>1, <2>1 DEF Verified
<1>4. scan.back \in {"sources", "extra"}
  BY <1>1, ScanningIs DEF ScanRight
<1>5. CASE scan.back = "extra"
  <2>1. ~InSources /\ ~InSources'
    BY <1>1, <1>5 DEF InSources
  <2>2. \A id \in Known(got)' : Looked(id)'
    BY <1>1, <1>2, <2>1, LookedGoesOn DEF LookedFor
  <2> QED BY <1>3, <2>1, <2>2 DEF LookedFor
<1>6. CASE scan.back = "sources"
  <2>1. InSources /\ InSources'
    BY <1>1, <1>6 DEF InSources
  <2>2. SourcesRight
    BY <1>1, <2>1 DEF LookedFor
  <2>3. ASSUME NEW id \in Known(got), Looking(id) PROVE Looked(id)'
    <3>1. Looked(id)
      BY <1>1, <2>2, <2>3, WantLooked
    <3> QED BY <1>1, <1>2, <3>1, LookedStays
  <2>4. SourcesRight'
    BY <1>1, <1>2, <1>6, <2>2, <2>3, SourcesGoOn
  <2> QED BY <1>3, <2>1, <2>4 DEF LookedFor
<1> QED BY <1>4, <1>5, <1>6

\* The steps after which no source file is waited for.
LEMMA BetweenLooks ==
  ASSUME IInv, LookedFor, EndSources \/ EndExtra \/ Decide
  PROVE  LookedFor'
<1>1. /\ stage \in {"sources", "extra", "result"} /\ UNCHANGED <<job, got, used, table, found, complete>>
      /\ stage' \in {"extra", "result", "report"} /\ (~Decide => ~Verified')
      /\ stage' # "report" => ~Decide /\ (stage = "sources" => todo = {} /\ ~failed)
  BY BetweenIs
<1>2. ~InSources'
  BY <1>1 DEF InSources
<1>3. \A id \in Known(got) : Stays(id)
  BY <1>1 DEF Stays
<1>4. ASSUME stage' # "report" \/ Decide PROVE \A id \in Known(got) : Looked(id)
  <2>1. CASE stage = "sources"
    <3>1. SourcesRight
      BY <2>1 DEF LookedFor, InSources, Working
    <3>2. todo = {} /\ ~failed
      BY <1>1, <1>4, <2>1 DEF Decide
    <3>3. \A id : ~Looking(id)
      BY <2>1 DEF Looking
    <3> QED BY <3>1, <3>2, <3>3 DEF SourcesRight
  <2>2. CASE stage # "sources"
    BY <1>1, <2>2 DEF LookedFor, InSources, Working
  <2> QED BY <2>1, <2>2
<1>5. ASSUME stage' # "report" \/ Decide PROVE \A id \in Known(got)' : Looked(id)'
  BY <1>1, <1>3, <1>4, <1>5, LookedGoesOn
<1> QED BY <1>1, <1>2, <1>5 DEF LookedFor, Working

\* The other files come after that,
LEMMA NextExtraLooks ==
  ASSUME IInv, Traced, LookedFor, NextExtra
  PROVE  LookedFor'
<1>1. /\ stage = "extra" /\ stage \in Working /\ UNCHANGED <<job, got, table, found, complete, result>>
      /\ stage' = "extra" \/ \E file : Opened(file, 0, "extra")
  BY NextExtraIs DEF Traced
<1>2. ~InSources /\ ~InSources'
  BY <1>1 DEF InSources, Opened
<1>3. \A id \in Known(got) : Stays(id)
  BY <1>1 DEF Stays
<1>4. \A id \in Known(got)' : Looked(id)'
  BY <1>1, <1>2, <1>3, LookedGoesOn DEF LookedFor
<1> QED BY <1>2, <1>4 DEF LookedFor

\* and the rest gives up nothing.
LEMMA OthersLook ==
  ASSUME IInv, LookedFor, Load \/ Report
  PROVE  LookedFor'
<1>1. \/ stage' \notin Working /\ ~Verified'
      \/ stage' \notin Working /\ (Verified' => Verified) /\ UNCHANGED <<job, got, found, complete, result>>
  BY OthersIdle DEF Idles
<1>2. CASE stage' \notin Working /\ ~Verified'
  BY <1>2 DEF LookedFor
<1>3. CASE stage' \notin Working /\ (Verified' => Verified) /\ UNCHANGED <<job, got, found, complete, result>>
  <2>1. \A id \in Known(got) : Stays(id)
    BY <1>3 DEF Stays
  <2>2. ASSUME Verified PROVE \A id \in Known(got)' : Looked(id)'
    BY <1>3, <2>1, <2>2, LookedGoesOn DEF LookedFor
  <2> QED BY <1>3, <2>2 DEF LookedFor
<1> QED BY <1>1, <1>2, <1>3

\* At first no file is known.
LEMMA InitLooks == Init => LookedFor
BY DEF Init, LookedFor, Working, Verified

\* Every step keeps it.
LEMMA StepLooks ==
  ASSUME IInv, Traced, LookedFor, [Next]_vars
  PROVE  LookedFor'
<1>1. CASE Done \/ UNCHANGED vars
  <2>1. UNCHANGED <<job, stage, todo, got, used, table, found, complete, scan, failed, result>>
    BY <1>1 DEF Done, vars
  <2>2. /\ (Known(got))' = Known(got)
        /\ \A id : /\ Target(id)' = Target(id) /\ Turn(id)' = Turn(id) /\ (Checked(id)' <=> Checked(id))
                   /\ DataOf(id)' = DataOf(id)
    BY <2>1, SameSources DEF Turn
  <2>3. \A id \in Known(got) : Stays(id)
    BY <2>1 DEF Stays
  <2>4. \A id \in Known(got) : Looked(id) => Looked(id)'
    BY <2>1, <2>3, LookedStays
  <2>5. \A id : OnTrack(id) => OnTrack(id)'
    BY <2>1, <2>2 DEF OnTrack, Data
  <2>6. SourcesRight => SourcesRight'
    BY <2>1, <2>2, <2>4, <2>5 DEF SourcesRight, Looking
  <2>7. (InSources' <=> InSources) /\ (Verified' <=> Verified)
    BY <2>1 DEF InSources, Verified
  <2> QED BY <2>1, <2>2, <2>4, <2>6, <2>7 DEF LookedFor
<1>2. CASE Load \/ Report
  BY <1>2, OthersLook
<1>3. CASE Prepare
  BY <1>3, PrepareLooks
<1>4. CASE VerifySource
  BY <1>4, VerifySourceLooks
<1>5. CASE EndSources \/ EndExtra \/ Decide
  BY <1>5, BetweenLooks
<1>6. CASE FindBlock
  BY <1>6, FindBlockLooks
<1>7. CASE SkipOn
  BY <1>7, SkipOnLooks
<1>8. CASE EndScan
  BY <1>8, EndScanLooks
<1>9. CASE NextExtra
  BY <1>9, NextExtraLooks
<1> QED BY <1>1, <1>2, <1>3, <1>4, <1>5, <1>6, <1>7, <1>8, <1>9 DEF Next

-----------------------------------------------------------------------------
(* When nothing is missing nothing is asked for. *)

\* When all source files are there,
WholeSet ==
  \A id \in Known(got) : Checked(id) /\ Target(id) \in DOMAIN job.disk /\ job.disk[Target(id)] = DataOf(id)

\* each of them is found complete in its turn.
Untouched(id) == complete[id] = NoFile /\ \A k \in BlocksOf(id) : found[id][k] = Nowhere

\* While it is scanned nothing but itself is found, to its end.
Follows(id) ==
  /\ complete[id] = NoFile /\ scan.full /\ scan.id = id
  /\ \A k \in BlocksOf(id) : k > scan.count => found[id][k] = Nowhere
  /\ IF scan.count = BlockCount(DataOf(id)) THEN scan.c.at = Len(Data) ELSE OnTrack(id)

\* Nothing else than the source files is then looked at.
WholeRight ==
  /\ stage # "extra" /\ (stage = "scan" => scan.back = "sources")
  /\ InSources =>
       /\ \A id \in Known(got) : Turn(id) \in todo => Untouched(id)
       /\ \A id \in Known(got) : Looking(id) => Follows(id)
       /\ \A id \in Known(got) : Turn(id) \in todo \/ Looking(id) \/ failed \/ complete[id] = Target(id)
  /\ stage = "result" => AllComplete

\* A set that is whole needs no repair.
WholeFound ==
  /\ stage \in Working => (WholeSet => WholeRight)
  /\ Verified => (WholeSet => result = "eSuccess")

\* Whether a set is whole does not change.
LEMMA SameWhole ==
  ASSUME job' = job, got' = got
  PROVE  WholeSet' <=> WholeSet
<1>1. /\ (Known(got))' = Known(got)
      /\ \A id : DataOf(id)' = DataOf(id) /\ Target(id)' = Target(id) /\ (Checked(id)' <=> Checked(id))
  BY SameSources
<1> QED BY <1>1 DEF WholeSet

\* The scan of a file that is there follows it to its end.
LEMMA WholeTrack ==
  ASSUME IInv, Traced, LookedFor, WholeSet, WholeRight, stage = "scan"
  PROVE  /\ InSources /\ SourcesRight
         /\ \E id \in Known(got) :
              /\ Looking(id) /\ Checked(id) /\ Follows(id) /\ scan.file = Target(id) /\ Data = DataOf(id)
              /\ Scanning => OnTrack(id) /\ IsOf(table, Match.entry, id, scan.count + 1)
              /\ ~Scanning => scan.count = BlockCount(DataOf(id)) /\ scan.c.at = Len(Data)
<1>1. InSources /\ stage \in Working
  BY DEF WholeRight, InSources, Working
<1>2. SourcesRight /\ FullTable(got, table)
  BY <1>1 DEF LookedFor, Traced
<1>3. PICK id \in Known(got) : scan.want = id
  BY <1>2 DEF SourcesRight
<1>4. Looking(id) /\ Follows(id) /\ scan.file = Target(id)
  <2>1. Looking(id)
    BY <1>3 DEF Looking
  <2> QED BY <1>1, <1>2, <2>1 DEF WholeRight, SourcesRight
<1>5. /\ Checked(id) /\ Target(id) \in DOMAIN job.disk /\ job.disk[Target(id)] = DataOf(id) /\ Data = DataOf(id)
  BY <1>4 DEF WholeSet, Data
<1>6. \A k : IntactTo(id, k)
  BY <1>5 DEF IntactTo
<1>7. ASSUME Scanning PROVE OnTrack(id) /\ IsOf(table, Match.entry, id, scan.count + 1)
  <2>1. scan.c.at < Len(Data) /\ scan.c.at \in Nat /\ Data \in Seq(Byte) /\ scan.count \in Nat
    BY <1>7, ScanningIs DEF Scanning, ScanRight
  <2>2. scan.c.at # Len(Data)
    BY <2>1
  <2>3. OnTrack(id) /\ complete[id] = NoFile
    BY <1>4, <2>2 DEF Follows
  <2>4. ~IsSet(found[id][scan.count + 1])
    <3>1. scan.count + 1 \in BlocksOf(id) /\ scan.count + 1 > scan.count
      <4>1. scan.count < BlockCount(DataOf(id)) /\ BlockCount(DataOf(id)) \in Nat
        BY <1>1, <2>3, SourceAtWork DEF OnTrack
      <4> QED BY <2>1, <4>1 DEF BlocksOf
    <3>2. found[id][scan.count + 1] = Nowhere
      BY <1>4, <3>1 DEF Follows
    <3> QED BY <3>2 DEF IsSet, Nowhere, Location
  <2>5. IntactTo(id, scan.count + 1)
    BY <1>6
  <2> QED BY <1>2, <1>4, <1>5, <1>7, <2>3, <2>4, <2>5, FollowStep
<1>8. ASSUME ~Scanning PROVE scan.count = BlockCount(DataOf(id)) /\ scan.c.at = Len(Data)
  <2>1. ~OnTrack(id)
    BY <1>2, <1>4, <1>5, <1>6, <1>8, TrackEnds
  <2> QED BY <1>4, <2>1 DEF Follows
<1> QED BY <1>1, <1>2, <1>4, <1>5, <1>7, <1>8

\* Then it is a full match.
LEMMA WholeMatch ==
  ASSUME IInv, stage = "scan", NEW id \in Known(got), Checked(id), Follows(id), Data = DataOf(id),
         scan.count = BlockCount(DataOf(id)), scan.c.at = Len(Data)
  PROVE  FullMatch
<1>1. stage \in Working /\ Data \in Seq(Byte) /\ CheckSummerInv(scan.c, Data)
  BY ScanningIs
<1>2. 1 <= BlockCount(DataOf(id)) /\ Len(Hashes(id)) = BlockCount(DataOf(id)) /\ BlockCount(DataOf(id)) \in Nat
  BY <1>1, SourceAtWork
<1>3. HashFull(scan.c, Data) = Data /\ Hash16k(scan.c) = Bytes(Data, 0, HashedFirst)
  BY <1>1, CheckSummerRight DEF HashesRight
<1>4. Description(id).first = Bytes(DataOf(id), 0, HashedFirst)
  <2> DEFINE d == DescIn(got, id)
  <2>1. d \in Packets(job) /\ d \in DescriptionPacket /\ DescLoads(d)
    BY <1>1, AtWork, DescInIs
  <2>2. Truthful(Packets(job)) /\ d.type = "desc"
    BY <1>1, <2>1, AtWork DEF DescriptionPacket
  <2>3. d.first = Bytes(d.data, 0, HashedFirst)
    BY <2>1, <2>2 DEF Truthful
  <2> QED BY <2>3 DEF Description, DataOf
<1>5. scan.id = id /\ scan.full /\ scan.count > 0 /\ scan.count = Len(Hashes(id))
  BY <1>2 DEF Follows
<1> QED BY <1>3, <1>4, <1>5 DEF FullMatch

\* No source file is listed twice.
LEMMA AllIsComplete ==
  ASSUME IInv, stage \in Working, \A id \in Known(got) : complete[id] = Target(id)
  PROVE  AllComplete
<1> DEFINE ids == FileIds(got)
           n == Len(ids)
<1>1. /\ got \in Gots(Packets(job)) /\ got.main \in MainPacket /\ Truthful(Packets(job)) /\ Known(got) = Range(ids)
      /\ DOMAIN complete = Known(got)
  BY AtWork DEF AllKnown
<1>2. DOMAIN ids = 1 .. n /\ n \in Nat /\ IsFiniteSet(Range(ids))
  BY <1>1, KnownIs
<1>3. got.main \in Packets(job) /\ got.main.type = "main"
  <2>1. got.main \in Packets(job) \cup {None} /\ got.main.type = "main"
    BY <1>1, GotFields DEF MainPacket
  <2> QED BY <2>1 DEF None
<1>4. \A i, j \in 1 .. n : ids[i] = ids[j] => i = j
  BY <1>1, <1>2, <1>3 DEF Truthful, FileIds
<1>5. ids \in Bijection(1 .. n, Range(ids))
  <2>1. ids \in [1 .. n -> Range(ids)]
    <3>1. ids \in Seq(Id)
      BY <1>1, KnownIs
    <3>2. ids = [i \in 1 .. n |-> ids[i]]
      BY <1>2, <3>1
    <3> HIDE DEF ids, n
    <3>3. \A i \in 1 .. n : ids[i] \in Range(ids)
      BY <1>2 DEF Range
    <3> QED BY <3>2, <3>3
  <2>2. \A t \in Range(ids) : \E s \in 1 .. n : ids[s] = t
    BY <1>2 DEF Range
  <2>3. IsInjective(ids)
    BY <1>2, <1>4 DEF IsInjective
  <2> HIDE DEF ids, n
  <2> QED BY <2>1, <2>2, <2>3 DEF Bijection, Injection, Surjection
<1>6. Cardinality(Range(ids)) = n
  <2>1. ExistsBijection(1 .. n, Range(ids))
    BY <1>5 DEF ExistsBijection
  <2> HIDE DEF n, ids
  <2>2. n \in Int /\ 1 \in Int /\ (IF 1 > n THEN 0 ELSE n - 1 + 1) = n
    BY <1>2
  <2>3. IsFiniteSet(1 .. n) /\ Cardinality(1 .. n) = IF 1 > n THEN 0 ELSE n - 1 + 1
    BY <2>2, FS_Interval
  <2> QED BY <2>1, <2>2, <2>3, FS_Bijection
<1>7. Completed = Range(ids)
  BY <1>1 DEF Completed
<1> QED BY <1>2, <1>6, <1>7 DEF AllComplete

\* The steps keep it: first nothing is found,
LEMMA PrepareWhole ==
  ASSUME IInv, Prepare
  PROVE  WholeFound'
<1>1. /\ stage' \in {"sources", "report"} /\ ~Verified'
      /\ stage' = "sources" =>
           /\ todo' = {<<DescIn(got', id).name, id>> : id \in Known(got')}
           /\ \A id \in Known(got') :
                /\ complete'[id] = NoFile
                /\ \A k \in 1 .. BlockCount(DescIn(got', id).data) : found'[id][k] = Nowhere
  BY PrepareIs
<1>2. ASSUME stage' = "sources" PROVE WholeRight'
  <2>1. \A id : Turn(id)' = <<DescIn(got', id).name, id>> /\ BlocksOf(id)' = 1 .. BlockCount(DescIn(got', id).data)
    BY DEF Turn, Description, BlocksOf, DataOf
  <2>2. \A id \in Known(got)' : Turn(id)' \in todo' /\ Untouched(id)'
    BY <1>1, <1>2, <2>1 DEF Untouched
  <2>3. \A id : ~Looking(id)'
    BY <1>2 DEF Looking
  <2> QED BY <1>2, <2>2, <2>3 DEF WholeRight
<1> QED BY <1>1, <1>2 DEF WholeFound, Working

\* the files are opened in turn,
LEMMA VerifySourceWhole ==
  ASSUME IInv, Traced, LookedFor, WholeFound, VerifySource
  PROVE  WholeFound'
<1>0. PICK id : id = Least(todo)[2]
  OBVIOUS
<1> DEFINE file == Target(id)
<1>1. /\ Least(todo) \in todo /\ todo' = todo \ {Least(todo)} /\ stage = "sources" /\ stage \in Working
      /\ UNCHANGED <<job, got, table, found, complete>> /\ ~Verified'
      /\ \/ stage' = "report"
         \/ stage' = "sources" /\ (failed' <=> failed) /\ file \notin DOMAIN job.disk
         \/ stage' = "sources" /\ (failed' <=> failed \/ id # 0)
         \/ Opened(file, id, "sources") /\ file \notin used.files /\ file \in DOMAIN job.disk
  BY <1>0, VerifySourceIs DEF Traced
<1>2. CASE ~WholeSet \/ stage' = "report"
  <2>1. WholeSet' => stage' = "report"
    BY <1>1, <1>2, SameWhole
  <2> QED BY <1>1, <2>1 DEF WholeFound, Working
<1>3. CASE WholeSet /\ stage' # "report"
  <2>1. WholeRight /\ InSources /\ SourcesRight
    BY <1>1, <1>3 DEF WholeFound, LookedFor, InSources
  <2>2. id \in Known(got) /\ Least(todo) = Turn(id) /\ id # 0 /\ Checked(id) /\ file \in DOMAIN job.disk
    <3>1. PICK x \in Known(got) : Least(todo) = Turn(x)
      BY <1>1, <2>1 DEF SourcesRight
    <3>2. id = x
      BY <1>0, <3>1 DEF Turn
    <3>3. id \in Nat \ {0}
      BY <1>1, <3>1, <3>2, AtWork, DescInIs
    <3> QED BY <1>3, <3>1, <3>2, <3>3 DEF WholeSet
  <2>3. /\ (Known(got))' = Known(got)
        /\ \A x : Target(x)' = Target(x) /\ Turn(x)' = Turn(x) /\ BlocksOf(x)' = BlocksOf(x)
    BY <1>1, SameSources DEF Turn
  <2>4. \A x \in Known(got)' : Turn(x)' \in todo' => Untouched(x)'
    BY <1>1, <2>1, <2>3 DEF WholeRight, Untouched
  <2>5. ASSUME NEW x \in Known(got), x # id PROVE Turn(x)' \in todo' \/ failed \/ complete'[x] = Target(x)'
    <3>1. Turn(x) # Turn(id)
      BY <2>5 DEF Turn
    <3>2. Turn(x) \in todo \/ failed \/ complete[x] = Target(x)
      BY <1>1, <2>1 DEF WholeRight, Looking
    <3> QED BY <1>1, <2>2, <2>3, <3>1, <3>2
  <2>6. CASE stage' = "sources" /\ (failed' <=> failed \/ id # 0)
    <3>1. \A x : ~Looking(x)'
      BY <2>6 DEF Looking
    <3>2. failed'
      BY <2>2, <2>6
    <3> QED BY <1>1, <2>4, <2>6, <3>1, <3>2 DEF WholeFound, WholeRight
  <2>7. CASE Opened(file, id, "sources") /\ file \notin used.files
    <3>1. /\ stage' = "scan" /\ failed' = failed /\ scan'.want = id /\ scan'.id = id /\ scan'.full
          /\ scan'.back = "sources" /\ scan'.count = 0
      BY <2>7 DEF Opened
    <3>2. \A x : Looking(x)' <=> x = id
      BY <3>1 DEF Looking
    <3>3. OnTrack(id)'
      BY <1>1, <2>2, <2>7, OpenedTrack
    <3>4. Untouched(id)
      BY <1>1, <2>1, <2>2 DEF WholeRight
    <3>5. BlockCount(DataOf(id)') # 0
      <4>1. 1 <= BlockCount(DataOf(id)) /\ DataOf(id)' = DataOf(id)
        BY <1>1, <2>2, SourceAtWork, SameSources
      <4> QED BY <4>1
    <3>6. Follows(id)'
      BY <1>1, <2>3, <3>1, <3>3, <3>4, <3>5 DEF Follows, Untouched
    <3>7. \A x \in Known(got)' : Turn(x)' \in todo' \/ Looking(x)' \/ failed' \/ complete'[x] = Target(x)'
      BY <2>3, <2>5, <3>1, <3>2
    <3>8. WholeRight'
      BY <2>4, <3>1, <3>2, <3>6, <3>7 DEF WholeRight
    <3> QED BY <1>1, <3>8 DEF WholeFound
  <2> QED BY <1>1, <1>3, <2>2, <2>6, <2>7
<1> QED BY <1>2, <1>3

\* followed from match to match,
LEMMA FindBlockWhole ==
  ASSUME IInv, Traced, LookedFor, WholeFound, FindBlock
  PROVE  WholeFound'
<1>1. /\ Scanning /\ stage = "scan" /\ stage \in Working
      /\ UNCHANGED <<job, stage, todo, got, table, complete, failed, result>>
      /\ scan'.file = scan.file /\ scan'.want = scan.want /\ scan'.back = scan.back /\ Data' = Data
  BY FindBlockIs
<1>2. ~Verified'
  <2>1. ~Verified
    BY <1>1, NoAnswer
  <2> QED BY <1>1, <2>1 DEF Verified
<1>3. SUFFICES ASSUME WholeSet PROVE WholeRight'
  BY <1>1, <1>2, SameWhole DEF WholeFound
<1>4. WholeRight
  BY <1>1, <1>3 DEF WholeFound
<1>5. /\ InSources /\ SourcesRight
      /\ \E id \in Known(got) :
           /\ Looking(id) /\ Checked(id) /\ Follows(id) /\ scan.file = Target(id) /\ Data = DataOf(id)
           /\ Scanning => OnTrack(id) /\ IsOf(table, Match.entry, id, scan.count + 1)
           /\ ~Scanning => scan.count = BlockCount(DataOf(id)) /\ scan.c.at = Len(Data)
  BY <1>1, <1>3, <1>4, WholeTrack
<1>6. PICK id \in Known(got) :
        /\ Looking(id) /\ Checked(id) /\ Follows(id) /\ Data = DataOf(id)
        /\ OnTrack(id) /\ IsOf(table, Match.entry, id, scan.count + 1)
  BY <1>1, <1>5
<1>7. FullTable(got, table)
  BY <1>1 DEF Traced
<1>8. /\ scan'.id = id /\ (scan.full => scan'.full) /\ scan'.count \in BlocksOf(id) /\ scan'.count = scan.count + 1
      /\ \A k \in BlocksOf(id) : k # scan'.count => found'[id][k] = found[id][k]
      /\ IF scan'.count = BlockCount(DataOf(id))
         THEN scan'.next = 0 /\ (Data = DataOf(id) => scan'.c.at = Len(Data))
         ELSE OnTrack(id)'
  BY <1>6, <1>7, FollowOn
<1>9. \A x \in Known(got) : x # id => \A k \in BlocksOf(x) : found'[x][k] = found[x][k]
  <2> DEFINE e == table.entry[Match.entry]
  <2>1. \A x \in Known(got) : \A k \in BlocksOf(x) : x # e.file \/ k # e.num => found'[x][k] = found[x][k]
    BY FindBlockIs
  <2>2. e.file = id
    BY <1>6 DEF IsOf
  <2> HIDE DEF e
  <2> QED BY <2>1, <2>2
<1>10. /\ (Known(got))' = Known(got)
       /\ \A x : /\ Target(x)' = Target(x) /\ Turn(x)' = Turn(x) /\ BlocksOf(x)' = BlocksOf(x) /\ DataOf(x)' = DataOf(x)
                 /\ (Looking(x)' <=> Looking(x))
  BY <1>1, SameSources DEF Turn, Looking
<1>11. \A x : Looking(x) => x = id
  BY <1>6 DEF Looking
<1>12. Follows(id)'
  <2> DEFINE q == scan'.count
             at == scan'.c.at
  <2>1. complete'[id] = NoFile /\ scan'.full
    BY <1>1, <1>6, <1>8 DEF Follows
  <2>2. ASSUME NEW k \in BlocksOf(id), k > q PROVE found'[id][k] = Nowhere
    <3>1. scan.count \in Nat /\ k \in Nat
      BY <1>1, ScanningIs DEF ScanRight, BlocksOf
    <3>2. k # q /\ k > scan.count
      BY <1>8, <2>2, <3>1
    <3> QED BY <1>6, <1>8, <2>2, <3>2 DEF Follows
  <2>3. q = BlockCount(DataOf(id)) => at = Len(Data)
    BY <1>6, <1>8
  <2>4. q # BlockCount(DataOf(id)) => OnTrack(id)'
    BY <1>8
  <2> HIDE DEF q, at
  <2>5. IF q = BlockCount(DataOf(id)') THEN at = Len(Data') ELSE OnTrack(id)'
    BY <1>1, <1>10, <2>3, <2>4
  <2>6. \A k \in BlocksOf(id)' : k > q => found'[id][k] = Nowhere
    BY <1>10, <2>2
  <2> QED BY <1>8, <2>1, <2>5, <2>6 DEF Follows, q, at
<1>13. ASSUME NEW x \in Known(got), Turn(x) \in todo PROVE Untouched(x)'
  <2>1. x # id
    BY <1>5, <1>6, <1>13 DEF SourcesRight
  <2>2. Untouched(x)
    BY <1>4, <1>5, <1>13 DEF WholeRight
  <2> QED BY <1>1, <1>9, <1>10, <2>1, <2>2 DEF Untouched
<1>14. \A x \in Known(got)' : Turn(x)' \in todo' => Untouched(x)'
  BY <1>1, <1>10, <1>13
<1>15. \A x \in Known(got)' : Looking(x)' => Follows(x)'
  BY <1>10, <1>11, <1>12
<1>16. \A x \in Known(got)' : Turn(x)' \in todo' \/ Looking(x)' \/ failed' \/ complete'[x] = Target(x)'
  BY <1>1, <1>4, <1>5, <1>10 DEF WholeRight
<1> QED BY <1>1, <1>4, <1>14, <1>15, <1>16 DEF WholeRight

\* without a gap,
LEMMA SkipOnWhole ==
  ASSUME IInv, Traced, LookedFor, WholeFound, SkipOn
  PROVE  WholeFound'
<1>1. /\ Scanning /\ stage = "scan" /\ stage \in Working /\ Match.entry = 0
      /\ UNCHANGED <<job, stage, got, table, result>>
  BY SkipOnIs
<1>2. ~Verified'
  <2>1. ~Verified
    BY <1>1, NoAnswer
  <2> QED BY <1>1, <2>1 DEF Verified
<1>3. ASSUME WholeSet PROVE FALSE
  <2>1. WholeRight
    BY <1>1, <1>3 DEF WholeFound
  <2>2. \E id \in Known(got) : IsOf(table, Match.entry, id, scan.count + 1)
    BY <1>1, <1>3, <2>1, WholeTrack
  <2>3. Match.entry \in 1 .. Len(table.entry) /\ Len(table.entry) \in Nat
    BY <1>1, <2>2, AtWork DEF IsOf
  <2> QED BY <1>1, <2>3
<1> QED BY <1>1, <1>2, <1>3, SameWhole DEF WholeFound

\* and complete at the end,
LEMMA EndScanWhole ==
  ASSUME IInv, Traced, LookedFor, WholeFound, EndScan
  PROVE  WholeFound'
<1>1. /\ stage = "scan" /\ stage \in Working /\ ~Scanning /\ stage' = scan.back
      /\ UNCHANGED <<job, todo, got, table, failed, result>>
      /\ FullMatch => complete' = [complete EXCEPT ![scan.id] = scan.file] /\ found' = found
  BY EndScanIs
<1>2. ~Verified'
  <2>1. ~Verified
    BY <1>1, NoAnswer
  <2> QED BY <1>1, <2>1 DEF Verified
<1>3. SUFFICES ASSUME WholeSet PROVE WholeRight'
  BY <1>1, <1>2, SameWhole DEF WholeFound
<1>4. WholeRight
  BY <1>1, <1>3 DEF WholeFound
<1>5. /\ InSources /\ SourcesRight
      /\ \E id \in Known(got) :
           /\ Looking(id) /\ Checked(id) /\ Follows(id) /\ scan.file = Target(id) /\ Data = DataOf(id)
           /\ Scanning => OnTrack(id) /\ IsOf(table, Match.entry, id, scan.count + 1)
           /\ ~Scanning => scan.count = BlockCount(DataOf(id)) /\ scan.c.at = Len(Data)
  BY <1>1, <1>3, <1>4, WholeTrack
<1>6. PICK id \in Known(got) :
        /\ Looking(id) /\ Checked(id) /\ Follows(id) /\ scan.file = Target(id) /\ Data = DataOf(id)
        /\ scan.count = BlockCount(DataOf(id)) /\ scan.c.at = Len(Data)
  BY <1>1, <1>5
<1>7. FullMatch
  BY <1>1, <1>6, WholeMatch
<1>8. scan.id = id /\ DOMAIN complete = Known(got)
  BY <1>1, <1>6, AtWork DEF Follows
<1>9. found' = found /\ complete'[id] = Target(id) /\ \A x \in Known(got) : x # id => complete'[x] = complete[x]
  BY <1>1, <1>6, <1>7, <1>8
<1>10. /\ (Known(got))' = Known(got)
       /\ \A x : Target(x)' = Target(x) /\ Turn(x)' = Turn(x) /\ BlocksOf(x)' = BlocksOf(x)
  BY <1>1, SameSources DEF Turn
<1>11. stage' = "sources" /\ \A x : ~Looking(x)'
  BY <1>1, <1>4 DEF WholeRight, Looking
<1>12. ASSUME NEW x \in Known(got), Turn(x) \in todo PROVE Untouched(x)'
  <2>1. x # id
    BY <1>5, <1>6, <1>12 DEF SourcesRight
  <2>2. Untouched(x)
    BY <1>4, <1>5, <1>12 DEF WholeRight
  <2> QED BY <1>9, <1>10, <2>1, <2>2 DEF Untouched
<1>13. \A x \in Known(got)' : Turn(x)' \in todo' => Untouched(x)'
  BY <1>1, <1>10, <1>12
<1>14. ASSUME NEW x \in Known(got) PROVE Turn(x)' \in todo' \/ failed' \/ complete'[x] = Target(x)'
  <2>1. CASE x = id
    BY <1>9, <1>10, <2>1
  <2>2. CASE x # id
    <3>1. ~Looking(x)
      BY <1>6, <2>2 DEF Looking
    <3>2. Turn(x) \in todo \/ failed \/ complete[x] = Target(x)
      BY <1>4, <1>5, <3>1 DEF WholeRight
    <3> QED BY <1>1, <1>9, <1>10, <2>2, <3>2
  <2> QED BY <2>1, <2>2
<1> QED BY <1>10, <1>11, <1>13, <1>14 DEF WholeRight

\* so that all are complete after the last,
LEMMA BetweenWhole ==
  ASSUME IInv, WholeFound, EndSources \/ EndExtra \/ Decide
  PROVE  WholeFound'
<1>1. /\ stage \in {"sources", "extra", "result"} /\ UNCHANGED <<job, got, used, table, found, complete>>
      /\ stage' \in {"extra", "result", "report"} /\ (~Decide => ~Verified')
      /\ stage' # "report" => ~Decide /\ (stage = "sources" => todo = {} /\ ~failed)
  BY BetweenIs
<1>2. SUFFICES ASSUME WholeSet PROVE (stage' \in Working => WholeRight') /\ (Verified' => result' = "eSuccess")
  BY <1>1, SameWhole DEF WholeFound
<1>3. WholeRight /\ stage \in Working /\ stage # "extra"
  BY <1>1, <1>2 DEF WholeFound, Working, WholeRight
<1>4. CASE Decide
  <2>1. stage' = "report" /\ stage = "result"
    BY <1>4 DEF Decide
  <2>2. result' = "eSuccess"
    BY <1>3, <1>4, <2>1 DEF WholeRight, Decide
  <2> QED BY <2>1, <2>2 DEF Working
<1>5. CASE stage' = "report" /\ ~Decide
  BY <1>1, <1>5 DEF Working
<1>6. CASE stage' # "report"
  <2>1. stage = "sources" /\ todo = {} /\ ~failed /\ EndSources /\ ~Decide
    BY <1>1, <1>3, <1>6 DEF EndExtra, EndSources
  <2>2. \A id \in Known(got) : complete[id] = Target(id)
    BY <1>3, <2>1 DEF WholeRight, InSources, Looking
  <2>3. AllComplete
    BY <1>3, <2>2, AllIsComplete
  <2>4. stage' = "result"
    BY <2>1, <2>3 DEF EndSources
  <2>5. AllComplete'
    BY <1>1, <2>3, SameAnswer
  <2>6. ~InSources'
    BY <2>4 DEF InSources
  <2> QED BY <1>1, <2>1, <2>4, <2>5, <2>6 DEF WholeRight
<1> QED BY <1>4, <1>5, <1>6

\* with nothing to load or report in between,
LEMMA OthersWhole ==
  ASSUME IInv, WholeFound, Load \/ Report
  PROVE  WholeFound'
<1>1. \/ stage' \notin Working /\ ~Verified'
      \/ stage' \notin Working /\ (Verified' => Verified) /\ UNCHANGED <<job, got, found, complete, result>>
  BY OthersIdle DEF Idles
<1>2. CASE stage' \notin Working /\ ~Verified'
  BY <1>2 DEF WholeFound
<1>3. CASE stage' \notin Working /\ (Verified' => Verified) /\ UNCHANGED <<job, got, found, complete, result>>
  BY <1>3, SameWhole DEF WholeFound
<1> QED BY <1>1, <1>2, <1>3

\* and no other file is scanned.
LEMMA NextExtraWhole ==
  ASSUME IInv, Traced, WholeFound, NextExtra
  PROVE  WholeFound'
<1>1. stage = "extra" /\ stage \in Working /\ UNCHANGED <<job, got, table, found, complete, result>>
  BY NextExtraIs DEF Traced
<1>2. ~WholeSet
  BY <1>1 DEF WholeFound, WholeRight
<1> QED BY <1>1, <1>2, SameWhole DEF WholeFound

\* At first nothing has been verified.
LEMMA InitWhole == Init => WholeFound
BY DEF Init, WholeFound, Working, Verified

\* Every step keeps it.
LEMMA StepWhole ==
  ASSUME IInv, Traced, LookedFor, WholeFound, [Next]_vars
  PROVE  WholeFound'
<1>1. CASE Done \/ UNCHANGED vars
  <2>1. UNCHANGED <<job, stage, todo, got, used, table, found, complete, scan, failed, result>>
    BY <1>1 DEF Done, vars
  <2>2. /\ (Known(got))' = Known(got)
        /\ \A id : /\ Target(id)' = Target(id) /\ Turn(id)' = Turn(id) /\ BlocksOf(id)' = BlocksOf(id)
                   /\ DataOf(id)' = DataOf(id)
    BY <2>1, SameSources DEF Turn
  <2>3. WholeSet' <=> WholeSet
    BY <2>1, SameWhole
  <2>4. AllComplete' <=> AllComplete
    BY <2>1, SameAnswer
  <2>5. \A id : OnTrack(id) => OnTrack(id)'
    BY <2>1, <2>2 DEF OnTrack, Data
  <2>6. \A id : (Untouched(id) => Untouched(id)') /\ (Follows(id) => Follows(id)')
    BY <2>1, <2>2, <2>5 DEF Untouched, Follows, Data
  <2>7. (InSources' <=> InSources) /\ (Verified' <=> Verified) /\ \A id : Looking(id)' <=> Looking(id)
    BY <2>1 DEF InSources, Verified, Looking
  <2>8. WholeRight => WholeRight'
    BY <2>1, <2>2, <2>4, <2>6, <2>7 DEF WholeRight
  <2> QED BY <2>1, <2>3, <2>7, <2>8 DEF WholeFound
<1>2. CASE Load \/ Report
  BY <1>2, OthersWhole
<1>3. CASE Prepare
  BY <1>3, PrepareWhole
<1>4. CASE VerifySource
  BY <1>4, VerifySourceWhole
<1>5. CASE EndSources \/ EndExtra \/ Decide
  BY <1>5, BetweenWhole
<1>6. CASE FindBlock
  BY <1>6, FindBlockWhole
<1>7. CASE SkipOn
  BY <1>7, SkipOnWhole
<1>8. CASE EndScan
  BY <1>8, EndScanWhole
<1>9. CASE NextExtra
  BY <1>9, NextExtraWhole
<1> QED BY <1>1, <1>2, <1>3, <1>4, <1>5, <1>6, <1>7, <1>8, <1>9 DEF Next

-----------------------------------------------------------------------------
(* And so what is intact is found. *)

\* What the steps of VerifySourceFiles(), VerifyExtraFiles() and ScanDataFile() keep,
\* on top of IInv: the table has every block of every file that can be verified, the
\* scan of a source file in its own place has found what it has passed, unless it has
\* been disturbed, and of a set that is whole every file is complete.
THEOREM LookingInvariance == Spec => [](Traced /\ LookedFor /\ WholeFound)
<1>1. Init => Traced /\ LookedFor /\ WholeFound
  BY InitTraces, InitLooks, InitWhole
<1>2. IInv /\ (Traced /\ LookedFor /\ WholeFound) /\ [Next]_vars => (Traced /\ LookedFor /\ WholeFound)'
  BY StepTraces, StepLooks, StepWhole
<1> QED BY <1>1, <1>2, Invariance, PTL DEF Spec

\* Once verified, that is what IntactIsFound says.
LEMMA IntactOfInv ==
  ASSUME IInv, Traced, LookedFor, WholeFound
  PROVE  IntactIsFound
<1>1. ASSUME stage = "sources" PROVE TableRight(table)
  <2>1. stage \in Working
    BY <1>1 DEF Working
  <2>2. IsTable(table, Cores(got), Len(table.entry)) /\ Searchable(table)
    BY <2>1, AtWork DEF Traced, FullTable
  <2> QED BY <2>2, TableIsRight
<1>2. ASSUME Verified
      PROVE  /\ \A id \in DOMAIN found :
                  Checked(id) /\ Alone(id) /\ ~Disturbed(id) => \A k \in Intact(id) : found[id][k] # Nowhere
             /\ (\A id \in DOMAIN found :
                   Checked(id) /\ Target(id) \in DOMAIN job.disk /\ job.disk[Target(id)] = DataOf(id))
                  => result = "eSuccess"
  <2>1. Prepared(job, got, table, found, complete)
    BY <1>2 DEF IInv
  <2>2. DOMAIN found = Known(got) /\ \A id \in Known(got) : DOMAIN found[id] = BlocksOf(id)
    BY <2>1, SourcesAre DEF BlocksOf
  <2>3. ASSUME NEW id \in Known(got), Checked(id), Alone(id), ~Disturbed(id), NEW k \in Intact(id)
        PROVE  found[id][k] # Nowhere
    <3>1. k \in BlocksOf(id) /\ IntactTo(id, k)
      BY <2>2 DEF Intact, IntactTo
    <3>2. Looked(id)
      BY <1>2 DEF LookedFor
    <3>3. Only(id)
      BY <2>2, <2>3 DEF Alone, Only
    <3>4. ~Elsewhere(id)
      BY <2>2, <2>3 DEF Disturbed, Elsewhere
    <3>5. IsSet(found[id][k])
      BY <2>3, <3>1, <3>2, <3>3, <3>4 DEF Looked
    <3> QED BY <3>5 DEF IsSet, Nowhere, Location
  <2>4. ASSUME \A id \in Known(got) : Checked(id) /\ Target(id) \in DOMAIN job.disk /\ job.disk[Target(id)] = DataOf(id)
        PROVE  result = "eSuccess"
    BY <1>2, <2>4 DEF WholeFound, WholeSet
  <2> QED BY <2>2, <2>3, <2>4
<1> QED BY <1>1, <1>2 DEF IntactIsFound

\* What is intact is found: a block that is in the file of its name, at its place behind
\* others that are, has a location after VerifySourceFiles() and VerifyExtraFiles() unless
\* another place that has the same was found first, every entry of the table is found by
\* FindMatch(), and Process() of a set that is whole returns eSuccess.
THEOREM IntactIsFoundAlways == Spec => []IntactIsFound
<1>1. IInv /\ (Traced /\ LookedFor /\ WholeFound) => IntactIsFound
  BY IntactOfInv
<1> QED BY <1>1, Invariance, LookingInvariance, PTL
=============================================================================
