----------------------- MODULE VerificationHashTable -----------------------
(***************************************************************************)
(* The VerificationHashTable of par2/: the checksums of all blocks that    *)
(* may be found, in binary trees, one for each bucket.  Blocks with equal  *)
(* data are in the list `same' of the first of them.                       *)
(*                                                                         *)
(* An entry is named by its number, in the order of insertion; 0 is the    *)
(* null pointer.                                                           *)
(***************************************************************************)
EXTENDS FileCheckSummer

CONSTANTS
  Buckets,    \* size of the table (a power of two from 256 to 65536)
  Number(_)   \* an MD5 hash as the number by which hashes are compared

ASSUME BucketsAssumption == Buckets \in Nat \ {0}
ASSUME NumberAssumption ==
  \A s, u \in BlockData : Number(s) \in Nat /\ (Number(s) = Number(u) => s = u)

\* VerificationHashEntry's operator<.
Less(crc, hash, e) == crc < e.crc \/ (crc = e.crc /\ Number(hash) < Number(e.hash))
Greater(crc, hash, e) == crc > e.crc \/ (crc = e.crc /\ Number(hash) > Number(e.hash))

EmptyTable == [entry |-> <<>>, root |-> [b \in 0 .. Buckets - 1 |-> 0]]

\* The entry of block `num' of a file of `count' blocks; `length' bytes of it
\* are the file's.
Entry(file, num, count, hash, length) ==
  [file |-> file, num |-> num, last |-> num = count, hash |-> hash, crc |-> Crc(hash),
   length |-> length, left |-> 0, right |-> 0, same |-> 0]

\* Along the links from entry i on, to a member of ends or to the null pointer.
EndOf(link, ends, i) ==
  LET At[j \in {0} \cup DOMAIN link] == IF j = 0 \/ j \in ends THEN j ELSE At[link[j]]
  IN At[i]

\* VerificationHashEntry::Insert: down the tree, then along the list.
Insert(t, e) ==
  LET n == Len(t.entry) + 1
      bucket == e.crc % Buckets
      way == [i \in DOMAIN t.entry |->
               IF Greater(e.crc, e.hash, t.entry[i]) THEN "right"
               ELSE IF Less(e.crc, e.hash, t.entry[i]) THEN "left" ELSE "same"]
      link == [i \in DOMAIN t.entry |-> t.entry[i][way[i]]]
      last == EndOf(link, {i \in DOMAIN t.entry : link[i] = 0}, t.root[bucket])
  IN IF last = 0 THEN [entry |-> Append(t.entry, e), root |-> [t.root EXCEPT ![bucket] = n]]
     ELSE [t EXCEPT !.entry = Append([@ EXCEPT ![last][way[last]] = n], e)]

\* VerificationHashEntry::Search(entry, crc).
SearchCrc(t, crc) ==
  LET link == [i \in DOMAIN t.entry |->
                IF t.entry[i].crc < crc THEN t.entry[i].right ELSE t.entry[i].left]
  IN EndOf(link, {i \in DOMAIN t.entry : t.entry[i].crc = crc}, t.root[crc % Buckets])

\* VerificationHashEntry::Search(entry, hash), from an entry with the crc.
SearchHash(t, from, hash) ==
  LET crc == t.entry[from].crc
      right == {i \in DOMAIN t.entry : Greater(crc, hash, t.entry[i])}
      left == {i \in DOMAIN t.entry : Less(crc, hash, t.entry[i])}
      link == [i \in DOMAIN t.entry |-> IF i \in right THEN t.entry[i].right ELSE t.entry[i].left]
  IN EndOf(link, (DOMAIN t.entry) \ (left \cup right), from)

\* The bytes of block k that are in a file of this size.
LengthOf(size, k) ==
  IF size - (k - 1) * BlockSize < BlockSize THEN size - (k - 1) * BlockSize ELSE BlockSize

\* VerificationHashTable::Load: the entries of a file.
LoadFile(t, file, hashes, size) ==
  FoldLeft(LAMBDA u, k : Insert(u, Entry(file, k, Len(hashes), hashes[k], LengthOf(size, k))),
           t, [k \in DOMAIN hashes |-> k])

\* Mutant: no suggestion.
NextNone(t, i) == 0

NextEntry(t, i) == IF t.entry[i].last THEN 0 ELSE i + 1

-----------------------------------------------------------------------------
(* FindMatch.  What the window shows is looked up: the entry that is       *)
(* expected next first, then all with the same checksums.  `taken' are the *)
(* entries whose block has been found, `here' those found in this file,    *)
(* `whole' the source files of which there is a complete copy.             *)

NoMatch == [entry |-> 0, duplicate |-> FALSE]
Duplicate == [entry |-> 0, duplicate |-> TRUE]
MatchOf(i) == [entry |-> i, duplicate |-> FALSE]

\* Short at the end of the file: the block must have that length.
Fits(e, c, data) == ShortBlock(c, data) => BlockLength(c, data) = e.length

\* Mutant: the CRC is enough.
ExpectedByCrc(t, next, c, taken) ==
  next # 0 /\ next \notin taken /\ Checksum(c) = t.entry[next].crc

Expected(t, next, c, taken) ==
  /\ next # 0
  /\ LET e == t.entry[next]
     IN IF e.last
        THEN ShortChecksum(c, e.length) = e.crc /\ ShortHash(c, e.length) = e.hash
        ELSE next \notin taken /\ Checksum(c) = e.crc /\ Hash(c) = e.hash

FindOnly(t, i, next, c, data, taken, here, whole) ==
  LET e == t.entry[i] IN
  CASE e.file \in whole -> Duplicate
    [] e.file \notin whole /\ ~Fits(e, c, data) -> NoMatch
    [] e.file \notin whole /\ Fits(e, c, data) ->
         IF \/ e.num = 1 /\ c.at = 0
            \/ i = next /\ i \notin here
            \/ i # next /\ i \notin taken
         THEN MatchOf(i) ELSE Duplicate

\* The first of the list that starts with entry i that is in S, or 0.
FirstOf(t, i, S) == EndOf([j \in DOMAIN t.entry |-> t.entry[j].same], S, i)

FindAmong(t, i, file, c, data, taken) ==
  LET free == {j \in (DOMAIN t.entry) \ taken : Fits(t.entry[j], c, data)}
      own == FirstOf(t, i, {j \in free : t.entry[j].file = file})
      any == FirstOf(t, i, free)
  IN CASE own # 0 -> MatchOf(own)
       [] own = 0 /\ any # 0 -> MatchOf(any)
       [] OTHER -> Duplicate

FindMatch(t, next, file, c, data, taken, here, whole) ==
  LET top == SearchCrc(t, Checksum(c))
      hit == IF top = 0 THEN 0 ELSE SearchHash(t, top, Hash(c))
  IN CASE Expected(t, next, c, taken) -> MatchOf(next)
       [] ~Expected(t, next, c, taken) /\ hit = 0 -> NoMatch
       [] OTHER ->
            IF t.entry[hit].same = 0
            THEN FindOnly(t, hit, next, c, data, taken, here, whole)
            ELSE FindAmong(t, hit, file, c, data, taken)

-----------------------------------------------------------------------------

\* What the trees are for: an entry is found by its checksums if there is one,
\* and its list has those that are equal to it, in the order of insertion.
TableRight(t) ==
  \A i, j \in DOMAIN t.entry :
    LET e == t.entry[i]
        list == SearchHash(t, SearchCrc(t, e.crc), e.hash)
    IN FirstOf(t, list, {i, j}) = IF t.entry[j].hash = e.hash /\ j < i THEN j ELSE i
=============================================================================
