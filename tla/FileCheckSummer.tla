-------------------------- MODULE FileCheckSummer --------------------------
(***************************************************************************)
(* The FileCheckSummer of par2/: a window of BlockSize bytes that slides   *)
(* along a file, in a buffer of two blocks that is filled from disk as the *)
(* window moves.  A checksummer is a record; the file it reads is passed   *)
(* along as the sequence of its bytes.                                     *)
(*                                                                         *)
(* An MD5 hash is the sequence it is the hash of, a CRC a number that      *)
(* different data may share.                                               *)
(***************************************************************************)
EXTENDS Integers, Sequences, FiniteSets, SequencesExt

CONSTANTS
  BlockSize,   \* bytes in a block
  HashedFirst, \* bytes in the first part of a file that has a hash of its own (16384)
  Byte,        \* the bytes in files
  Crc(_)       \* the CRC of a block

BlockData == [1 .. BlockSize -> Byte]

ASSUME SizesAssumption == BlockSize \in Nat \ {0} /\ HashedFirst \in Nat
ASSUME CrcAssumption == 0 \in Byte /\ \A s \in BlockData : Crc(s) \in Nat

\* Up to n bytes of a file from an offset on.
Bytes(data, from, n) == SubSeq(data, from + 1, IF from + n < Len(data) THEN from + n ELSE Len(data))

\* Zeros follow what is too short.
Padded(s, n) == s \o [i \in 1 .. n - Len(s) |-> 0]

Checksummers ==
  [at : Nat,                \* currentoffset
   buffer : Seq(Byte),      \* 2 * BlockSize bytes
   out : 0 .. BlockSize,    \* outpointer
   tail : 0 .. 2 * BlockSize,  \* tailpointer: behind the last byte of the file in the buffer
   read : Nat,              \* readoffset
   first : Seq(Byte),       \* what context16k has been given
   full : Seq(Byte)]        \* what contextfull has been given, if anything

\* UpdateHashes(readoffset, ..): bytes that have just been read.
UpdateHashes(c, bytes) ==
  LET want == HashedFirst - c.read IN
  CASE c.read >= HashedFirst -> [c EXCEPT !.full = @ \o bytes]
    [] c.read < HashedFirst /\ c.read + Len(bytes) >= HashedFirst ->
         LET first == c.first \o SubSeq(bytes, 1, want)
         IN [c EXCEPT !.first = first, !.full = first \o SubSeq(bytes, want + 1, Len(bytes))]
    [] OTHER -> [c EXCEPT !.first = @ \o bytes]

\* Nothing is blanked when all of the file has been read before.
Fill(c, data) ==
  IF c.read >= Len(data) THEN c
  ELSE LET bytes == Bytes(data, c.read, 2 * BlockSize - c.tail)
       IN [UpdateHashes(c, bytes) EXCEPT
             !.buffer = Padded(SubSeq(@, 1, c.tail) \o bytes, 2 * BlockSize),
             !.read = @ + Len(bytes),
             !.tail = @ + Len(bytes)]

Start(data) ==
  Fill([at |-> 0, buffer |-> Padded(<<>>, 2 * BlockSize), out |-> 0, tail |-> 0, read |-> 0,
        first |-> <<>>, full |-> <<>>], data)

AtEnd(c, data) ==
  [c EXCEPT !.at = Len(data), !.out = 0, !.tail = 0,
            !.buffer = Padded(<<>>, BlockSize) \o SubSeq(@, BlockSize + 1, 2 * BlockSize)]

\* The window moves on by a byte; at the end of the first block of the buffer
\* the second block is moved there.
Step(c, data) ==
  CASE c.at + 1 >= Len(data) -> AtEnd(c, data)
    [] c.at + 1 < Len(data) /\ c.out + 1 < BlockSize -> [c EXCEPT !.at = @ + 1, !.out = @ + 1]
    [] OTHER ->
         LET second == SubSeq(c.buffer, BlockSize + 1, 2 * BlockSize)
         IN Fill([c EXCEPT !.at = @ + 1, !.out = 0, !.tail = @ - BlockSize,
                           !.buffer = second \o second], data)

\* Mutant: no jump over the end.
JumpInside(c, data, distance) ==
  IF distance = 1 THEN Step(c, data)
  ELSE IF c.at + distance >= Len(data) THEN c
  ELSE LET out == c.out + distance
           keep == c.tail - out
       IN Fill([c EXCEPT !.at = @ + distance, !.out = 0, !.tail = keep,
                         !.buffer = SubSeq(@, out + 1, c.tail) \o SubSeq(@, keep + 1, Len(@))],
               data)

\* Mutant: what is kept of the buffer stays where it is.
JumpUnmoved(c, data, distance) ==
  IF distance = 1 THEN Step(c, data)
  ELSE IF c.at + distance >= Len(data) THEN AtEnd(c, data)
  ELSE Fill([c EXCEPT !.at = @ + distance, !.out = 0, !.tail = c.tail - c.out - distance], data)

\* What is kept of the buffer is moved to its front.
Jump(c, data, distance) ==
  CASE distance = 1 -> Step(c, data)
    [] distance # 1 /\ c.at + distance >= Len(data) -> AtEnd(c, data)
    [] OTHER ->
         LET out == c.out + distance
             keep == c.tail - out
         IN Fill([c EXCEPT !.at = @ + distance, !.out = 0, !.tail = keep,
                           !.buffer = SubSeq(@, out + 1, c.tail) \o SubSeq(@, keep + 1, Len(@))],
                 data)

BlockLength(c, data) == Len(Bytes(data, c.at, BlockSize))

ShortBlock(c, data) == BlockLength(c, data) < BlockSize

Window(c, length) == SubSeq(c.buffer, c.out + 1, c.out + length)

\* The checksum slides along with the window: it is that of the window.
Hash(c) == Window(c, BlockSize)
Checksum(c) == Crc(Hash(c))

ShortHash(c, length) == Padded(Window(c, length), BlockSize)
ShortChecksum(c, length) == Crc(ShortHash(c, length))

\* GetFileHashes.
Hash16k(c) == c.first
HashFull(c, data) == IF Len(data) < HashedFirst THEN c.first ELSE c.full

-----------------------------------------------------------------------------
(* What a user of a checksummer relies on. *)

\* The bytes of the window that are in the file are the file's.
WindowRight(c, data) ==
  c.at < Len(data) =>
    /\ Window(c, BlockLength(c, data)) = Bytes(data, c.at, BlockSize)
    /\ c.tail >= c.out + BlockLength(c, data)

\* At the end the hashes are those of the file.
HashesRight(c, data) ==
  c.at = Len(data) =>
    /\ HashFull(c, data) = data
    /\ Hash16k(c) = Bytes(data, 0, HashedFirst)
=============================================================================
