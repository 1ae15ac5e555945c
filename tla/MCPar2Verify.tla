--------------------------- MODULE MCPar2Verify ---------------------------
(***************************************************************************)
(* Par2Verify with two source files of a few blocks, that share data or    *)
(* not, whose files are missing, cut, shifted, mixed up or renamed; and    *)
(* with par2 files that lack or repeat packets.                            *)
(***************************************************************************)
EXTENDS Par2Verify

\* CRCs collide, hashes do not.
SumOfBytes(s) == FoldLeft(LAMBDA sum, byte : sum + byte, 0, s) % 3
InBase3(s) == FoldLeft(LAMBDA n, byte : 3 * n + byte, 0, s)

OfType(type) == [type |-> type, set |-> "this"]
MainOf(ids) == OfType("main") @@ [ids |-> ids, count |-> Len(ids), size |-> BlockSize]
DescOf(id, data) == OfType("desc") @@ [id |-> id, name |-> id, data |-> data, first |-> Bytes(data, 0, HashedFirst)]
VerifyOf(id, data) ==
  OfType("verify") @@ [id |-> id, blocks |-> [k \in 1 .. BlockCount(data) |-> Block(data, k)]]
Recovery(exponent) == OfType("recovery") @@ [exponent |-> exponent, size |-> BlockSize]
Creator == OfType("creator") @@ [client |-> "par2cmdline"]
Damaged == OfType("damaged")
Alien == [MainOf(<<1, 2>>) EXCEPT !.set = "other"]

Index(packets) == [stem |-> 1, volume |-> FALSE, odd |-> FALSE, packets |-> packets]
Volume(packets) == [stem |-> 1, volume |-> TRUE, odd |-> FALSE, packets |-> packets]

Critical(a, b) == <<MainOf(<<1, 2>>), DescOf(1, a), VerifyOf(1, a), DescOf(2, b), VerifyOf(2, b)>>

\* The index file and one volume.
Usual(a, b) == <<Index(Critical(a, b)), Volume(<<Recovery(1), Creator>>)>>

Odd(a, b) ==
  LET c == Critical(a, b) IN
  {<<Index(<<Damaged>> \o c)>>,
   <<Index(<<Damaged, c[2]>>), Volume(c \o <<Recovery(1)>>), Volume(<<Recovery(1), Recovery(2)>>)>>,
   <<Index(<<c[1], c[2], c[3], c[4]>>), Volume(<<Recovery(1)>>)>>,
   <<Index(<<c[1], c[2], c[4]>>)>>,
   <<Index(<<c[1], c[2], c[3], c[5]>>)>>,
   <<Index(<<c[1], c[2], c[3]>>), [Volume(<<c[4], c[5]>>) EXCEPT !.stem = 2]>>,
   <<Index(<<c[1], c[2], c[3]>>), [Volume(<<c[4], c[5]>>) EXCEPT !.odd = TRUE]>>,
   <<Index(<<c[2], Alien>> \o c \o <<[Recovery(1) EXCEPT !.size = 1]>>)>>,
   <<Index(<<c[1], c[2], [VerifyOf(1, b) EXCEPT !.blocks = Append(@, <<0, 0>>)], c[4], c[5]>>)>>,
   <<Index(<<c[1], c[2], c[3], [c[4] EXCEPT !.name = 1], c[5]>>)>>,
   <<Index(<<[c[1] EXCEPT !.count = 3], [c[2] EXCEPT !.data = <<1>>, !.first = <<>>], [Creator EXCEPT !.client = ""],
             [Recovery(2) EXCEPT !.size = 0], [c[3] EXCEPT !.blocks = <<>>]>> \o c)>>}

\* The data of two source files.
Pairs == {<< <<1, 2, 1>>, <<2, 2, 1, 1>> >>, << <<1, 2, 1, 2>>, <<1, 2, 2>> >>,
          << <<1, 2, 2, 1, 2>>, <<2, 1>> >>, << <<2, 1, 1>>, <<2, 1, 1>> >>}

Files(a, b) ==
  {a, b, a \o b, <<0>> \o a, Tail(a), SubSeq(a, 1, Len(a) - 1), [a EXCEPT ![1] = 0],
   [a EXCEPT ![Len(a)] = 0], SubSeq(b, 1, 2) \o a, <<>>}

Few(a, b) == {a, SubSeq(b, 1, 2) \o a}

Disks(first, second, copies) ==
  {f @@ g @@ h : f \in {<<>>} \cup [{<<1, 0>>} -> first], g \in {<<>>} \cup [{<<2, 0>>} -> second],
                 h \in {<<>>} \cup copies}

Directory(disk, pars) == [disk |-> disk, pars |-> pars, unreadable |-> {}]

DamagedFiles ==
  UNION {{Directory(d, Usual(p[1], p[2])) :
            d \in Disks(Files(p[1], p[2]), Files(p[2], p[1]),
                        [{<<1, 1>>} -> Files(p[1], p[2])] \cup [{<<0, 1>>} -> Few(p[2], p[1])])} : p \in Pairs}

OddSets ==
  UNION {UNION {{Directory(d, pars) :
                   d \in Disks(Files(p[1], p[2]), Few(p[2], p[1]), [{<<2, 1>>} -> Few(p[2], p[1])])} :
                pars \in Odd(p[1], p[2])} : p \in Pairs}

Unreadable ==
  UNION {{[Directory(d, Usual(p[1], p[2])) EXCEPT !.unreadable = u] :
            d \in Disks({p[1]}, {p[2]}, [{<<2, 1>>} -> {p[2]}]), u \in {{<<1, 0>>}, {<<2, 1>>}}} : p \in Pairs}

\* A file that ends in the second block, of which the rest is the same as in
\* the first.
CutFiles ==
  LET a == <<0, 2, 1, 2>>
      b == <<1, 1>>
  IN {Directory(d, Usual(a, b)) : d \in Disks({<<0, 2, 1>>, a}, {b}, [{<<1, 1>>} -> {<<0, 2, 1>>, <<1, 2>>}])}

\* A file with a block that it has twice, which is in another file, too.
TwiceFiles ==
  LET a == <<2, 2>>
      b == <<1, 1, 1, 2, 1, 2, 2>>
  IN {Directory(d, Usual(a, b)) : d \in Disks({a, <<1, 2, 1, 2>>, <<2, 1, 2>>}, {b, Tail(b)}, [{<<1, 1>>} -> {a, b}])}

Directories == DamagedFiles \cup OddSets \cup Unreadable \cup CutFiles \cup TwiceFiles
=============================================================================
