-------------------------- MODULE XoverStreamProofs --------------------------
(***************************************************************************)
(* Proofs about XoverStream: one repeated session is enough after a        *)
(* streaming error, and, when an error reply never leaves other replies    *)
(* behind it, every line is taken for what the server meant by it.         *)
(***************************************************************************)
EXTENDS XoverStream, SequenceTheorems, TLAPS

ALine == [sess : 1 .. Sessions, range : 0 .. Ranges, kind : {"ok", "header", "end", "error"}]
ACommand == [sess : 1 .. Sessions, range : 0 .. Ranges]

-----------------------------------------------------------------------------
(* What is on its way, in the order in which it will be read. *)

Coming == replies \o serving

\* The range of the last command the server has taken up, in doxover().
Asked == sent - Len(cmds)

\* l is the status line of range n.
Begins(l, n) == l.range = n /\ l.kind \in {"ok", "error"}

\* y is what a server may write after x.
Follows(x, y) ==
  \/ x.kind = "ok" /\ y.kind = "header" /\ y.range = x.range
  \/ x.kind = "header" /\ y.kind = "end" /\ y.range = x.range
  \/ x.kind # "ok" /\ Begins(y, x.range + 1)

\* L holds lines of session s only, reply after reply, up to that of range a;
\* only the last range's may be an error, or any when nothing is streamed.
Stream(L, s, a) ==
  /\ \A i \in 1 .. Len(L) :
       /\ L[i].sess = s /\ L[i].range <= a
       /\ L[i].kind = "error" => L[i].range = Ranges \/ MaxStreaming = 0
  /\ \A i \in 1 .. Len(L) - 1 : Follows(L[i], L[i + 1])
  /\ L # <<>> => L[Len(L)].range = a /\ L[Len(L)].kind # "ok"

\* The commands the server has not taken up yet.
Queue(c, s, a) == \A i \in 1 .. Len(c) : c[i] = [sess |-> s, range |-> a + i]

\* What may come first when the reply of d + 1 is to be read, and inside it.
AtReply(L, a, d) == IF L = <<>> THEN a = d ELSE Begins(L[1], d + 1)
InReply(L, a, d) ==
  IF L = <<>> THEN a = d + 1 \/ (a = d + 2 /\ a = Ranges)
  ELSE (L[1].range = d + 1 /\ L[1].kind \in {"header", "end"}) \/ Begins(L[1], d + 2)

Quiet == cmds = <<>> /\ serving = <<>> /\ replies = <<>>

AtGroup(L) ==
  \/ L = <<>> /\ cmds = <<[sess |-> sess, range |-> 0]>>
  \/ Len(L) = 1 /\ cmds = <<>> /\ L[1].sess = sess /\ Begins(L[1], 0)

Conversation ==
  /\ pc = "idle" /\ open => Quiet
  /\ pc = "group" => Quiet
  /\ pc = "greply" => AtGroup(Coming)
  /\ pc \in {"xover", "lines"} => Stream(Coming, sess, Asked) /\ Queue(cmds, sess, Asked)
  /\ pc = "xover" => AtReply(Coming, Asked, done)
  /\ pc = "lines" => InReply(Coming, Asked, done)

\* What the numbers of doxover() have to do with each other; and a session is
\* repeated only once, for nothing is streamed the second time.
Once ==
  /\ redone = 0 \/ (redone = 1 /\ maxstreaming = 0)
  /\ pc = "xover" => done <= sent
  /\ pc = "lines" => done + 1 <= sent
  /\ maxstreaming = 0 /\ pc \in {"xover", "lines"} => sent <= done + 1
  /\ pc # "idle" => sess >= 1 /\ redone < MaxRetry

IInv == TypeOK /\ Once

-----------------------------------------------------------------------------
(* The first invariant: types and numbers. *)

LEMMA ConstantTypes ==
  /\ Sessions \in Nat \ {0} /\ Ranges \in Nat \ {0} /\ MaxRetry \in Nat \ {0}
  /\ CmdBuf \in Nat \ {0} /\ ReplyBuf \in Nat \ {0} /\ MaxStreaming \in Nat
  /\ ErrorRanges \subseteq 0 .. Ranges /\ DropRanges \subseteq 1 .. Ranges
BY XoverStreamAssumption

\* The end of a sequence is a sequence of the same things.
LEMMA Drained ==
  ASSUME NEW S, NEW s \in Seq(S), NEW k \in 0 .. Len(s)
  PROVE  SubSeq(s, k + 1, Len(s)) \in Seq(S) /\ Len(SubSeq(s, k + 1, Len(s))) <= Len(s)
<1>1. Len(s) \in Nat
  BY LenProperties
<1>2. CASE k + 1 <= Len(s)
  <2>1. SubSeq(s, k + 1, Len(s)) \in Seq(S)
    BY <1>1, <1>2, SubSeqProperties
  <2>2. Len(SubSeq(s, k + 1, Len(s))) = Len(s) - (k + 1) + 1
    BY <1>1, <1>2, SubSeqProperties
  <2> QED BY <2>1, <2>2, <1>1
<1>3. CASE ~(k + 1 <= Len(s))
  <2>1. SubSeq(s, k + 1, Len(s)) = <<>>
    BY <1>1, <1>3, SubSeqProperties
  <2> QED BY <2>1, <1>1
<1> QED BY <1>2, <1>3

\* An answer consists of lines, and says the session and range it is for.
LEMMA AnswersAreLines ==
  ASSUME NEW c \in ACommand, NEW more, NEW a \in Answers(c, more)
  PROVE  a \in Seq(ALine) /\ a # <<>>
<1> DEFINE o == Line(c, "ok")
           h == Line(c, "header")
           e == Line(c, "end")
           x == Line(c, "error")
<1>1. o \in ALine /\ h \in ALine /\ e \in ALine /\ x \in ALine
  BY DEF Line, ALine, ACommand
<1>2. \/ a = <<o>> \/ a = <<x>> \/ a = <<o, h>> \/ a = Append(<<o, h>>, e)
  BY DEF Answers
<1> HIDE DEF o, h, e, x
<1>3. <<o, h>> \in Seq(ALine) /\ Append(<<o, h>>, e) \in Seq(ALine) /\ Append(<<o, h>>, e) # <<>>
  BY <1>1
<1>4. <<o>> \in Seq(ALine) /\ <<x>> \in Seq(ALine)
  BY <1>1
<1>5. a \in Seq(ALine)
  BY <1>2, <1>3, <1>4
<1>6. <<o, h>> # <<>> /\ <<o>> # <<>> /\ <<x>> # <<>>
  OBVIOUS
<1> QED BY <1>2, <1>3, <1>5, <1>6

LEMMA LinesAre == Lines = Seq(ALine)
BY DEF Lines, ALine

LEMMA InitIInv == Init => IInv
<1> SUFFICES ASSUME Init PROVE IInv
  OBVIOUS
<1> USE DEF Init
<1>1. cmds \in Seq(ACommand) /\ serving \in Seq(ALine) /\ replies \in Seq(ALine)
  BY EmptySeq
<1>2. Len(cmds) = 0 /\ Len(replies) = 0
  OBVIOUS
<1>3. Len(cmds) <= CmdBuf /\ Len(replies) <= ReplyBuf
  BY <1>2, ConstantTypes
<1>4. sess \in 0 .. Sessions /\ redone \in 0 .. MaxRetry /\ sent \in 0 .. Ranges /\ done \in 0 .. Ranges
  BY ConstantTypes
<1>5. TypeOK
  BY <1>1, <1>3, <1>4, LinesAre DEF TypeOK, ACommand
<1> QED BY <1>5 DEF IInv, Once

\* What is on the connection keeps its type, whoever acts.
LEMMA ConnectionTypes ==
  ASSUME IInv, [Next]_vars
  PROVE  /\ cmds' \in Seq(ACommand) /\ serving' \in Seq(ALine) /\ replies' \in Seq(ALine)
         /\ Len(cmds') <= CmdBuf /\ Len(replies') <= ReplyBuf
<1>1. /\ cmds \in Seq(ACommand) /\ serving \in Seq(ALine) /\ replies \in Seq(ALine)
      /\ Len(cmds) <= CmdBuf /\ Len(replies) <= ReplyBuf
  BY LinesAre DEF IInv, TypeOK, ACommand
<1>2. /\ Len(cmds) \in Nat /\ Len(replies) \in Nat /\ Len(serving) \in Nat
      /\ CmdBuf \in Nat \ {0} /\ ReplyBuf \in Nat \ {0}
  BY <1>1, ConstantTypes, LenProperties
<1>3. ASSUME UNCHANGED <<cmds, serving, replies>>
      PROVE  /\ cmds' \in Seq(ACommand) /\ serving' \in Seq(ALine) /\ replies' \in Seq(ALine)
             /\ Len(cmds') <= CmdBuf /\ Len(replies') <= ReplyBuf
  BY <1>1, <1>3
<1>4. ASSUME FreshConnection
      PROVE  /\ cmds' \in Seq(ACommand) /\ serving' \in Seq(ALine) /\ replies' \in Seq(ALine)
             /\ Len(cmds') <= CmdBuf /\ Len(replies') <= ReplyBuf
  <2>1. cmds' = <<>> /\ serving' = <<>> /\ replies' = <<>>
    BY <1>4 DEF FreshConnection
  <2>2. Len(cmds') = 0 /\ Len(replies') = 0
    BY <2>1
  <2> QED BY <2>1, <2>2, <1>2, EmptySeq
<1>5. ASSUME NEW c \in ACommand, Put(c)
      PROVE  /\ cmds' \in Seq(ACommand) /\ serving' \in Seq(ALine) /\ replies' \in Seq(ALine)
             /\ Len(cmds') <= CmdBuf /\ Len(replies') <= ReplyBuf
  BY <1>1, <1>2, <1>5, AppendProperties DEF Put
<1>6. ASSUME Take, UNCHANGED <<cmds, serving>>
      PROVE  /\ cmds' \in Seq(ACommand) /\ serving' \in Seq(ALine) /\ replies' \in Seq(ALine)
             /\ Len(cmds') <= CmdBuf /\ Len(replies') <= ReplyBuf
  <2>1. replies' \in Seq(ALine) /\ Len(replies') = Len(replies) - 1
    BY <1>1, <1>6, HeadTailProperties DEF Take
  <2> QED BY <2>1, <1>1, <1>2, <1>6
<1>7. CASE Serve
  <2>1. Head(cmds) \in ACommand /\ cmds' \in Seq(ACommand) /\ Len(cmds') = Len(cmds) - 1
    BY <1>1, <1>7, HeadTailProperties DEF Serve
  <2>2. serving' \in Seq(ALine)
    BY <1>7, <2>1, AnswersAreLines DEF Serve
  <2> QED BY <2>1, <2>2, <1>1, <1>2, <1>7 DEF Serve
<1>8. CASE Reply
  <2>1. Head(serving) \in ALine /\ serving' \in Seq(ALine)
    BY <1>1, <1>8, HeadTailProperties DEF Reply
  <2>2. replies' \in Seq(ALine) /\ Len(replies') = Len(replies) + 1
    BY <2>1, <1>1, <1>8, AppendProperties DEF Reply
  <2> QED BY <2>1, <2>2, <1>1, <1>2, <1>8 DEF Reply
<1>9. CASE Begin
  <2>1. CASE \E k \in 0 .. Len(replies) : replies' = SubSeq(replies, k + 1, Len(replies))
             /\ UNCHANGED <<cmds, serving>>
    <3>1. replies' \in Seq(ALine) /\ Len(replies') <= Len(replies)
      BY <2>1, <1>1, Drained
    <3>2. Len(replies') \in Nat
      BY <3>1, LenProperties
    <3> QED BY <3>1, <3>2, <2>1, <1>1, <1>2
  <2> QED BY <1>9, <2>1, <1>4 DEF Begin
<1>10. CASE SendGroup
  <2>1. [sess |-> sess, range |-> 0] \in ACommand
    BY <1>10, ConstantTypes DEF SendGroup, IInv, TypeOK, Once, ACommand
  <2> QED BY <2>1, <1>5, <1>10 DEF SendGroup
<1>11. CASE ReadGroup
  BY <1>11, <1>6 DEF ReadGroup
<1>12. CASE SendXover
  <2>1. sent + 1 \in 0 .. Ranges
    BY <1>12, ConstantTypes DEF SendXover, MaySend, IInv, TypeOK
  <2>2. [sess |-> sess, range |-> sent + 1] \in ACommand
    BY <2>1, <1>12, ConstantTypes DEF SendXover, IInv, TypeOK, Once, ACommand
  <2> QED BY <2>2, <1>5, <1>12 DEF SendXover
<1>13. CASE ReadReply
  BY <1>13, <1>6 DEF ReadReply
<1>14. CASE ReadLine
  BY <1>14, <1>6 DEF ReadLine
<1>15. CASE StreamingError
  BY <1>15, <1>3, <1>4 DEF StreamingError
<1>16. CASE Finish
  BY <1>16, <1>3 DEF Finish
<1>17. CASE UNCHANGED vars
  BY <1>17, <1>3 DEF vars
<1> QED
  BY <1>7, <1>8, <1>9, <1>10, <1>11, <1>12, <1>13, <1>14, <1>15, <1>16, <1>17 DEF Next, Client

\* The numbers are right after every step.
LEMMA NextIInv == IInv /\ [Next]_vars => IInv'
<1> SUFFICES ASSUME IInv, [Next]_vars PROVE IInv'
  OBVIOUS
<1> DEFINE Numbers ==
      /\ pc \in {"idle", "group", "greply", "xover", "lines"}
      /\ sess \in 0 .. Sessions /\ redone \in 0 .. MaxRetry
      /\ sent \in 0 .. Ranges /\ done \in 0 .. Ranges
      /\ maxstreaming \in {0, MaxStreaming}
      /\ pc = "xover" => streamed = sent - done
      /\ pc = "lines" => streamed = sent - done - 1
<1>1. Numbers /\ open \in BOOLEAN /\ Once
  BY DEF IInv, TypeOK
<1>2. /\ Sessions \in Nat \ {0} /\ Ranges \in Nat \ {0} /\ MaxRetry \in Nat \ {0}
      /\ MaxStreaming \in Nat
  BY ConstantTypes
<1>3. SUFFICES Numbers' /\ Once' /\ open' \in BOOLEAN
  BY ConnectionTypes, LinesAre DEF IInv, TypeOK, ACommand
<1>4. open' \in BOOLEAN
  BY <1>1 DEF Next, Client, Begin, FreshConnection, SendGroup, ReadGroup, Throw, SendXover,
              ReadReply, ReadLine, StreamingError, Finish, Serve, Reply, client, vars
<1>5. SUFFICES Numbers' /\ Once'
  BY <1>4
<1>6. CASE Serve \/ Reply \/ UNCHANGED vars
  <2>1. UNCHANGED client
    BY <1>6 DEF Serve, Reply, vars, client
  <2> QED BY <2>1, <1>1 DEF client, Once
<1>7. CASE Begin
  BY <1>7, <1>1, <1>2 DEF Begin, Once
<1>8. CASE SendGroup
  BY <1>8, <1>1, <1>2 DEF SendGroup, Once
<1>9. CASE ReadGroup
  BY <1>9, <1>1, <1>2 DEF ReadGroup, Throw, Once
<1>10. CASE SendXover
  BY <1>10, <1>1, <1>2 DEF SendXover, MaySend, Once
<1>11. CASE ReadReply
  BY <1>11, <1>1, <1>2 DEF ReadReply, MaySend, Throw, Once
<1>12. CASE ReadLine
  BY <1>12, <1>1, <1>2 DEF ReadLine, Once
<1>13. CASE StreamingError
  BY <1>13, <1>1, <1>2 DEF StreamingError, NextHasBegun, Once
<1>14. CASE Finish
  BY <1>14, <1>1, <1>2 DEF Finish, Once
<1> QED
  BY <1>6, <1>7, <1>8, <1>9, <1>10, <1>11, <1>12, <1>13, <1>14 DEF Next, Client

\* IInv holds in every state: the counters of doxover() fit together.
THEOREM Invariance == Spec => []IInv
<1>1. Init => IInv
  BY InitIInv
<1>2. IInv /\ [Next]_vars => IInv'
  BY NextIInv
<1> QED BY <1>1, <1>2, PTL DEF Spec

\* Type correctness; streamed is the number of XOVERs whose reply nget has not
\* begun to read, in every order of sending and reading.
THEOREM TypeCorrect == Spec => []TypeOK
<1>1. IInv => TypeOK
  BY DEF IInv
<1> QED BY <1>1, Invariance, PTL

\* With two tries or more no session runs out of them, whatever replies the
\* server cuts short: streaming is off the second time, and then no reply can
\* begin within another (prot_nntp.cc:450-457).
THEOREM OneRetryIsEnough == ASSUME MaxRetry >= 2 PROVE Spec => []NotGivenUp
<1>1. IInv => NotGivenUp
  BY ConstantTypes DEF IInv, TypeOK, Once, NotGivenUp
<1> QED BY <1>1, Invariance, PTL

-----------------------------------------------------------------------------
(* Lines on their way. *)

\* An error reply is the last one of its session, or the only one that is
\* outstanding: then a connection that is kept after it (Throw) is quiet.
ErrorsAtEnds == ErrorRanges \subseteq {0, Ranges} \/ MaxStreaming = 0

\* A line that the server passes on stays where it is among those to come.
LEMMA PassedOn ==
  ASSUME NEW S, NEW r \in Seq(S), NEW s \in Seq(S), s # <<>>
  PROVE  Append(r, Head(s)) \o Tail(s) = r \o s
<1> DEFINE A == Append(r, Head(s)) \o Tail(s)
           B == r \o s
<1>1. /\ Head(s) \in S /\ Tail(s) \in Seq(S) /\ Len(s) \in Nat \ {0} /\ Len(r) \in Nat
      /\ Len(Tail(s)) = Len(s) - 1 /\ Head(s) = s[1]
      /\ \A i \in 1 .. Len(s) - 1 : Tail(s)[i] = s[i + 1]
  BY HeadTailProperties, LenProperties, EmptySeq
<1>2. /\ Append(r, Head(s)) \in Seq(S) /\ Len(Append(r, Head(s))) = Len(r) + 1
      /\ \A i \in 1 .. Len(r) : Append(r, Head(s))[i] = r[i]
      /\ Append(r, Head(s))[Len(r) + 1] = s[1]
  BY <1>1, AppendProperties
<1>3. /\ A \in Seq(S) /\ Len(A) = Len(r) + 1 + (Len(s) - 1)
      /\ \A i \in 1 .. Len(A) : A[i] = IF i <= Len(r) + 1 THEN Append(r, Head(s))[i]
                                       ELSE Tail(s)[i - (Len(r) + 1)]
  BY <1>1, <1>2, ConcatProperties
<1>4. /\ B \in Seq(S) /\ Len(B) = Len(r) + Len(s)
      /\ \A i \in 1 .. Len(B) : B[i] = IF i <= Len(r) THEN r[i] ELSE s[i - Len(r)]
  BY ConcatProperties
<1> HIDE DEF A, B
<1>5. Len(A) = Len(B)
  BY <1>1, <1>3, <1>4
<1>6. ASSUME NEW i \in 1 .. Len(A) PROVE A[i] = B[i]
  <2>1. CASE i <= Len(r)
    <3>1. i \in 1 .. Len(r) /\ i <= Len(r) + 1
      BY <2>1, <1>1, <1>3
    <3>2. A[i] = r[i]
      BY <3>1, <1>2, <1>3
    <3>3. B[i] = r[i]
      BY <2>1, <1>4, <1>5
    <3> QED BY <3>2, <3>3
  <2>2. CASE i = Len(r) + 1
    BY <2>2, <1>1, <1>2, <1>3, <1>4, <1>5
  <2>3. CASE i > Len(r) + 1
    <3>1. i - (Len(r) + 1) \in 1 .. Len(s) - 1
      BY <2>3, <1>1, <1>3
    <3>2. Tail(s)[i - (Len(r) + 1)] = s[i - (Len(r) + 1) + 1]
      BY <3>1, <1>1
    <3>3. i - (Len(r) + 1) + 1 = i - Len(r)
      BY <1>1
    <3> QED BY <3>2, <3>3, <2>3, <1>1, <1>3, <1>4, <1>5
  <2> QED BY <2>1, <2>2, <2>3, <1>1
<1>7. A = B
  BY <1>3, <1>4, <1>5, <1>6, SeqEqual
<1> QED BY <1>7 DEF A, B

\* What nget reads is the first of the lines to come, and leaves the others.
LEMMA ReadOff ==
  ASSUME NEW S, NEW r \in Seq(S), NEW s \in Seq(S), r # <<>>
  PROVE  Tail(r) \o s = Tail(r \o s) /\ Head(r) = (r \o s)[1] /\ r \o s # <<>>
<1> DEFINE B == r \o s
           A == Tail(r) \o s
           C == Tail(B)
<1>1. /\ Tail(r) \in Seq(S) /\ Len(r) \in Nat \ {0} /\ Len(s) \in Nat
      /\ Len(Tail(r)) = Len(r) - 1 /\ Head(r) = r[1]
      /\ \A i \in 1 .. Len(r) - 1 : Tail(r)[i] = r[i + 1]
  BY HeadTailProperties, LenProperties, EmptySeq
<1>2. /\ B \in Seq(S) /\ Len(B) = Len(r) + Len(s)
      /\ \A i \in 1 .. Len(B) : B[i] = IF i <= Len(r) THEN r[i] ELSE s[i - Len(r)]
  BY ConcatProperties
<1>3. /\ A \in Seq(S) /\ Len(A) = Len(r) - 1 + Len(s)
      /\ \A i \in 1 .. Len(A) : A[i] = IF i <= Len(r) - 1 THEN Tail(r)[i]
                                       ELSE s[i - (Len(r) - 1)]
  BY <1>1, ConcatProperties
<1> HIDE DEF A, B
<1>4. B # <<>>
  BY <1>1, <1>2, EmptySeq
<1>5. /\ C \in Seq(S) /\ Len(C) = Len(B) - 1
      /\ \A i \in 1 .. Len(B) - 1 : C[i] = B[i + 1]
  BY <1>2, <1>4, HeadTailProperties
<1> HIDE DEF C
<1>6. Len(A) = Len(C)
  BY <1>1, <1>2, <1>3, <1>5
<1>7. ASSUME NEW i \in 1 .. Len(A) PROVE A[i] = C[i]
  <2>0. C[i] = B[i + 1] /\ i + 1 \in 1 .. Len(B)
    BY <1>1, <1>2, <1>3, <1>5
  <2>1. CASE i <= Len(r) - 1
    BY <2>0, <2>1, <1>1, <1>2, <1>3
  <2>2. CASE ~(i <= Len(r) - 1)
    <3>1. i - (Len(r) - 1) = i + 1 - Len(r)
      BY <1>1
    <3> QED BY <3>1, <2>0, <2>2, <1>1, <1>2, <1>3
  <2> QED BY <2>1, <2>2
<1>8. A = C
  BY <1>3, <1>5, <1>6, <1>7, SeqEqual
<1>9. Head(r) = B[1]
  BY <1>1, <1>2
<1> QED BY <1>4, <1>8, <1>9 DEF A, B, C

\* When the first line has been read the others are a stream still.
LEMMA StreamRead ==
  ASSUME NEW L \in Seq(ALine), L # <<>>, NEW s, NEW a \in Int, Stream(L, s, a)
  PROVE  /\ Stream(Tail(L), s, a)
         /\ Tail(L) = <<>> => L[1].range = a /\ L[1].kind # "ok"
         /\ Tail(L) # <<>> => Follows(L[1], Tail(L)[1]) /\ Tail(L)[1].range <= a
         /\ L[1] \in ALine /\ L[1].sess = s /\ L[1].range <= a
         /\ L[1].kind = "error" => L[1].range = Ranges \/ MaxStreaming = 0
<1> DEFINE T == Tail(L)
<1>1. /\ Len(L) \in Nat \ {0} /\ T \in Seq(ALine) /\ Len(T) = Len(L) - 1
      /\ \A i \in 1 .. Len(L) - 1 : T[i] = L[i + 1]
  BY HeadTailProperties, LenProperties, EmptySeq
<1> HIDE DEF T
<1>2. 1 \in 1 .. Len(L) /\ L[1] \in ALine
  BY <1>1, ElementOfSeq
<1>3. CASE T = <<>>
  <2>1. Len(T) = 0 /\ Len(L) = 1
    BY <1>1, <1>3, EmptySeq
  <2>2. Stream(T, s, a)
    BY <2>1, <1>3 DEF Stream
  <2>3. L[1].range = a /\ L[1].kind # "ok"
    BY <2>1 DEF Stream
  <2> QED BY <2>2, <2>3, <1>2, <1>3 DEF Stream, T
<1>4. CASE T # <<>>
  <2>1. Len(T) \in Nat \ {0}
    BY <1>1, <1>4, EmptySeq
  <2>2. \A i \in 1 .. Len(T) : i + 1 \in 1 .. Len(L) /\ T[i] = L[i + 1]
    BY <1>1
  <2>3. \A i \in 1 .. Len(T) :
           /\ T[i].sess = s /\ T[i].range <= a
           /\ T[i].kind = "error" => T[i].range = Ranges \/ MaxStreaming = 0
    BY <2>2 DEF Stream
  <2>4. ASSUME NEW i \in 1 .. Len(T) - 1 PROVE Follows(T[i], T[i + 1])
    <3>1. i \in 1 .. Len(T) /\ i + 1 \in 1 .. Len(T) /\ i + 1 \in 1 .. Len(L) - 1
      BY <1>1, <2>1
    <3>2. T[i] = L[i + 1] /\ T[i + 1] = L[i + 1 + 1]
      BY <3>1, <2>2
    <3> QED BY <3>1, <3>2 DEF Stream
  <2>5. T[Len(T)] = L[Len(L)]
    <3>1. Len(T) \in 1 .. Len(T) /\ Len(T) + 1 = Len(L)
      BY <2>1, <1>1
    <3> QED BY <3>1, <2>2
  <2>6. Stream(T, s, a)
    BY <2>3, <2>4, <2>5 DEF Stream
  <2>7. T[1] = L[2] /\ Follows(L[1], L[1 + 1]) /\ T[1].range <= a
    <3>1. 1 \in 1 .. Len(T) /\ 1 \in 1 .. Len(L) - 1
      BY <2>1, <1>1
    <3> QED BY <3>1, <2>2, <2>3 DEF Stream
  <2> QED BY <2>6, <2>7, <1>2, <1>4 DEF Stream, T
<1> QED BY <1>3, <1>4

\* What the server writes for a command of the session: the lines of one range.
LEMMA AnswerIs ==
  ASSUME NEW c \in ACommand, NEW more, NEW ans \in Answers(c, more)
  PROVE  /\ Len(ans) \in 1 .. 3
         /\ \A i \in 1 .. Len(ans) : /\ ans[i].sess = c.sess /\ ans[i].range = c.range
                                     /\ ans[i].kind = "error" => c.range \in ErrorRanges
         /\ \A i \in 1 .. Len(ans) - 1 : Follows(ans[i], ans[i + 1])
         /\ Begins(ans[1], c.range)
         /\ c.range # 0 => ans[Len(ans)].kind # "ok"
         /\ c.range = 0 => Len(ans) = 1
<1> DEFINE o == Line(c, "ok")
           h == Line(c, "header")
           e == Line(c, "end")
           x == Line(c, "error")
<1>1. /\ o.sess = c.sess /\ o.range = c.range /\ o.kind = "ok"
      /\ h.sess = c.sess /\ h.range = c.range /\ h.kind = "header"
      /\ e.sess = c.sess /\ e.range = c.range /\ e.kind = "end"
      /\ x.sess = c.sess /\ x.range = c.range /\ x.kind = "error"
  BY DEF Line
<1>2. \/ ans = <<o>> /\ c.range = 0
      \/ ans = <<x>> /\ c.range \in ErrorRanges
      \/ ans = <<o, h>> /\ c.range # 0
      \/ ans = Append(<<o, h>>, e) /\ c.range # 0
  <2>1. 0 \notin DropRanges
    BY ConstantTypes
  <2> QED BY <2>1 DEF Answers
<1> HIDE DEF o, h, e, x
<1>3. Follows(o, h) /\ Follows(h, e) /\ Begins(o, c.range) /\ Begins(x, c.range)
  BY <1>1 DEF Follows, Begins
<1>4. CASE ans = <<o>> /\ c.range = 0
  <2>1. Len(ans) = 1 /\ ans[1] = o
    BY <1>4
  <2> QED BY <1>1, <1>3, <1>4, <2>1
<1>5. CASE ans = <<x>> /\ c.range \in ErrorRanges
  <2>1. Len(ans) = 1 /\ ans[1] = x
    BY <1>5
  <2> QED BY <1>1, <1>3, <1>5, <2>1
<1>6. CASE ans = <<o, h>> /\ c.range # 0
  <2>1. Len(ans) = 2 /\ ans[1] = o /\ ans[2] = h
    BY <1>6
  <2> QED BY <1>1, <1>3, <1>6, <2>1
<1>7. CASE ans = Append(<<o, h>>, e) /\ c.range # 0
  <2>1. Len(ans) = 3 /\ ans[1] = o /\ ans[2] = h /\ ans[3] = e
    BY <1>7
  <2>2. \A i \in 1 .. Len(ans) : i = 1 \/ i = 2 \/ i = 3
    BY <2>1
  <2>3. \A i \in 1 .. Len(ans) - 1 : (i = 1 /\ i + 1 = 2) \/ (i = 2 /\ i + 1 = 3)
    BY <2>1
  <2> QED BY <1>1, <1>3, <1>7, <2>1, <2>2, <2>3
<1> QED BY <1>2, <1>4, <1>5, <1>6, <1>7

\* The answer to the next command continues the stream.
LEMMA StreamServed ==
  ASSUME NEW L \in Seq(ALine), NEW s \in 1 .. Sessions, NEW a \in Int, Stream(L, s, a),
         a + 1 \in 1 .. Ranges, ErrorsAtEnds, NEW more,
         NEW ans \in Answers([sess |-> s, range |-> a + 1], more)
  PROVE  /\ Stream(L \o ans, s, a + 1) /\ L \o ans # <<>>
         /\ L # <<>> => (L \o ans)[1] = L[1]
         /\ L = <<>> => Begins((L \o ans)[1], a + 1)
<1> DEFINE c == [sess |-> s, range |-> a + 1]
           M == L \o ans
<1>1. c \in ACommand /\ c.sess = s /\ c.range = a + 1
  BY DEF ACommand
<1>2. /\ Len(ans) \in 1 .. 3
      /\ \A i \in 1 .. Len(ans) : /\ ans[i].sess = s /\ ans[i].range = a + 1
                                  /\ ans[i].kind = "error" => a + 1 \in ErrorRanges
      /\ \A i \in 1 .. Len(ans) - 1 : Follows(ans[i], ans[i + 1])
      /\ Begins(ans[1], a + 1) /\ ans[Len(ans)].kind # "ok"
  BY <1>1, AnswerIs
<1>3. ans \in Seq(ALine)
  BY <1>1, AnswersAreLines
<1>4. /\ Len(L) \in Nat /\ M \in Seq(ALine) /\ Len(M) = Len(L) + Len(ans)
      /\ \A i \in 1 .. Len(M) : M[i] = IF i <= Len(L) THEN L[i] ELSE ans[i - Len(L)]
  BY <1>3, ConcatProperties, LenProperties
<1> HIDE DEF c, M
<1>5. a + 1 \in ErrorRanges => a + 1 = Ranges \/ MaxStreaming = 0
  BY DEF ErrorsAtEnds
<1>6. ASSUME NEW i \in 1 .. Len(M)
      PROVE  /\ M[i].sess = s /\ M[i].range <= a + 1
             /\ M[i].kind = "error" => M[i].range = Ranges \/ MaxStreaming = 0
  <2>1. CASE i <= Len(L)
    <3>1. M[i] = L[i] /\ i \in 1 .. Len(L)
      BY <2>1, <1>4
    <3>2. L[i] \in ALine
      BY <3>1, ElementOfSeq
    <3>3. L[i].range \in Int
      BY <3>2, ConstantTypes DEF ALine
    <3> QED BY <3>1, <3>3 DEF Stream
  <2>2. CASE ~(i <= Len(L))
    <3>1. M[i] = ans[i - Len(L)] /\ i - Len(L) \in 1 .. Len(ans)
      BY <2>2, <1>4, <1>2
    <3> QED BY <3>1, <1>2, <1>5
  <2> QED BY <2>1, <2>2
<1>7. ASSUME NEW i \in 1 .. Len(M) - 1 PROVE Follows(M[i], M[i + 1])
  <2>1. CASE i + 1 <= Len(L)
    <3>1. M[i] = L[i] /\ M[i + 1] = L[i + 1] /\ i \in 1 .. Len(L) - 1
      BY <2>1, <1>2, <1>4
    <3> QED BY <3>1 DEF Stream
  <2>2. CASE i = Len(L)
    <3>1. i \in 1 .. Len(M) /\ i + 1 \in 1 .. Len(M) /\ i + 1 - Len(L) = 1 /\ Len(L) # 0
      BY <2>2, <1>2, <1>4
    <3>2. M[i] = L[Len(L)]
      BY <3>1, <2>2, <1>4
    <3>3. ~(i + 1 <= Len(L))
      BY <2>2, <1>4
    <3>4. M[i + 1] = ans[i + 1 - Len(L)]
      BY <3>1, <3>3, <1>4
    <3>5. M[i] = L[Len(L)] /\ M[i + 1] = ans[1]
      BY <3>1, <3>2, <3>4
    <3>6. L # <<>>
      BY <3>1, EmptySeq
    <3>7. L[Len(L)].range = a /\ L[Len(L)].kind # "ok"
      BY <3>6 DEF Stream
    <3> QED BY <3>5, <3>7, <1>2 DEF Follows
  <2>3. CASE i > Len(L)
    <3>1. M[i] = ans[i - Len(L)] /\ M[i + 1] = ans[i + 1 - Len(L)]
      BY <2>3, <1>2, <1>4
    <3>2. i - Len(L) \in 1 .. Len(ans) - 1 /\ i + 1 - Len(L) = (i - Len(L)) + 1
      BY <2>3, <1>2, <1>4
    <3> QED BY <3>1, <3>2, <1>2
  <2> QED BY <2>1, <2>2, <2>3, <1>4
<1>8. M[Len(M)] = ans[Len(ans)]
  <2>1. Len(M) \in 1 .. Len(M) /\ ~(Len(M) <= Len(L)) /\ Len(M) - Len(L) = Len(ans)
    BY <1>2, <1>4
  <2> QED BY <2>1, <1>4
<1>9. M[Len(M)].range = a + 1 /\ M[Len(M)].kind # "ok"
  <2>1. Len(ans) \in 1 .. Len(ans)
    BY <1>2
  <2> QED BY <2>1, <1>2, <1>8
<1>10. Stream(M, s, a + 1)
  BY <1>6, <1>7, <1>9 DEF Stream
<1>11. M # <<>>
  BY <1>2, <1>4, EmptySeq
<1>12. L # <<>> => M[1] = L[1]
  BY <1>2, <1>4, EmptySeq
<1>13. L = <<>> => M[1] = ans[1]
  BY <1>2, <1>4, EmptySeq
<1> QED BY <1>2, <1>10, <1>11, <1>12, <1>13 DEF M

-----------------------------------------------------------------------------
(* The conversation. *)

\* The types of what is on its way, in one place.
LEMMA OnTheWay ==
  ASSUME IInv
  PROVE  /\ cmds \in Seq(ACommand) /\ serving \in Seq(ALine) /\ replies \in Seq(ALine)
         /\ Coming \in Seq(ALine) /\ Len(cmds) \in Nat /\ Len(replies) \in Nat
         /\ sent \in 0 .. Ranges /\ done \in 0 .. Ranges /\ Asked \in Int
         /\ Ranges \in Nat \ {0} /\ MaxStreaming \in Nat
         /\ sess \in Nat /\ maxstreaming \in {0, MaxStreaming}
<1>1. /\ cmds \in Seq(ACommand) /\ serving \in Seq(ALine) /\ replies \in Seq(ALine)
      /\ sent \in 0 .. Ranges /\ done \in 0 .. Ranges
      /\ sess \in 0 .. Sessions /\ maxstreaming \in {0, MaxStreaming}
  BY LinesAre DEF IInv, TypeOK, ACommand
<1>2. Coming \in Seq(ALine)
  BY <1>1, ConcatProperties DEF Coming
<1>3. Len(cmds) \in Nat /\ Len(replies) \in Nat
  BY <1>1, LenProperties
<1>4. Sessions \in Nat \ {0} /\ Ranges \in Nat \ {0} /\ MaxStreaming \in Nat
  BY ConstantTypes
<1>5. sess \in Nat
  BY <1>1, <1>4
<1>6. Asked \in Int
  BY <1>1, <1>3, <1>4 DEF Asked
<1> QED BY <1>1, <1>2, <1>3, <1>4, <1>5, <1>6

\* A line nget reads is the first of those to come.
LEMMA Taken ==
  ASSUME IInv, Take, serving' = serving
  PROVE  Coming # <<>> /\ Got = Coming[1] /\ Coming' = Tail(Coming)
<1>1. serving \in Seq(ALine) /\ replies \in Seq(ALine) /\ replies # <<>>
  BY OnTheWay DEF Take
<1>2. /\ Tail(replies) \o serving = Tail(replies \o serving)
      /\ Head(replies) = (replies \o serving)[1] /\ replies \o serving # <<>>
  BY <1>1, ReadOff
<1>3. Coming' = Tail(replies) \o serving
  BY DEF Take, Coming
<1> QED BY <1>2, <1>3 DEF Coming, Got

\* When nothing is to come both buffers are empty.
LEMMA NothingComing ==
  ASSUME IInv, Coming = <<>>
  PROVE  serving = <<>> /\ replies = <<>>
<1>1. serving \in Seq(ALine) /\ replies \in Seq(ALine)
  BY OnTheWay
<1>2. Len(Coming) = Len(replies) + Len(serving) /\ Len(replies) \in Nat /\ Len(serving) \in Nat
  BY <1>1, ConcatProperties, LenProperties DEF Coming
<1>3. Len(Coming) = 0
  OBVIOUS
<1>4. Len(replies) = 0 /\ Len(serving) = 0
  BY <1>2, <1>3
<1> QED BY <1>1, <1>4, EmptySeq

LEMMA NoneQueued ==
  ASSUME IInv, Len(cmds) = 0
  PROVE  cmds = <<>>
BY OnTheWay, EmptySeq

\* The server takes a command up.
LEMMA ServeTalks ==
  ASSUME IInv, Conversation, ErrorsAtEnds, Serve
  PROVE  Conversation'
<1> DEFINE L == Coming
           ans == serving'
           a == Asked
<1>1. /\ serving = <<>> /\ cmds # <<>> /\ cmds' = Tail(cmds)
      /\ ans \in Answers(Head(cmds), Tail(cmds) # <<>>)
      /\ UNCHANGED <<client, replies>>
  BY DEF Serve
<1>2. UNCHANGED <<pc, sess, sent, done, open>>
  BY <1>1 DEF client
<1>3. /\ Len(cmds) \in Nat \ {0} /\ cmds' \in Seq(ACommand) /\ Len(cmds') = Len(cmds) - 1
      /\ Head(cmds) = cmds[1] /\ Head(cmds) \in ACommand
      /\ \A i \in 1 .. Len(cmds) - 1 : cmds'[i] = cmds[i + 1]
  BY <1>1, OnTheWay, HeadTailProperties, EmptySeq
<1>4. ans \in Seq(ALine) /\ ans # <<>>
  BY <1>1, <1>3, AnswersAreLines
<1>5. L = replies /\ Coming' = L \o ans
  <2>1. replies \o <<>> = replies
    BY OnTheWay, ConcatEmptySeq
  <2> QED BY <2>1, <1>1 DEF Coming
<1>6. Asked' = a + 1 /\ a \in Int
  BY <1>2, <1>3, OnTheWay DEF Asked
<1>7. ~(pc = "idle" /\ open) /\ pc # "group"
  BY <1>1 DEF Conversation, Quiet
<1>8. CASE pc = "greply"
  <2>1. L = <<>> /\ cmds = <<[sess |-> sess, range |-> 0]>>
    BY <1>1, <1>8 DEF Conversation, AtGroup
  <2>2. Head(cmds).range = 0 /\ Head(cmds).sess = sess /\ Len(cmds) = 1
    BY <2>1
  <2>3. Len(ans) = 1 /\ ans[1].sess = sess /\ Begins(ans[1], 0)
    <3>1. /\ Len(ans) = 1 /\ Begins(ans[1], 0)
          /\ \A i \in 1 .. Len(ans) : ans[i].sess = sess
      BY <1>1, <1>3, <2>2, AnswerIs
    <3> QED BY <3>1
  <2>4. cmds' = <<>>
    BY <1>3, <2>2, EmptySeq
  <2>5. Coming' = ans
    BY <1>4, <1>5, <2>1, ConcatEmptySeq
  <2>6. AtGroup(Coming)'
    BY <2>3, <2>4, <2>5, <1>2 DEF AtGroup
  <2> QED BY <2>6, <1>2, <1>8 DEF Conversation
<1>9. CASE pc \in {"xover", "lines"}
  <2>1. Stream(L, sess, a) /\ Queue(cmds, sess, a)
    BY <1>9 DEF Conversation
  <2>2. Head(cmds) = [sess |-> sess, range |-> a + 1]
    <3>1. 1 \in 1 .. Len(cmds)
      BY <1>3
    <3>2. cmds[1] = [sess |-> sess, range |-> a + 1]
      BY <3>1, <2>1 DEF Queue
    <3> QED BY <3>2, <1>3
  <2>3. sess \in 1 .. Sessions /\ a + 1 \in 1 .. Ranges
    <3>1. a + 1 \in 0 .. Ranges /\ sess \in 1 .. Sessions
      BY <2>2, <1>3 DEF ACommand
    <3>2. a + 1 # 0
      <4>1. CASE L = <<>>
        BY <4>1, <1>9, OnTheWay DEF Conversation, AtReply, InReply
      <4>2. CASE L # <<>>
        <5>1. L[1].range <= a /\ L[1] \in ALine
          BY <4>2, <2>1, <1>6, OnTheWay, StreamRead
        <5>2. L[1].range \in Nat
          BY <5>1, ConstantTypes DEF ALine
        <5> QED BY <5>1, <5>2, <1>6
      <4> QED BY <4>1, <4>2
    <3> QED BY <3>1, <3>2, <1>6, OnTheWay
  <2>4. /\ Stream(L \o ans, sess, a + 1) /\ L \o ans # <<>>
        /\ L # <<>> => (L \o ans)[1] = L[1]
        /\ L = <<>> => Begins((L \o ans)[1], a + 1)
    BY <2>1, <2>2, <2>3, <1>1, <1>6, OnTheWay, StreamServed
  <2>5. Queue(cmds', sess, a + 1)
    BY <2>1, <1>3, <1>6 DEF Queue
  <2>6. pc = "xover" => AtReply(Coming, Asked, done)'
    BY <2>4, <1>2, <1>5, <1>6 DEF Conversation, AtReply
  <2>7. pc = "lines" => InReply(Coming, Asked, done)'
    <3>1. CASE L = <<>>
      BY <3>1, <2>3, <2>4, <1>2, <1>5, <1>6, OnTheWay DEF Conversation, InReply
    <3>2. CASE L # <<>>
      BY <3>2, <2>4, <1>2, <1>5, <1>6 DEF Conversation, InReply
    <3> QED BY <3>1, <3>2
  <2> QED BY <2>4, <2>5, <2>6, <2>7, <1>2, <1>5, <1>6, <1>9 DEF Conversation
<1>10. CASE pc = "idle" /\ ~open
  BY <1>10, <1>2 DEF Conversation
<1> QED BY <1>7, <1>8, <1>9, <1>10, <1>2 DEF IInv, TypeOK

\* What nget reads inside doxover() is the next line of the session, in its
\* turn; and after an error reply nothing is left on the connection.
LEMMA NextLine ==
  ASSUME IInv, Conversation, pc \in {"xover", "lines"}, Take, cmds' = cmds, serving' = serving
  PROVE  /\ Got \in ALine /\ Got.sess = sess /\ Got.range <= Asked /\ Asked <= sent
         /\ Got.kind = "error" => Got.range = Ranges \/ MaxStreaming = 0
         /\ Stream(Coming', sess, Asked)
         /\ Coming' = <<>> => Got.range = Asked /\ Got.kind # "ok"
         /\ Coming' # <<>> => Follows(Got, Coming'[1]) /\ Coming'[1].range <= Asked
         /\ pc = "xover" => Begins(Got, done + 1)
         /\ pc = "lines" => \/ Got.range = done + 1 /\ Got.kind \in {"header", "end"}
                           \/ Begins(Got, done + 2)
<1>1. Coming # <<>> /\ Got = Coming[1] /\ Coming' = Tail(Coming)
  BY Taken
<1>2. Stream(Coming, sess, Asked)
  BY DEF Conversation
<1>3. /\ Stream(Tail(Coming), sess, Asked)
      /\ Tail(Coming) = <<>> => Coming[1].range = Asked /\ Coming[1].kind # "ok"
      /\ Tail(Coming) # <<>> => Follows(Coming[1], Tail(Coming)[1]) /\ Tail(Coming)[1].range <= Asked
      /\ Coming[1] \in ALine /\ Coming[1].sess = sess /\ Coming[1].range <= Asked
      /\ Coming[1].kind = "error" => Coming[1].range = Ranges \/ MaxStreaming = 0
  BY <1>1, <1>2, OnTheWay, StreamRead
<1>4. Asked <= sent
  BY OnTheWay DEF Asked
<1>5. pc = "xover" => Begins(Coming[1], done + 1)
  BY <1>1 DEF Conversation, AtReply
<1>6. pc = "lines" => \/ Coming[1].range = done + 1 /\ Coming[1].kind \in {"header", "end"}
                      \/ Begins(Coming[1], done + 2)
  BY <1>1 DEF Conversation, InReply
<1> QED BY <1>1, <1>3, <1>4, <1>5, <1>6

\* When the last of the commands sent has been answered and nothing is to come
\* the connection is quiet.
LEMMA AllAnswered ==
  ASSUME IInv, Coming = <<>>, Asked = sent
  PROVE  Quiet
<1>1. Len(cmds) = 0
  BY OnTheWay DEF Asked
<1> QED BY <1>1, NothingComing, NoneQueued DEF Quiet

LEMMA ReadGroupTalks ==
  ASSUME IInv, IInv', Conversation, ReadGroup
  PROVE  /\ Conversation'
         /\ Got.sess = sess /\ Got.range = 0
<1>1. pc = "greply" /\ Take /\ UNCHANGED <<cmds, serving, sess>>
  BY DEF ReadGroup, Throw
<1>2. Coming # <<>> /\ Got = Coming[1] /\ Coming' = Tail(Coming)
  BY <1>1, Taken
<1>3. Len(Coming) = 1 /\ cmds = <<>> /\ Got.sess = sess /\ Begins(Got, 0)
  BY <1>1, <1>2 DEF Conversation, AtGroup
<1>4. Coming' = <<>>
  <2>1. Len(Coming') = 0 /\ Coming' \in Seq(ALine)
    BY <1>2, <1>3, OnTheWay, HeadTailProperties
  <2> QED BY <2>1, EmptySeq
<1>5. Len(cmds') = 0 /\ Len(Coming') = 0
  BY <1>1, <1>3, <1>4
<1>6. CASE Got.kind = "ok" /\ pc' = "xover" /\ sent' = 0 /\ done' = 0
  <2>1. Asked' = 0
    BY <1>5, <1>6 DEF Asked
  <2>2. Stream(Coming', sess', 0)
    BY <1>4, <1>5 DEF Stream
  <2>3. Queue(cmds', sess', 0)
    BY <1>5 DEF Queue
  <2>4. AtReply(Coming', 0, 0)
    BY <1>4 DEF AtReply
  <2>5. Conversation'
    BY <2>1, <2>2, <2>3, <2>4, <1>6 DEF Conversation
  <2> QED BY <2>5, <1>3 DEF Begins
<1>7. CASE Got.kind # "ok" /\ Throw
  <2>1. serving' = <<>> /\ replies' = <<>>
    BY <1>4, NothingComing DEF Coming
  <2>2. Quiet' /\ pc' = "idle"
    <3>1. serving' = <<>> /\ replies' = <<>> /\ cmds' = <<>>
      BY <2>1, <1>1, <1>3
    <3> QED BY <3>1, <1>7 DEF Quiet, Throw
  <2> QED BY <2>2, <1>3 DEF Conversation, Begins
<1> QED BY <1>6, <1>7 DEF ReadGroup

LEMMA ReadReplyTalks ==
  ASSUME IInv, IInv', Conversation, ReadReply
  PROVE  /\ Conversation'
         /\ Got.sess = sess /\ Got.range = done + 1
<1>1. pc = "xover" /\ Take /\ UNCHANGED <<cmds, serving, sess, sent, done>>
  BY DEF ReadReply, Throw
<1>2. /\ Got \in ALine /\ Got.sess = sess /\ Got.range <= Asked /\ Asked <= sent
      /\ Got.kind = "error" => Got.range = Ranges \/ MaxStreaming = 0
      /\ Stream(Coming', sess, Asked)
      /\ Coming' = <<>> => Got.range = Asked /\ Got.kind # "ok"
      /\ Coming' # <<>> => Follows(Got, Coming'[1]) /\ Coming'[1].range <= Asked
      /\ Begins(Got, done + 1)
  BY <1>1, NextLine
<1>3. Asked' = Asked
  BY <1>1 DEF Asked
<1>4. CASE Got.kind = "ok" /\ pc' = "lines"
  <2>1. Coming' # <<>>
    BY <1>2, <1>4
  <2>2. Coming'[1].kind = "header" /\ Coming'[1].range = done + 1
    BY <2>1, <1>2, <1>4 DEF Follows, Begins
  <2>3. InReply(Coming', Asked, done)
    BY <2>1, <2>2 DEF InReply
  <2>4. Queue(cmds', sess', Asked')
    BY <1>1, <1>3 DEF Conversation
  <2>5. Conversation'
    BY <2>3, <2>4, <1>1, <1>2, <1>3, <1>4 DEF Conversation
  <2> QED BY <2>5, <1>2 DEF Begins
<1>5. CASE Got.kind # "ok" /\ Throw
  <2>1. Got.kind = "error" /\ Got.range = done + 1
    BY <1>2, <1>5 DEF Begins
  <2>2. sent <= done + 1
    <3>1. CASE MaxStreaming = 0
      BY <3>1, <1>1, OnTheWay DEF IInv, Once
    <3>2. CASE Got.range = Ranges
      BY <3>2, <2>1, OnTheWay
    <3> QED BY <3>1, <3>2, <2>1, <1>2
  <2>3. Asked = done + 1 /\ sent = Asked
    BY <2>1, <2>2, <1>2, OnTheWay
  <2>4. Coming' = <<>>
    <3>1. ASSUME Coming' # <<>> PROVE FALSE
      <4>1. Coming'[1].range = done + 1 + 1
        BY <3>1, <2>1, <1>2 DEF Follows, Begins
      <4> QED BY <4>1, <3>1, <2>3, <1>2, OnTheWay
    <3> QED BY <3>1
  <2>5. serving' = <<>> /\ replies' = <<>>
    BY <2>4, NothingComing DEF Coming
  <2>6. Len(cmds) = 0
    BY <2>3, OnTheWay DEF Asked
  <2>7. cmds' = <<>>
    BY <2>6, <1>1, NoneQueued
  <2>8. Quiet' /\ pc' = "idle"
    BY <2>5, <2>7, <1>5 DEF Quiet, Throw
  <2> QED BY <2>8, <1>2 DEF Conversation, Begins
<1> QED BY <1>4, <1>5 DEF ReadReply

LEMMA ReadLineTalks ==
  ASSUME IInv, IInv', Conversation, ReadLine
  PROVE  /\ Conversation'
         /\ Got.sess = sess
         /\ Got.kind # "error" => Got.range = done + 1
<1>1. /\ pc = "lines" /\ Take /\ ~NextHasBegun /\ UNCHANGED <<cmds, serving, sess, sent>>
      /\ IF Got.kind = "end" THEN pc' = "xover" /\ done' = done + 1 ELSE UNCHANGED <<pc, done>>
  BY DEF ReadLine
<1>2. /\ Got \in ALine /\ Got.sess = sess /\ Got.range <= Asked /\ Asked <= sent
      /\ Got.kind = "error" => Got.range = Ranges \/ MaxStreaming = 0
      /\ Stream(Coming', sess, Asked)
      /\ Coming' = <<>> => Got.range = Asked /\ Got.kind # "ok"
      /\ Coming' # <<>> => Follows(Got, Coming'[1]) /\ Coming'[1].range <= Asked
      /\ \/ Got.range = done + 1 /\ Got.kind \in {"header", "end"}
         \/ Begins(Got, done + 2)
  BY <1>1, NextLine
<1>3. Asked' = Asked
  BY <1>1 DEF Asked
<1>4. Stream(Coming', sess', Asked') /\ Queue(cmds', sess', Asked')
  BY <1>1, <1>2, <1>3 DEF Conversation
<1>5. CASE Got.kind = "end" /\ Got.range = done + 1
  <2>1. AtReply(Coming', Asked, done + 1)
    <3>1. CASE Coming' = <<>>
      BY <3>1, <1>2, <1>5 DEF AtReply
    <3>2. CASE Coming' # <<>>
      <4>1. Begins(Coming'[1], done + 1 + 1)
        BY <3>2, <1>2, <1>5 DEF Follows
      <4> QED BY <4>1, <3>2 DEF AtReply
    <3> QED BY <3>1, <3>2
  <2> QED BY <2>1, <1>1, <1>2, <1>3, <1>4, <1>5 DEF Conversation
<1>6. CASE Got.kind = "header" /\ Got.range = done + 1
  <2>1. InReply(Coming', Asked, done)
    <3>1. CASE Coming' = <<>>
      BY <3>1, <1>2, <1>6 DEF InReply
    <3>2. CASE Coming' # <<>>
      <4>1. \/ Coming'[1].kind = "end" /\ Coming'[1].range = done + 1
            \/ Begins(Coming'[1], done + 1 + 1)
        BY <3>2, <1>2, <1>6 DEF Follows
      <4>2. done + 1 + 1 = done + 2
        BY OnTheWay
      <4> QED BY <4>1, <4>2, <3>2 DEF InReply
    <3> QED BY <3>1, <3>2
  <2> QED BY <2>1, <1>1, <1>2, <1>3, <1>4, <1>6 DEF Conversation
<1>7. CASE Begins(Got, done + 2)
  <2>1. Got.range = done + 2 /\ sent >= done + 2
    BY <1>2, <1>7, OnTheWay DEF Begins
  <2>2. Got.kind # "ok"
    <3>1. streamed = sent - done - 1
      BY <1>1 DEF IInv, TypeOK
    <3>2. streamed > 0
      BY <3>1, <2>1, OnTheWay
    <3> QED BY <3>2, <1>1 DEF NextHasBegun
  <2>3. Got.kind = "error"
    BY <2>2, <1>7 DEF Begins
  <2>4. Ranges = done + 2 /\ Asked = Ranges
    <3>1. MaxStreaming # 0
      BY <2>1, <1>1, OnTheWay DEF IInv, Once
    <3>2. Got.range = Ranges
      BY <3>1, <2>3, <1>2
    <3> QED BY <3>2, <2>1, <1>2, OnTheWay
  <2>5. Coming' = <<>>
    <3>1. ASSUME Coming' # <<>> PROVE FALSE
      <4>1. Coming'[1].range = done + 2 + 1
        BY <3>1, <2>1, <2>3, <1>2 DEF Follows, Begins
      <4> QED BY <4>1, <3>1, <2>4, <1>2, OnTheWay
    <3> QED BY <3>1
  <2>6. InReply(Coming', Asked, done)
    BY <2>4, <2>5 DEF InReply
  <2> QED BY <2>3, <2>6, <1>1, <1>2, <1>3, <1>4 DEF Conversation
<1> QED BY <1>2, <1>5, <1>6, <1>7

\* Every step keeps the conversation in order.
LEMMA NextTalks ==
  ASSUME IInv, Conversation, ErrorsAtEnds, [Next]_vars
  PROVE  Conversation'
<1>0. IInv'
  BY NextIInv
<1>1. CASE Serve
  BY <1>1, ServeTalks
<1>2. CASE Reply
  <2>1. serving # <<>> /\ replies' = Append(replies, Head(serving)) /\ serving' = Tail(serving)
    BY <1>2 DEF Reply
  <2>2. UNCHANGED <<pc, sess, sent, done, open, cmds>>
    BY <1>2 DEF Reply, client
  <2>3. Append(replies, Head(serving)) \o Tail(serving) = replies \o serving
    BY <2>1, OnTheWay, PassedOn
  <2>4. Coming' = Coming
    BY <2>1, <2>3 DEF Coming
  <2>5. ~(pc = "idle" /\ open) /\ pc # "group"
    BY <2>1 DEF Conversation, Quiet
  <2>6. Asked' = Asked
    BY <2>2 DEF Asked
  <2>7. AtGroup(Coming)' = AtGroup(Coming)
    BY <2>2, <2>4 DEF AtGroup
  <2> QED BY <2>2, <2>4, <2>5, <2>6, <2>7 DEF Conversation
<1>3. CASE Begin
  <2>1. pc' = "group"
    BY <1>3 DEF Begin
  <2>2. CASE open /\ UNCHANGED <<cmds, serving>>
             /\ \E k \in 0 .. Len(replies) : replies' = SubSeq(replies, k + 1, Len(replies))
    <3>1. Quiet
      BY <2>2, <1>3 DEF Begin, Conversation
    <3>2. replies' \in Seq(ALine) /\ Len(replies') <= Len(replies)
      BY <2>2, OnTheWay, Drained
    <3>3. Len(replies) = 0 /\ Len(replies') \in Nat
      BY <3>1, <3>2, LenProperties DEF Quiet
    <3>4. replies' = <<>>
      BY <3>2, <3>3, EmptySeq
    <3> QED BY <2>1, <2>2, <3>1, <3>4 DEF Conversation, Quiet
  <2>3. CASE FreshConnection
    BY <2>1, <2>3 DEF FreshConnection, Conversation, Quiet
  <2> QED BY <1>3, <2>2, <2>3 DEF Begin
<1>4. CASE SendGroup
  <2>1. Quiet /\ pc' = "greply" /\ sess' = sess /\ UNCHANGED <<serving, replies>>
    BY <1>4 DEF SendGroup, Put, Conversation
  <2>2. cmds' = <<[sess |-> sess, range |-> 0]>>
    <3>1. cmds' = Append(<<>>, [sess |-> sess, range |-> 0])
      BY <2>1, <1>4 DEF SendGroup, Put, Quiet
    <3> QED BY <3>1
  <2>3. Coming' = <<>>
    BY <2>1 DEF Coming, Quiet
  <2>4. AtGroup(Coming)'
    BY <2>1, <2>2, <2>3 DEF AtGroup
  <2> QED BY <2>1, <2>4 DEF Conversation
<1>5. CASE ReadGroup
  BY <1>0, <1>5, ReadGroupTalks
<1>6. CASE SendXover
  <2>1. pc = "xover" /\ UNCHANGED <<pc, sess, done, serving, replies>> /\ sent' = sent + 1
        /\ cmds' = Append(cmds, [sess |-> sess, range |-> sent + 1])
    BY <1>6 DEF SendXover, Put
  <2>2. [sess |-> sess, range |-> sent + 1] \in ACommand
    <3>1. sent + 1 \in 0 .. Ranges /\ sess \in 1 .. Sessions
      BY <1>6, OnTheWay, ConstantTypes DEF SendXover, MaySend, IInv, TypeOK, Once
    <3> QED BY <3>1 DEF ACommand
  <2>3. /\ Len(cmds') = Len(cmds) + 1
        /\ \A i \in 1 .. Len(cmds) : cmds'[i] = cmds[i]
        /\ cmds'[Len(cmds) + 1] = [sess |-> sess, range |-> sent + 1]
    BY <2>1, <2>2, OnTheWay, AppendProperties
  <2>4. Asked' = Asked /\ Asked + (Len(cmds) + 1) = sent + 1
    BY <2>1, <2>3, OnTheWay DEF Asked
  <2>5. Queue(cmds, sess, Asked)
    BY <2>1 DEF Conversation
  <2>6. ASSUME NEW i \in 1 .. Len(cmds')
        PROVE  cmds'[i] = [sess |-> sess, range |-> Asked + i]
    <3>1. CASE i = Len(cmds) + 1
      BY <3>1, <2>3, <2>4
    <3>2. CASE i \in 1 .. Len(cmds)
      BY <3>2, <2>3, <2>5 DEF Queue
    <3> QED BY <3>1, <3>2, <2>3, OnTheWay
  <2>7. Queue(cmds', sess, Asked)
    BY <2>6 DEF Queue
  <2>8. Coming' = Coming
    BY <2>1 DEF Coming
  <2> QED BY <2>1, <2>4, <2>7, <2>8 DEF Conversation
<1>7. CASE ReadReply
  BY <1>0, <1>7, ReadReplyTalks
<1>8. CASE ReadLine
  BY <1>0, <1>8, ReadLineTalks
<1>9. CASE StreamingError
  <2>1. CASE pc' = "group" /\ FreshConnection
    BY <2>1 DEF FreshConnection, Conversation, Quiet
  <2>2. CASE pc' = "idle" /\ open' = FALSE
    BY <2>2 DEF Conversation
  <2> QED BY <1>9, <2>1, <2>2 DEF StreamingError
<1>10. CASE Finish
  <2>1. pc = "xover" /\ done = Ranges /\ pc' = "idle" /\ UNCHANGED <<cmds, serving, replies>>
    BY <1>10 DEF Finish
  <2>2. Coming = <<>>
    <3>1. ASSUME Coming # <<>> PROVE FALSE
      <4>1. Begins(Coming[1], Ranges + 1) /\ Stream(Coming, sess, Asked)
        BY <3>1, <2>1 DEF Conversation, AtReply
      <4>2. Coming[1].range <= Asked
        BY <3>1, <4>1, OnTheWay, StreamRead
      <4>3. Asked <= Ranges
        BY OnTheWay DEF Asked
      <4> QED BY <4>1, <4>2, <4>3, OnTheWay DEF Begins
    <3> QED BY <3>1
  <2>3. Asked = Ranges
    BY <2>1, <2>2 DEF Conversation, AtReply
  <2>4. Asked = sent
    BY <2>3, OnTheWay DEF Asked
  <2>5. Quiet
    BY <2>2, <2>4, AllAnswered
  <2> QED BY <2>1, <2>5 DEF Conversation, Quiet
<1>11. CASE UNCHANGED vars
  <2>1. Coming' = Coming /\ Asked' = Asked /\ AtGroup(Coming)' = AtGroup(Coming)
    BY <1>11 DEF vars, Coming, Asked, AtGroup
  <2> QED BY <1>11, <2>1 DEF vars, Conversation, Quiet
<1> QED
  BY <1>1, <1>2, <1>3, <1>4, <1>5, <1>6, <1>7, <1>8, <1>9, <1>10, <1>11 DEF Next, Client

LEMMA InitTalks == Init => Conversation
BY DEF Init, Conversation

\* The conversation is in order in every state: the lines that are to come are
\* those of the session in hand, reply after reply, beginning where nget reads;
\* and a connection that is kept for another session is quiet.
THEOREM InStep == ASSUME ErrorsAtEnds PROVE Spec => [](IInv /\ Conversation)
<1>1. Init => IInv /\ Conversation
  BY InitIInv, InitTalks
<1>2. IInv /\ Conversation /\ [Next]_vars => (IInv /\ Conversation)'
  BY NextIInv, NextTalks
<1> QED BY <1>1, <1>2, PTL DEF Spec

\* A line that is taken for the answer to a command, or for a header in it, is
\* part of the server's answer to that command, although commands are streamed,
\* replies lose their ends and a connection serves one session after another
\* (doxover(), and the status it takes for the GROUP before).
THEOREM NoLineMistaken == ASSUME ErrorsAtEnds PROVE Spec => ReplyAnswers
<1> DEFINE answers(range) == Got.sess = sess /\ Got.range = range
           Right == /\ ReadGroup /\ pc' = "xover" => answers(0)
                    /\ ReadReply /\ pc' = "lines" => answers(done + 1)
                    /\ ReadLine /\ Got.kind = "header" => answers(done + 1)
<1>1. IInv /\ Conversation /\ [Next]_vars => [Right]_vars
  <2> SUFFICES ASSUME IInv, Conversation, [Next]_vars PROVE Right
    OBVIOUS
  <2>0. IInv'
    BY NextIInv
  <2>1. ReadGroup => answers(0)
    BY <2>0, ReadGroupTalks
  <2>2. ReadReply => answers(done + 1)
    BY <2>0, ReadReplyTalks
  <2>3. ReadLine /\ Got.kind = "header" => answers(done + 1)
    BY <2>0, ReadLineTalks
  <2> QED BY <2>1, <2>2, <2>3
<1>2. Spec => [][Right]_vars
  BY <1>1, InStep, PTL DEF Spec
<1> QED BY <1>2 DEF ReplyAnswers
=============================================================================
