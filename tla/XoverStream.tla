---------------------------- MODULE XoverStream ----------------------------
(***************************************************************************)
(* doxover() (prot_nntp.cc) on a connection of the pool: the XOVER         *)
(* commands for several ranges are streamed, up to maxstreaming + 1 ahead  *)
(* of the replies that are read.  Commands and replies travel through      *)
(* bounded buffers; nget does not read while it writes, nor does the       *)
(* server.  When a session ends the connection stays in the pool, and the  *)
(* next session on it first drains what has arrived.                       *)
(*                                                                         *)
(* The server is external: it answers commands in order, with the data, or *)
(* with a 4xx status when the range is empty; some drop the end of a reply *)
(* when more commands are waiting.                                         *)
(***************************************************************************)
EXTENDS Naturals, Sequences

CONSTANTS
  Sessions,       \* bound on the sessions, one group update each
  Ranges,         \* ranges in each session's c_nrange
  MaxStreaming,   \* maxstreaming, as configured
  MaxRetry,       \* options.maxretry
  CmdBuf,         \* commands that fit between nget and the server
  ReplyBuf,       \* lines that fit between the server and nget
  ErrorRanges,    \* the ranges the server may answer with 4xx; 0 is GROUP
  DropRanges      \* those whose reply the server may leave without an end

ASSUME XoverStreamAssumption ==
  /\ {Sessions, Ranges, MaxRetry, CmdBuf, ReplyBuf} \subseteq Nat \ {0}
  /\ MaxStreaming \in Nat 
  /\ ErrorRanges \subseteq 0 .. Ranges /\ DropRanges \subseteq 1 .. Ranges

VARIABLES
  pc,            \* idle, group (to send GROUP), greply, xover, lines
  sess,          \* the session
  redone,        \* how often it has been tried again
  sent,          \* how many XOVERs have been sent (w_ri)
  done,          \* how many replies have been read to the end (r_ri)
  streamed,      \* XOVERs whose reply has not been begun
  maxstreaming,  \* the server's setting
  open,          \* whether the connection is open
  cmds,          \* commands on their way, [sess, range]; range 0 is GROUP
  serving,       \* what the server has still to write
  replies        \* lines on their way, [sess, range, kind]

vars == <<pc, sess, redone, sent, done, streamed, maxstreaming, open, cmds, serving, replies>>
client == <<pc, sess, redone, sent, done, streamed, maxstreaming, open>>

Init ==
  /\ pc = "idle" /\ sess = 0 /\ redone = 0
  /\ sent = 0 /\ done = 0 /\ streamed = 0 /\ maxstreaming = MaxStreaming
  /\ open = FALSE /\ cmds = <<>> /\ serving = <<>> /\ replies = <<>>

-----------------------------------------------------------------------------
(* The server. *)

Line(c, kind) == [sess |-> c.sess, range |-> c.range, kind |-> kind]

Answers(c, more) ==
  LET data == <<Line(c, "ok"), Line(c, "header")>>
  IN {IF c.range = 0 THEN <<Line(c, "ok")>> ELSE Append(data, Line(c, "end"))}
     \cup (IF c.range \in ErrorRanges THEN {<<Line(c, "error")>>} ELSE {})
     \cup (IF more /\ c.range \in DropRanges THEN {data} ELSE {})

Serve ==
  /\ serving = <<>> /\ cmds # <<>>
  /\ serving' \in Answers(Head(cmds), Tail(cmds) # <<>>)
  /\ cmds' = Tail(cmds)
  /\ UNCHANGED <<client, replies>>

Reply ==
  /\ serving # <<>> /\ Len(replies) < ReplyBuf
  /\ replies' = Append(replies, Head(serving)) /\ serving' = Tail(serving)
  /\ UNCHANGED <<client, cmds>>

-----------------------------------------------------------------------------
(* Sessions. *)

Put(c) ==
  /\ Len(cmds) < CmdBuf
  /\ cmds' = Append(cmds, c)
  /\ UNCHANGED <<serving, replies>>

FreshConnection == open' = TRUE /\ cmds' = <<>> /\ serving' = <<>> /\ replies' = <<>>

\* A pooled connection is drained: the lines that have arrived, some of those
\* on their way, are thrown away.
Begin ==
  /\ pc = "idle" /\ sess < Sessions
  /\ sess' = sess + 1 /\ redone' = 0 /\ pc' = "group"
  /\ \/ /\ open
        /\ \E k \in 0 .. Len(replies) : replies' = SubSeq(replies, k + 1, Len(replies))
        /\ UNCHANGED <<open, cmds, serving>>
     \/ ~open /\ FreshConnection
  /\ UNCHANGED <<sent, done, streamed, maxstreaming>>

SendGroup ==
  /\ pc = "group"
  /\ Put([sess |-> sess, range |-> 0])
  /\ pc' = "greply"
  /\ UNCHANGED <<sess, redone, sent, done, streamed, maxstreaming, open>>

Got == Head(replies)
Take == replies # <<>> /\ replies' = Tail(replies)

\* chkreply() throws a ProtocolExFatal: this server is not tried again.  After
\* a 4xx the connection is kept; after anything else the pool may close it.
Throw ==
  /\ pc' = "idle"
  /\ IF Got.kind = "error" THEN open' = open ELSE open' \in BOOLEAN
  /\ UNCHANGED <<sess, redone, sent, done, streamed, maxstreaming>>

ReadGroup ==
  /\ pc = "greply" /\ Take
  /\ \/ /\ Got.kind = "ok"
        /\ pc' = "xover" /\ sent' = 0 /\ done' = 0 /\ streamed' = 0
        /\ UNCHANGED <<sess, redone, maxstreaming, open>>
     \/ Got.kind # "ok" /\ Throw
  /\ UNCHANGED <<cmds, serving>>

-----------------------------------------------------------------------------
(* doxover(). *)

MaySendMore == sent < Ranges /\ streamed <= maxstreaming + 1   \* wrong: one too many
MaySend == sent < Ranges /\ streamed <= maxstreaming

SendXover ==
  /\ pc = "xover" /\ MaySend
  /\ Put([sess |-> sess, range |-> sent + 1])
  /\ sent' = sent + 1 /\ streamed' = streamed + 1
  /\ UNCHANGED <<pc, sess, redone, done, maxstreaming, open>>

ReadReply ==
  /\ pc = "xover" /\ done < Ranges /\ ~MaySend /\ Take
  /\ \/ /\ Got.kind = "ok"
        /\ pc' = "lines" /\ streamed' = streamed - 1
        /\ UNCHANGED <<sess, redone, sent, done, maxstreaming, open>>
     \/ Got.kind # "ok" /\ Throw
  /\ UNCHANGED <<cmds, serving>>

\* The reply of the next range has begun without the end of this one.
NextHasBegunNever == FALSE   \* wrong: the check for this is forgotten
NextHasBegun == Got.kind = "ok" /\ streamed > 0

\* A header is added; a line that is none is reported and skipped.
ReadLine ==
  /\ pc = "lines" /\ Take /\ ~NextHasBegun
  /\ IF Got.kind = "end"
     THEN pc' = "xover" /\ done' = done + 1
     ELSE UNCHANGED <<pc, done>>
  /\ UNCHANGED <<sess, redone, sent, streamed, maxstreaming, open, cmds, serving>>

StreamingErrorKeepsSetting ==   \* wrong: maxstreaming stays
  /\ pc = "lines" /\ replies # <<>> /\ NextHasBegun
  /\ redone' = redone + 1
  /\ IF redone' < MaxRetry THEN pc' = "group" /\ FreshConnection
     ELSE pc' = "idle" /\ open' = FALSE /\ UNCHANGED <<cmds, serving, replies>>
  /\ UNCHANGED <<sess, sent, done, streamed, maxstreaming>>

\* Streaming is given up for this server, the connection is closed, and the
\* session is tried again.
StreamingError ==
  /\ pc = "lines" /\ replies # <<>> /\ NextHasBegun
  /\ maxstreaming' = 0
  /\ redone' = redone + 1
  /\ IF redone' < MaxRetry THEN pc' = "group" /\ FreshConnection
     ELSE pc' = "idle" /\ open' = FALSE /\ UNCHANGED <<cmds, serving, replies>>
  /\ UNCHANGED <<sess, sent, done, streamed>>

Finish ==
  /\ pc = "xover" /\ done = Ranges
  /\ pc' = "idle"
  /\ UNCHANGED <<sess, redone, sent, done, streamed, maxstreaming, open, cmds, serving, replies>>

-----------------------------------------------------------------------------
Client ==
  \/ Begin \/ SendGroup \/ ReadGroup
  \/ SendXover \/ ReadReply \/ ReadLine \/ StreamingError \/ Finish

Next == Client \/ Serve \/ Reply

\* nget and the server go on as long as their reads and writes do not block.
Spec == Init /\ [][Next]_vars /\ WF_vars(Client) /\ WF_vars(Serve) /\ WF_vars(Reply)

-----------------------------------------------------------------------------
(* Properties. *)

Lines == Seq([sess : 1 .. Sessions, range : 0 .. Ranges, kind : {"ok", "header", "end", "error"}])

\* Types; and streamed counts what it says.
TypeOK ==
  /\ pc \in {"idle", "group", "greply", "xover", "lines"}
  /\ sess \in 0 .. Sessions /\ redone \in 0 .. MaxRetry
  /\ sent \in 0 .. Ranges /\ done \in 0 .. Ranges
  /\ maxstreaming \in {0, MaxStreaming} /\ open \in BOOLEAN
  /\ cmds \in Seq([sess : 1 .. Sessions, range : 0 .. Ranges]) /\ serving \in Lines
  /\ replies \in Lines /\ Len(cmds) <= CmdBuf /\ Len(replies) <= ReplyBuf
  /\ pc = "xover" => streamed = sent - done
  /\ pc = "lines" => streamed = sent - done - 1

\* "keeping them open for reuse later without having to reconnect" (sockpool.h):
\* a line that is taken for the answer to a command, or for a header in it, is
\* part of the server's answer to that command.  Headers of another group
\* would otherwise be filed in this one.
ReplyAnswers ==
  [][LET answers(range) == Got.sess = sess /\ Got.range = range
     IN /\ ReadGroup /\ pc' = "xover" => answers(0)
        /\ ReadReply /\ pc' = "lines" => answers(done + 1)
        /\ ReadLine /\ Got.kind = "header" => answers(done + 1)]_vars

\* Neither side waits for the other for ever: with room for maxstreaming
\* commands every session ends.  nget.1:273 warns of the deadlock when there
\* is less.
SessionsEnd == <>(pc = "idle" /\ sess = Sessions)

\* One more try is enough after a streaming error, for the server then has no
\* reason to drop anything ("Retrying starting from the current range would be
\* better, but this is easier", prot_nntp.cc:450): with two tries or more no
\* session runs out of them.
NotGivenUp == redone < MaxRetry
=============================================================================
