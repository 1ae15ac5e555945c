----------------------------- MODULE NntpSession -----------------------------
(***************************************************************************)
(* What is done over the connections of SockPool (prot_nntp.cc): a new one *)
(* is greeted, a group is selected, articles are asked for by number.      *)
(* connection->curgroup remembers which group that is; it stays with the   *)
(* connection when this goes back to the pool, and the next user sends     *)
(* GROUP only if it is another.  The server's side, the group it has       *)
(* selected, is modelled as the protocol lets servers behave.              *)
(***************************************************************************)
EXTENDS SockPool

CONSTANTS Group, NoGroup

ASSUME NntpSessionAssumption == NoGroup \notin Group

VARIABLES
  session,   \* of the connections: [greeting, curgroup, selected]; freshconnect
             \* is greeting # "taken", selected is what the server goes by
  over       \* the holder is done, or an exception is on its way

sessionVars == <<session, over>>
allVars == <<vars, sessionVars>>

NewSession == [greeting |-> "awaited", curgroup |-> NoGroup, selected |-> NoGroup]

SessionInit == Init /\ session = [s \in {} |-> NewSession] /\ over = FALSE

-----------------------------------------------------------------------------
(* The pool: a session lasts as long as its connection. *)

Connect(s) ==
  /\ ConnectNew(s)
  /\ session' = [t \in DOMAIN conns' |-> IF t = s THEN NewSession ELSE session[t]]
  /\ over' = FALSE

TakePooled(s) == Reuse(s) /\ over' = FALSE /\ UNCHANGED session

PoolStep ==
  /\ \/ \E s \in Server : Refuse(s) \/ EvictFails(s)
     \/ Expire \/ ExpireFails \/ Release \/ ReleaseFails \/ Tick
  /\ session' = Restrict(session, DOMAIN conns')
  /\ over' = (over /\ holder' # NoServer)

-----------------------------------------------------------------------------
(* The commands. *)

Speaking == pc = "using" /\ ~over /\ holder \in Pooled /\ conns[holder].open
Ready == Speaking /\ session[holder].greeting = "taken"

\* An exception that leaves the connection as it is.
Throw == over' = TRUE /\ UNCHANGED vars

\* nntp_doopen() of a new connection.  When the greeting is a refusal it has
\* been read, and freshconnect stays set.
Open ==
  /\ Speaking /\ session[holder].greeting = "awaited"
  /\ \/ session' = [session EXCEPT ![holder].greeting = "taken"] /\ UNCHANGED <<vars, over>>
     \/ session' = [session EXCEPT ![holder].greeting = "refused"] /\ Throw

\* What curgroup is while the reply to GROUP is out.
KeptMeanwhile(s) == session[s].curgroup   \* wrong
Meanwhile(s) == NoGroup

\* nntp_dogroup(): the server has the group; or it has not, and then some
\* servers stay in the old group and others leave it; or it refuses.
AskGroup(g) ==
  /\ Ready
  /\ \/ /\ session' = [session EXCEPT ![holder] = [@ EXCEPT !.curgroup = g, !.selected = g]]
        /\ UNCHANGED <<vars, over>>
     \/ /\ \E left \in {session[holder].selected, NoGroup} :
             session' = [session EXCEPT ![holder] =
                           [@ EXCEPT !.curgroup = Meanwhile(holder), !.selected = left]]
        /\ SetOk /\ over' = TRUE
     \/ session' = [session EXCEPT ![holder].curgroup = Meanwhile(holder)] /\ Throw

\* The commands about the articles of the group, and the end of the work: the
\* server knows the article or says that it does not, or it fails.
Articles(g) ==
  /\ Ready /\ session[holder].curgroup = g
  /\ \/ SetOk /\ over' = TRUE
     \/ Throw
  /\ UNCHANGED session

\* A read or a write fails or times out, or the server says 400.
Lose == Speaking /\ Break /\ over' = TRUE /\ UNCHANGED session

SessionNext ==
  \/ \E s \in Server : Connect(s) \/ TakePooled(s)
  \/ PoolStep
  \/ Open \/ (\E g \in Group : AskGroup(g) \/ Articles(g)) \/ Lose

SessionSpec == SessionInit /\ [][SessionNext]_allVars

-----------------------------------------------------------------------------
(* Properties. *)

SessionTypeOK ==
  /\ TypeOK
  /\ session \in [Pooled -> [greeting : {"awaited", "taken", "refused"},
                             curgroup : Group \cup {NoGroup}, selected : Group \cup {NoGroup}]]
  /\ over \in BOOLEAN

\* An article number means another article in another group: where curgroup
\* says that no GROUP is needed, the server has that group selected, whoever
\* used the connection before and however that ended (prot_nntp.cc:548).
CurgroupTrue ==
  \A s \in Pooled : conns[s].open /\ session[s].curgroup # NoGroup =>
    session[s].selected = session[s].curgroup
=============================================================================
