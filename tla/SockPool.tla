------------------------------ MODULE SockPool ------------------------------
(***************************************************************************)
(* The pool of server connections (sockpool.h, sockpool.cc) and the        *)
(* penalties for servers that fail (server.h, server.cc).  One piece of    *)
(* code at a time has a ConnectionHolder: its constructor takes a          *)
(* connection from the pool and then expires idle ones, its destructor     *)
(* gives the connection back.  What is done with the connection in between *)
(* is reduced to what the pool can see: whether it is still open and       *)
(* whether server_ok has been set.  NntpSession says when.                 *)
(***************************************************************************)
EXTENDS Integers, FiniteSetsExt, Functions

CONSTANTS
  Server, NoServer,
  MaxConnections,     \* maxconnections; <= 0: no limit
  IdleTimeout,        \* idletimeout, at least 1
  PenaltyStrikes,     \* penaltystrikes; <= 0: no penalties
  InitialPenalty, PenaltyMultiplier,
  QuitFails,          \* whether sending QUIT to a server may fail
  MaxStall,           \* seconds that pass at most between connecting and expiring
  MaxTime             \* bound on the clock

ASSUME SockPoolAssumption ==
  /\ NoServer \notin Server /\ MaxConnections \in Int /\ IdleTimeout \in Nat \ {0}
  /\ PenaltyStrikes \in Int /\ InitialPenalty \in Nat \ {0} /\ PenaltyMultiplier \in Nat \ {0}
  /\ QuitFails \in BOOLEAN /\ MaxStall \in Nat /\ MaxTime \in Nat

VARIABLES
  conns,     \* connections: of some servers, [open, lastuse, server_ok]
  holder,    \* the server whose connection the holder has
  pc,        \* idle, connected (in the holder's constructor), using, terminated
  count, penalty, last,   \* penalty_count, penalty_time and last_penalty of each server
  now

vars == <<conns, holder, pc, count, penalty, last, now>>

Init ==
  /\ conns = [s \in {} |-> 0] /\ holder = NoServer /\ pc = "idle"
  /\ count = [s \in Server |-> 0] /\ penalty = [s \in Server |-> 0]
  /\ last = [s \in Server |-> 0] /\ now = 0

Pooled == DOMAIN conns
Without(ss) == Restrict(conns, Pooled \ ss)
Touched(c) == [c EXCEPT !.lastuse = now]
Age(s) == now - conns[s].lastuse

-----------------------------------------------------------------------------
(* Penalties. *)

CanPenalize == PenaltyStrikes > 0

Penalized(s) ==
  /\ CanPenalize /\ count[s] >= PenaltyStrikes
  /\ last[s] + penalty[s] - now > 0

\* penalize(): the new count decides about the time.
PenaltyOnlyOnce(s, n) == IF n = PenaltyStrikes THEN InitialPenalty ELSE penalty[s]   \* wrong
NewPenalty(s, n) ==
  CASE n = PenaltyStrikes -> InitialPenalty
    [] n > PenaltyStrikes -> penalty[s] * PenaltyMultiplier
    [] OTHER -> penalty[s]

Penalize(s) ==
  IF CanPenalize
  THEN /\ count' = [count EXCEPT ![s] = @ + 1]
       /\ penalty' = [penalty EXCEPT ![s] = NewPenalty(s, count[s] + 1)]
       /\ last' = [last EXCEPT ![s] = now]
  ELSE UNCHANGED <<count, penalty, last>>

\* The value penalize() returns.
Struck(s) == CanPenalize /\ count[s] + 1 >= PenaltyStrikes

-----------------------------------------------------------------------------
(* SockPool::connect(). *)

\* A pooled connection that is open is drained of what the server has sent;
\* this may show that the server has closed it.
Reuse(s) ==
  /\ pc = "idle" /\ s \in Pooled /\ conns[s].open
  /\ conns' = [conns EXCEPT ![s] = Touched(@)]
  /\ holder' = s /\ pc' = "connected"
  /\ UNCHANGED <<count, penalty, last, now>>

\* There is none, or it is closed or turns out to be, and so is erased.
NeedsNew(s) == pc = "idle"

\* check_penalized() throws, when what was pooled has been erased.
Refuse(s) ==
  /\ NeedsNew(s) /\ Penalized(s)
  /\ conns' = Without({s})
  /\ UNCHANGED <<holder, pc, count, penalty, last, now>>

\* expire_old_connection(): a closed connection, or else the one that has been
\* unused longest.
MayEvict(ss, v) ==
  \/ ~conns[v].open
  \/ (\A w \in ss : conns[w].open) /\ (\A w \in ss : Age(v) >= Age(w))

FullAbove(ss) == MaxConnections > 0 /\ Cardinality(ss) > MaxConnections   \* wrong
Full(ss) == MaxConnections > 0 /\ Cardinality(ss) >= MaxConnections

\* The pool once there is room for a connection to s.
Room(s) ==
  LET ss == Pooled \ {s}
  IN IF Full(ss) THEN {Without({s, v}) : v \in {w \in ss : MayEvict(ss, w)}} ELSE {Without({s})}

NewConnection == [open |-> TRUE, lastuse |-> now, server_ok |-> FALSE]

ConnectNew(s) ==
  /\ NeedsNew(s) /\ ~Penalized(s)
  /\ \E room \in Room(s) :
       \/ /\ conns' = [t \in DOMAIN room \cup {s} |->
                         IF t = s THEN NewConnection ELSE room[t]]
          /\ holder' = s /\ pc' = "connected"
          /\ UNCHANGED <<count, penalty, last, now>>
       \/ /\ conns' = room /\ Penalize(s)
          /\ UNCHANGED <<holder, pc, now>>

\* Erasing a connection that is open sends QUIT.  When this fails the
\* connection is closed and the exception, a TransportExError, is none of
\* those connection_erase() catches: connect() ends with the closed
\* connection still in the pool.
EvictFails(s) ==
  /\ QuitFails /\ NeedsNew(s) /\ ~Penalized(s)
  /\ \E v \in Pooled \ {s} :
       /\ Full(Pooled \ {s}) /\ MayEvict(Pooled \ {s}, v) /\ conns[v].open
       /\ conns' = [Without({s}) EXCEPT ![v].open = FALSE]
  /\ UNCHANGED <<holder, pc, count, penalty, last, now>>

-----------------------------------------------------------------------------
(* expire_connections(), at the end of the holder's constructor. *)

Expired == {s \in Pooled : ~conns[s].open \/ Age(s) >= IdleTimeout}

Expire ==
  /\ pc = "connected"
  /\ conns' = Without(Expired)
  /\ pc' = "using"
  /\ UNCHANGED <<holder, count, penalty, last, now>>

\* A QUIT fails: the constructor ends with an exception and the destructor
\* does not run; the connection is left in the pool.
ExpireFails ==
  /\ QuitFails /\ pc = "connected"
  /\ \E v \in Expired : \E gone \in SUBSET (Expired \ {v}) :
       /\ conns[v].open
       /\ conns' = [Without(gone) EXCEPT ![v].open = FALSE]
  /\ holder' = NoServer /\ pc' = "idle"
  /\ UNCHANGED <<count, penalty, last, now>>

-----------------------------------------------------------------------------
(* Using the connection. *)

\* A reply that shows the server to be well, or the end of what was to be done.
SetOk ==
  /\ pc = "using" /\ holder \in Pooled
  /\ conns' = [conns EXCEPT ![holder].server_ok = TRUE]
  /\ UNCHANGED <<holder, pc, count, penalty, last, now>>

\* A read or write fails, or the server says 400: close(1).
Break ==
  /\ pc = "using" /\ holder \in Pooled /\ conns[holder].open
  /\ conns' = [conns EXCEPT ![holder].open = FALSE]
  /\ UNCHANGED <<holder, pc, count, penalty, last, now>>

-----------------------------------------------------------------------------
(* release(), in the holder's destructor. *)

KeepsWhileOpen(s) == conns[s].open   \* wrong: a penalized server's connection is kept
Keeps(s) == conns[s].open /\ (conns[s].server_ok \/ ~Struck(s))

Judge(s) ==
  IF conns[s].server_ok
  THEN count' = [count EXCEPT ![s] = 0] /\ UNCHANGED <<penalty, last>>
  ELSE Penalize(s)

Release ==
  /\ pc = "using" /\ holder \in Pooled
  /\ Judge(holder)
  /\ conns' = IF Keeps(holder)
              THEN [conns EXCEPT ![holder] = [Touched(@) EXCEPT !.server_ok = FALSE]]
              ELSE Without({holder})
  /\ holder' = NoServer /\ pc' = "idle"
  /\ UNCHANGED now

\* server_ok is not set, and so the destructor runs because of an exception:
\* when the QUIT fails a second exception leaves it, and the program is
\* terminated.
ReleaseFails ==
  /\ QuitFails /\ pc = "using" /\ holder \in Pooled
  /\ ~Keeps(holder) /\ conns[holder].open
  /\ Judge(holder)
  /\ conns' = [conns EXCEPT ![holder].open = FALSE]
  /\ pc' = "terminated"
  /\ UNCHANGED <<holder, now>>

\* The clock.
Tick ==
  /\ now < MaxTime
  /\ pc = "connected" => Age(holder) < MaxStall
  /\ now' = now + 1
  /\ UNCHANGED <<conns, holder, pc, count, penalty, last>>

Next ==
  \/ \E s \in Server : Reuse(s) \/ Refuse(s) \/ ConnectNew(s) \/ EvictFails(s)
  \/ Expire \/ ExpireFails \/ SetOk \/ Break \/ Release \/ ReleaseFails \/ Tick

Spec == Init /\ [][Next]_vars

-----------------------------------------------------------------------------
(* Properties. *)

TypeOK ==
  /\ Pooled \subseteq Server
  /\ conns \in [Pooled -> [open : BOOLEAN, lastuse : 0 .. now, server_ok : BOOLEAN]]
  /\ holder \in Server \cup {NoServer} /\ (holder # NoServer) = (pc # "idle")
  /\ pc \in {"idle", "connected", "using", "terminated"}
  /\ count \in [Server -> Nat] /\ penalty \in [Server -> Nat] /\ last \in [Server -> 0 .. now]
  /\ now \in 0 .. MaxTime

\* nget.1:277: "Maximum number of connections to open at once".
PoolBound == MaxConnections > 0 => Cardinality(Pooled) <= MaxConnections

\* A server that is penalized has no connection in the pool that could be taken
\* again without check_penalized().
StruckNotPooled == \A s \in Pooled : Penalized(s) => s = holder

\* nget.1:287: the penalty is multiplied "for each time the penalty time runs
\* out and the server continues to be down": never before it has run out, and
\* once for each time.
PenaltyRunsOut ==
  [][\A s \in Server :
       count[s] >= PenaltyStrikes /\ count'[s] > count[s] =>
         /\ last[s] + penalty[s] <= now
         /\ penalty'[s] = penalty[s] * PenaltyMultiplier]_vars
=============================================================================
