--------------------------- MODULE SockPoolProofs ---------------------------
(***************************************************************************)
(* Theorems about SockPool and NntpSession for any servers, groups, limits *)
(* and penalties, for any length of time.                                  *)
(***************************************************************************)
EXTENDS NntpSession, FiniteSetTheorems, TLAPS

Conn(t) == [open : BOOLEAN, lastuse : 0 .. t, server_ok : BOOLEAN]

-----------------------------------------------------------------------------
(* The pool under the operators that change it. *)

\* connection_erase() takes connections out and leaves the others alone.
LEMMA WithoutType ==
  ASSUME TypeOK, NEW ss
  PROVE  /\ DOMAIN Without(ss) = Pooled \ ss
         /\ Without(ss) \in [Pooled \ ss -> Conn(now)]
         /\ \A s \in Pooled \ ss : Without(ss)[s] = conns[s]
  BY DEF TypeOK, Without, Restrict, Pooled, Conn

\* Marking a connection that is left over as closed.
LEMMA ClosedType ==
  ASSUME TypeOK, NEW ss, NEW v \in Pooled \ ss
  PROVE  /\ DOMAIN [Without(ss) EXCEPT ![v].open = FALSE] = Pooled \ ss
         /\ [Without(ss) EXCEPT ![v].open = FALSE] \in [Pooled \ ss -> Conn(now)]
  <1> DEFINE left == Without(ss)
  <1>1. left \in [Pooled \ ss -> Conn(now)]
    BY WithoutType
  <1>2. [left[v] EXCEPT !.open = FALSE] \in Conn(now)
    BY <1>1 DEF Conn
  <1> HIDE DEF left
  <1>3. /\ DOMAIN [left EXCEPT ![v].open = FALSE] = Pooled \ ss
        /\ [left EXCEPT ![v].open = FALSE] \in [Pooled \ ss -> Conn(now)]
    BY <1>1, <1>2
  <1> QED
    BY <1>3 DEF left

\* When connect() has made room there is no connection to this server any more
\* and one place is free.
LEMMA RoomType ==
  ASSUME TypeOK, IsFiniteSet(Pooled), PoolBound, NEW s \in Server, NEW room \in Room(s)
  PROVE  /\ DOMAIN room \subseteq Pooled \ {s}
         /\ room \in [DOMAIN room -> Conn(now)]
         /\ \A t \in DOMAIN room : room[t] = conns[t]
         /\ MaxConnections > 0 => Cardinality(DOMAIN room) < MaxConnections
  <1> DEFINE others == Pooled \ {s}
  <1>1. /\ IsFiniteSet(others) /\ Cardinality(others) \in Nat /\ Cardinality(Pooled) \in Nat
        /\ Cardinality(others) <= Cardinality(Pooled)
    BY FS_CardinalityType, others \subseteq Pooled, FS_Subset
  <1>2. MaxConnections > 0 => Cardinality(others) <= MaxConnections
    BY <1>1, SockPoolAssumption DEF PoolBound, SockPoolAssumption
  <1>3. CASE Full(others)
    <2>1. PICK v \in others : room = Without({s, v})
      BY <1>3 DEF Room
    <2>2. /\ DOMAIN room = others \ {v} /\ room \in [others \ {v} -> Conn(now)]
          /\ \A t \in others \ {v} : room[t] = conns[t]
      BY <2>1, WithoutType, Pooled \ {s, v} = others \ {v}
    <2>3. Cardinality(others \ {v}) = Cardinality(others) - 1
      BY <1>1, FS_RemoveElement
    <2> QED
      BY <1>1, <1>2, <2>2, <2>3, SockPoolAssumption DEF SockPoolAssumption
  <1>4. CASE ~Full(others)
    <2>1. room = Without({s})
      BY <1>4 DEF Room
    <2>2. /\ DOMAIN room = others /\ room \in [others -> Conn(now)]
          /\ \A t \in others : room[t] = conns[t]
      BY <2>1, WithoutType
    <2> QED
      BY <1>1, <1>4, <2>2, SockPoolAssumption DEF Full, SockPoolAssumption
  <1> QED
    BY <1>3, <1>4

\* Counting a strike keeps the counters what they are for every server.
LEMMA PenalizeType ==
  ASSUME TypeOK, NEW s \in Server, Penalize(s)
  PROVE  /\ count' \in [Server -> Nat] /\ penalty' \in [Server -> Nat]
         /\ last' \in [Server -> 0 .. now]
         /\ \A t \in Server \ {s} :
              count'[t] = count[t] /\ penalty'[t] = penalty[t] /\ last'[t] = last[t]
  <1>1. CASE CanPenalize
    <2>1. NewPenalty(s, count[s] + 1) \in Nat
      BY SockPoolAssumption DEF TypeOK, SockPoolAssumption, NewPenalty
    <2> QED
      BY <1>1, <2>1 DEF TypeOK, Penalize
  <1>2. CASE ~CanPenalize
    BY <1>2 DEF TypeOK, Penalize
  <1> QED
    BY <1>1, <1>2

\* The verdict of release(): what it counts is counted against one server, and
\* a connection that is kept is not to a server with enough strikes.
LEMMA JudgeType ==
  ASSUME TypeOK, NEW s \in Pooled, Judge(s)
  PROVE  /\ count' \in [Server -> Nat] /\ penalty' \in [Server -> Nat]
         /\ last' \in [Server -> 0 .. now]
         /\ \A t \in Server \ {s} :
              count'[t] = count[t] /\ penalty'[t] = penalty[t] /\ last'[t] = last[t]
         /\ Keeps(s) => ~(CanPenalize /\ count'[s] >= PenaltyStrikes)
  <1>0. s \in Server
    BY DEF TypeOK
  <1>1. CASE conns[s].server_ok
    BY <1>0, <1>1, SockPoolAssumption DEF TypeOK, Judge, CanPenalize, SockPoolAssumption
  <1>2. CASE ~conns[s].server_ok
    <2>1. Penalize(s)
      BY <1>2 DEF Judge
    <2>2. Keeps(s) => ~(CanPenalize /\ count'[s] >= PenaltyStrikes)
      BY <1>0, <1>2, <2>1 DEF TypeOK, Penalize, Keeps, Struck
    <2> QED
      BY <1>0, <2>1, <2>2, PenalizeType
  <1> QED
    BY <1>1, <1>2

-----------------------------------------------------------------------------
(***************************************************************************)
(* The inductive invariant of the pool.  What a verdict rests on is that   *)
(* nobody holds a connection to a penalized server until it is given back: *)
(* check_penalized() runs when a connection is made, a pooled one is to a  *)
(* server that is not penalized, and no strike falls in between.           *)
(***************************************************************************)

\* The pool is finite, whatever servers there are.
PoolFinite == IsFiniteSet(Pooled)

\* The holder's server is not penalized before release() has judged it.
HolderFit == pc \in {"connected", "using"} => ~Penalized(holder)

IInv == TypeOK /\ PoolFinite /\ PoolBound /\ HolderFit /\ StruckNotPooled

LEMMA InitIInv == Init => IInv
  <1> SUFFICES ASSUME Init PROVE IInv
    OBVIOUS
  <1>1. Pooled = {}
    BY DEF Init, Pooled
  <1>2. PoolFinite /\ PoolBound
    BY <1>1, FS_EmptySet, SockPoolAssumption DEF PoolFinite, PoolBound, SockPoolAssumption
  <1>3. TypeOK /\ HolderFit /\ StruckNotPooled
    BY <1>1, SockPoolAssumption
       DEF Init, TypeOK, HolderFit, StruckNotPooled, Pooled, SockPoolAssumption
  <1> QED
    BY <1>2, <1>3 DEF IInv

\* A pool that only loses connections stays finite and within its bound.
LEMMA Shrinks ==
  ASSUME PoolFinite, PoolBound, Pooled' \subseteq Pooled
  PROVE  PoolFinite' /\ PoolBound'
  BY SockPoolAssumption, FS_Subset, FS_CardinalityType DEF PoolFinite, PoolBound, SockPoolAssumption

LEMMA StepIInv == IInv /\ [Next]_vars => IInv'
<1> SUFFICES ASSUME IInv, [Next]_vars PROVE IInv'
  OBVIOUS
<1> USE SockPoolAssumption DEF IInv
<1>1. ASSUME NEW s \in Server, Reuse(s) PROVE IInv'
  <2>1. Pooled' = Pooled /\ TypeOK'
    BY <1>1 DEF Reuse, TypeOK, Pooled, Touched, SockPoolAssumption
  <2>2. HolderFit' /\ StruckNotPooled'
    BY <1>1, <2>1 DEF Reuse, TypeOK, HolderFit, StruckNotPooled, Penalized, CanPenalize, SockPoolAssumption
  <2> QED
    BY <2>1, <2>2, Shrinks
<1>2. ASSUME NEW s \in Server, Refuse(s) PROVE IInv'
  <2>0. conns' = Without({s}) /\ UNCHANGED <<holder, pc, count, penalty, last, now>>
    BY <1>2 DEF Refuse
  <2>a. Pooled' = Pooled \ {s} /\ conns' \in [Pooled \ {s} -> Conn(now)]
    BY <2>0, WithoutType DEF Pooled
  <2>1. Pooled' = Pooled \ {s} /\ TypeOK'
    BY <2>0, <2>a DEF TypeOK, Conn
  <2>2. HolderFit' /\ StruckNotPooled'
    BY <1>2, <2>1 DEF Refuse, TypeOK, HolderFit, StruckNotPooled, Penalized, CanPenalize
  <2> QED
    BY <2>1, <2>2, Shrinks
<1>3. ASSUME NEW s \in Server, EvictFails(s) PROVE IInv'
  <2>0. PICK v \in Pooled \ {s} : conns' = [Without({s}) EXCEPT ![v].open = FALSE]
    BY <1>3 DEF EvictFails
  <2>a. Pooled' = Pooled \ {s} /\ conns' \in [Pooled \ {s} -> Conn(now)]
    BY <2>0, ClosedType DEF Pooled
  <2>1. Pooled' = Pooled \ {s} /\ TypeOK'
    BY <1>3, <2>a DEF EvictFails, TypeOK, Conn
  <2>2. HolderFit' /\ StruckNotPooled'
    BY <1>3, <2>1 DEF EvictFails, TypeOK, HolderFit, StruckNotPooled, Penalized, CanPenalize
  <2> QED
    BY <2>1, <2>2, Shrinks
<1>4. ASSUME NEW s \in Server, ConnectNew(s) PROVE IInv'
  <2>1. PICK room \in Room(s) :
          \/ /\ conns' = [t \in DOMAIN room \cup {s} |->
                        IF t = s THEN NewConnection ELSE room[t]]
             /\ holder' = s /\ pc' = "connected"
             /\ UNCHANGED <<count, penalty, last, now>>
          \/ /\ conns' = room /\ Penalize(s)
             /\ UNCHANGED <<holder, pc, now>>
    BY <1>4 DEF ConnectNew
  <2>2. /\ DOMAIN room \subseteq Pooled \ {s} /\ room \in [DOMAIN room -> Conn(now)]
        /\ MaxConnections > 0 => Cardinality(DOMAIN room) < MaxConnections
    BY RoomType DEF PoolFinite
  <2>3. IsFiniteSet(DOMAIN room)
    BY <2>2, FS_Subset DEF PoolFinite
  <2>4. pc = "idle" /\ holder = NoServer /\ ~Penalized(s)
    BY <1>4 DEF ConnectNew, NeedsNew, TypeOK
  <2>5. CASE /\ conns' = [t \in DOMAIN room \cup {s} |->
                        IF t = s THEN NewConnection ELSE room[t]]
             /\ holder' = s /\ pc' = "connected"
             /\ UNCHANGED <<count, penalty, last, now>>
    <3>1. Pooled' = DOMAIN room \cup {s} /\ TypeOK'
      BY <2>2, <2>4, <2>5 DEF TypeOK, Pooled, Conn, NewConnection, SockPoolAssumption
    <3>a. /\ IsFiniteSet(DOMAIN room \cup {s}) /\ Cardinality(DOMAIN room) \in Nat
          /\ Cardinality(DOMAIN room \cup {s}) = Cardinality(DOMAIN room) + 1
      BY <2>2, <2>3, FS_AddElement, FS_CardinalityType
    <3>2. PoolFinite' /\ PoolBound'
      BY <2>2, <3>a, <3>1
         DEF PoolFinite, PoolBound, SockPoolAssumption
    <3>3. HolderFit' /\ StruckNotPooled'
      BY <2>2, <2>4, <2>5, <3>1 DEF TypeOK, HolderFit, StruckNotPooled, Penalized, CanPenalize
    <3> QED
      BY <3>1, <3>2, <3>3
  <2>6. CASE conns' = room /\ Penalize(s) /\ UNCHANGED <<holder, pc, now>>
    <3>1. Pooled' = DOMAIN room /\ TypeOK'
      BY <2>2, <2>6, PenalizeType DEF TypeOK, Pooled, Conn
    <3>2. HolderFit' /\ StruckNotPooled'
      BY <2>2, <2>4, <2>6, <3>1, PenalizeType
         DEF TypeOK, HolderFit, StruckNotPooled, Penalized, CanPenalize
    <3> QED
      BY <2>2, <3>1, <3>2, Shrinks
  <2> QED
    BY <2>1, <2>5, <2>6
<1>5. CASE Expire
  <2>a. Pooled' = Pooled \ Expired /\ conns' \in [Pooled \ Expired -> Conn(now)]
    BY <1>5, WithoutType DEF Expire, Pooled
  <2>1. Pooled' = Pooled \ Expired /\ TypeOK'
    BY <1>5, <2>a DEF Expire, TypeOK, Conn
  <2>2. HolderFit' /\ StruckNotPooled'
    BY <1>5, <2>1 DEF Expire, TypeOK, HolderFit, StruckNotPooled, Penalized, CanPenalize
  <2> QED
    BY <2>1, <2>2, Shrinks
<1>6. CASE ExpireFails
  <2>1. PICK v \in Expired : \E gone \in SUBSET (Expired \ {v}) :
          conns' = [Without(gone) EXCEPT ![v].open = FALSE]
    BY <1>6 DEF ExpireFails
  <2>a. PICK gone \in SUBSET (Expired \ {v}) :
          conns' = [Without(gone) EXCEPT ![v].open = FALSE]
    BY <2>1
  <2>2. v \in Pooled \ gone
    BY DEF Expired
  <2>3. Pooled' = Pooled \ gone /\ TypeOK'
    BY <1>6, <2>a, <2>2, ClosedType DEF ExpireFails, TypeOK, Pooled, Conn
  <2>4. HolderFit' /\ StruckNotPooled'
    BY <1>6, <2>3 DEF ExpireFails, TypeOK, HolderFit, StruckNotPooled, Penalized, CanPenalize
  <2> QED
    BY <2>3, <2>4, Shrinks
<1>7. CASE SetOk
  <2>1. Pooled' = Pooled /\ TypeOK'
    BY <1>7 DEF SetOk, TypeOK, Pooled
  <2>2. HolderFit' /\ StruckNotPooled'
    BY <1>7, <2>1 DEF SetOk, TypeOK, HolderFit, StruckNotPooled, Penalized, CanPenalize
  <2> QED
    BY <2>1, <2>2, Shrinks
<1>8. CASE Break
  <2>1. Pooled' = Pooled /\ TypeOK'
    BY <1>8 DEF Break, TypeOK, Pooled
  <2>2. HolderFit' /\ StruckNotPooled'
    BY <1>8, <2>1 DEF Break, TypeOK, HolderFit, StruckNotPooled, Penalized, CanPenalize
  <2> QED
    BY <2>1, <2>2, Shrinks
<1>9. CASE Release
  <2>1. /\ holder \in Pooled /\ Judge(holder) /\ holder' = NoServer /\ pc' = "idle" /\ now' = now
        /\ conns' = IF Keeps(holder)
                    THEN [conns EXCEPT ![holder] = [Touched(@) EXCEPT !.server_ok = FALSE]]
                    ELSE Without({holder})
    BY <1>9 DEF Release
  <2>2. CASE Keeps(holder)
    <3> DEFINE given == [Touched(conns[holder]) EXCEPT !.server_ok = FALSE]
    <3>b. conns[holder] \in Conn(now) /\ now \in 0 .. now
      BY <2>1 DEF TypeOK, Conn, SockPoolAssumption
    <3>0. given \in Conn(now)
      BY <3>b DEF Conn, Touched
    <3>a. conns' = [conns EXCEPT ![holder] = given]
      BY <2>1, <2>2
    <3> HIDE DEF given
    <3>1. Pooled' = Pooled /\ conns' \in [Pooled -> Conn(now)]
      BY <3>0, <3>a DEF TypeOK, Pooled, Conn
    <3>2. TypeOK'
      BY <2>1, <3>1, JudgeType DEF TypeOK, Conn
    <3>3. HolderFit' /\ StruckNotPooled'
      BY <2>1, <2>2, <3>1, JudgeType
         DEF TypeOK, HolderFit, StruckNotPooled, Penalized, CanPenalize
    <3> QED
      BY <3>1, <3>2, <3>3, Shrinks
  <2>3. CASE ~Keeps(holder)
    <3>1. Pooled' = Pooled \ {holder} /\ conns' \in [Pooled \ {holder} -> Conn(now)]
      BY <2>1, <2>3, WithoutType DEF Pooled
    <3>2. TypeOK'
      BY <2>1, <3>1, JudgeType DEF TypeOK, Conn
    <3>3. HolderFit' /\ StruckNotPooled'
      BY <2>1, <2>3, <3>1, JudgeType
         DEF TypeOK, HolderFit, StruckNotPooled, Penalized, CanPenalize
    <3> QED
      BY <3>1, <3>2, <3>3, Shrinks
  <2> QED
    BY <2>2, <2>3
<1>10. CASE ReleaseFails
  <2>1. Pooled' = Pooled /\ conns' \in [Pooled -> Conn(now)]
    BY <1>10 DEF ReleaseFails, TypeOK, Pooled, Conn
  <2>2. TypeOK'
    BY <1>10, <2>1, JudgeType DEF ReleaseFails, TypeOK, Conn
  <2>3. HolderFit' /\ StruckNotPooled'
    BY <1>10, <2>1, JudgeType
       DEF ReleaseFails, TypeOK, HolderFit, StruckNotPooled, Penalized, CanPenalize
  <2> QED
    BY <2>1, <2>2, <2>3, Shrinks
<1>11. CASE Tick
  <2>1. Pooled' = Pooled /\ TypeOK'
    BY <1>11 DEF Tick, TypeOK, Pooled, SockPoolAssumption
  <2>2. HolderFit' /\ StruckNotPooled'
    BY <1>11, <2>1 DEF Tick, TypeOK, HolderFit, StruckNotPooled, Penalized, CanPenalize, SockPoolAssumption
  <2> QED
    BY <2>1, <2>2, Shrinks
<1>12. CASE UNCHANGED vars
  BY <1>12, Shrinks DEF vars, TypeOK, PoolFinite, PoolBound, HolderFit, StruckNotPooled, Pooled, Penalized, CanPenalize
<1> QED
  BY <1>1, <1>2, <1>3, <1>4, <1>5, <1>6, <1>7, <1>8, <1>9, <1>10, <1>11, <1>12 DEF Next

\* Every reachable state of the pool satisfies the inductive invariant.
THEOREM Invariance == Spec => []IInv
<1>1. IInv /\ [Next]_vars => IInv'
  BY StepIInv
<1> QED
  BY InitIInv, <1>1, PTL DEF Spec

\* Type correctness of the connection pool.
THEOREM TypeCorrect == Spec => []TypeOK
<1>1. IInv => TypeOK
  BY DEF IInv
<1> QED
  BY Invariance, <1>1, PTL

\* connect() never has more connections open than maxconnections, whatever
\* breaks and whichever QUITs fail: a connection is only made when one place is
\* free, and a QUIT that fails leaves the pool as full as it was.
THEOREM NeverTooMany == Spec => []PoolBound
<1>1. IInv => PoolBound
  BY DEF IInv
<1> QED
  BY Invariance, <1>1, PTL

\* No connection to a penalized server is in the pool but the one of a holder
\* that could not give it back.
THEOREM PenaltyNotEvaded == Spec => []StruckNotPooled
<1>1. IInv => StruckNotPooled
  BY DEF IInv
<1> QED
  BY Invariance, <1>1, PTL

\* penalize() lengthens a penalty only when it has run out, and then by the
\* multiplier: the one who strikes has been let through by check_penalized(),
\* or holds a connection to a server that was not penalized when it was taken.
THEOREM PenaltyLengthens == Spec => PenaltyRunsOut
<1> DEFINE Lengthens(s) ==
      count[s] >= PenaltyStrikes /\ count'[s] > count[s] =>
        /\ last[s] + penalty[s] <= now
        /\ penalty'[s] = penalty[s] * PenaltyMultiplier
<1>1. ASSUME IInv, NEW t \in Server, Penalize(t), ~Penalized(t), NEW s \in Server
      PROVE  Lengthens(s)
  <2>1. CASE s = t /\ CanPenalize
    BY <1>1, <2>1, SockPoolAssumption
       DEF IInv, TypeOK, Penalize, Penalized, NewPenalty, SockPoolAssumption
  <2>2. CASE s # t \/ ~CanPenalize
    BY <1>1, <2>2 DEF IInv, TypeOK, Penalize
  <2> QED
    BY <2>1, <2>2
<1>2. ASSUME IInv, Judge(holder), holder \in Pooled, pc = "using", NEW s \in Server
      PROVE  Lengthens(s)
  <2>0. holder \in Server /\ ~Penalized(holder)
    BY <1>2 DEF IInv, TypeOK, HolderFit
  <2>1. CASE conns[holder].server_ok
    BY <1>2, <2>0, <2>1 DEF IInv, TypeOK, Judge
  <2>2. CASE ~conns[holder].server_ok
    BY <1>1, <1>2, <2>0, <2>2 DEF Judge
  <2> QED
    BY <2>1, <2>2
<1>3. ASSUME IInv, count' = count, NEW s \in Server PROVE Lengthens(s)
  BY <1>3 DEF IInv, TypeOK
<1>4. IInv /\ Next => \A s \in Server : Lengthens(s)
  <2> SUFFICES ASSUME IInv, Next, NEW s \in Server PROVE Lengthens(s)
    OBVIOUS
  <2>1. ASSUME NEW t \in Server, ConnectNew(t) PROVE Lengthens(s)
    BY <2>1, <1>1, <1>3 DEF ConnectNew
  <2>2. CASE Release \/ ReleaseFails
    BY <2>2, <1>2 DEF Release, ReleaseFails
  <2>3. CASE \E t \in Server : Reuse(t) \/ Refuse(t) \/ EvictFails(t)
    BY <2>3, <1>3 DEF Reuse, Refuse, EvictFails
  <2>4. CASE Expire \/ ExpireFails \/ SetOk \/ Break \/ Tick
    BY <2>4, <1>3 DEF Expire, ExpireFails, SetOk, Break, Tick
  <2> QED
    BY <2>1, <2>2, <2>3, <2>4 DEF Next
<1>5. IInv /\ [Next]_vars => [\A s \in Server : Lengthens(s)]_vars
  BY <1>4
<1> QED
  BY Invariance, <1>5, PTL DEF Spec, PenaltyRunsOut

-----------------------------------------------------------------------------
(***************************************************************************)
(* What is done over the connections.  The pool does not know of it: every *)
(* step of NntpSession is a step of the pool, or leaves the pool alone.    *)
(***************************************************************************)

LEMMA SessionStepIsPoolStep == [SessionNext]_allVars => [Next]_vars
<1> SUFFICES ASSUME SessionNext PROVE Next \/ UNCHANGED vars
  BY DEF allVars
<1>1. ASSUME NEW s \in Server, Connect(s) \/ TakePooled(s) PROVE Next
  BY <1>1 DEF Connect, TakePooled, Next
<1>2. CASE PoolStep
  BY <1>2 DEF PoolStep, Next
<1>3. CASE Open
  BY <1>3 DEF Open, Throw
<1>4. ASSUME NEW g \in Group, AskGroup(g) \/ Articles(g) PROVE Next \/ UNCHANGED vars
  BY <1>4 DEF AskGroup, Articles, Throw, Next
<1>5. CASE Lose
  BY <1>5 DEF Lose, Next
<1> QED
  BY <1>1, <1>2, <1>3, <1>4, <1>5 DEF SessionNext

\* The commands and replies of NntpSession are one of the uses SockPool allows
\* for: whatever is proved of the pool holds while articles are being asked for.
THEOREM SessionUsesPool == SessionSpec => Spec
<1>1. SessionInit => Init
  BY DEF SessionInit
<1>2. [SessionNext]_allVars => [Next]_vars
  BY SessionStepIsPoolStep
<1> QED
  BY <1>1, <1>2, PTL DEF SessionSpec, Spec

\* A session and what it remembers, of every pooled connection.
SessionInv == SessionTypeOK /\ CurgroupTrue

SessionRecord == [greeting : {"awaited", "taken", "refused"},
                  curgroup : Group \cup {NoGroup}, selected : Group \cup {NoGroup}]

LEMMA SessionInitInv == SessionInit => SessionInv
  <1> SUFFICES ASSUME SessionInit PROVE SessionInv
    OBVIOUS
  <1>1. TypeOK /\ Pooled = {}
    BY InitIInv DEF SessionInit, IInv, Init, Pooled
  <1> QED
    BY <1>1 DEF SessionInit, SessionInv, SessionTypeOK, CurgroupTrue

\* The pool's own steps keep what is remembered of the connections that stay,
\* and open none that was closed.
LEMMA PoolStepInv ==
  ASSUME TypeOK, TypeOK', SessionInv, PoolStep
  PROVE  SessionInv'
<1> DEFINE Fewer == /\ Pooled' \subseteq Pooled
                    /\ \A s \in Pooled' : conns'[s].open => conns[s].open
<1>1. Fewer
  <2>1. ASSUME NEW ss, conns' = Without(ss) PROVE Fewer
    <3>1. /\ DOMAIN Without(ss) = Pooled \ ss
          /\ \A s \in Pooled \ ss : Without(ss)[s] = conns[s]
      BY WithoutType
    <3> QED
      BY <2>1, <3>1 DEF Pooled
  <2>2. ASSUME NEW ss, NEW v \in Pooled \ ss, conns' = [Without(ss) EXCEPT ![v].open = FALSE]
        PROVE  Fewer
    <3> DEFINE left == Without(ss)
    <3>1. left \in [Pooled \ ss -> Conn(now)] /\ \A s \in Pooled \ ss : left[s] = conns[s]
      BY WithoutType
    <3> HIDE DEF left
    <3>2. conns' = [left EXCEPT ![v].open = FALSE]
      BY <2>2 DEF left
    <3> QED
      BY <3>1, <3>2 DEF Pooled, Conn
  <2>3. ASSUME NEW s \in Server, Refuse(s) PROVE Fewer
    BY <2>1, <2>3 DEF Refuse
  <2>4. ASSUME NEW s \in Server, EvictFails(s) PROVE Fewer
    BY <2>2, <2>4 DEF EvictFails
  <2>5. CASE Expire
    BY <2>1, <2>5 DEF Expire
  <2>6. CASE ExpireFails
    <3>1. PICK v \in Expired : \E gone \in SUBSET (Expired \ {v}) :
            conns' = [Without(gone) EXCEPT ![v].open = FALSE]
      BY <2>6 DEF ExpireFails
    <3>2. PICK gone \in SUBSET (Expired \ {v}) :
            conns' = [Without(gone) EXCEPT ![v].open = FALSE]
      BY <3>1
    <3>3. v \in Pooled \ gone
      BY DEF Expired
    <3> QED
      BY <3>2, <3>3, <2>2
  <2>7. CASE Release
    <3>1. CASE Keeps(holder)
      BY <2>7, <3>1 DEF Release, TypeOK, Pooled, Touched
    <3>2. CASE ~Keeps(holder)
      BY <2>1, <2>7, <3>2 DEF Release
    <3> QED
      BY <3>1, <3>2
  <2>8. CASE ReleaseFails
    BY <2>8 DEF ReleaseFails, TypeOK, Pooled
  <2>9. CASE Tick
    BY <2>9 DEF Tick, Pooled
  <2> QED
    BY <2>3, <2>4, <2>5, <2>6, <2>7, <2>8, <2>9 DEF PoolStep
<1>2. session' = [s \in Pooled' |-> session[s]] /\ over' \in BOOLEAN
  BY DEF PoolStep, Restrict, Pooled
<1> HIDE DEF Fewer
<1>3. SessionTypeOK'
  <2>1. Pooled' \subseteq Pooled
    BY <1>1 DEF Fewer
  <2> QED
    BY <1>2, <2>1 DEF SessionInv, SessionTypeOK
<1>4. CurgroupTrue'
  <2> SUFFICES ASSUME NEW s \in Pooled', conns'[s].open, session'[s].curgroup # NoGroup
               PROVE  session'[s].selected = session'[s].curgroup
    BY DEF CurgroupTrue
  <2>1. s \in Pooled /\ conns[s].open /\ session'[s] = session[s]
    BY <1>1, <1>2 DEF Fewer
  <2> QED
    BY <2>1 DEF SessionInv, CurgroupTrue
<1> QED
  BY <1>3, <1>4 DEF SessionInv

LEMMA SessionStepInv == IInv /\ IInv' /\ SessionInv /\ [SessionNext]_allVars => SessionInv'
<1> SUFFICES ASSUME IInv, IInv', SessionInv, [SessionNext]_allVars PROVE SessionInv'
  OBVIOUS
<1>0. TypeOK /\ TypeOK' /\ SessionTypeOK /\ CurgroupTrue
  BY DEF IInv, SessionInv
<1>1. ASSUME NEW s \in Server, Connect(s) PROVE SessionInv'
  <2>1. /\ DOMAIN conns' \subseteq Pooled \cup {s}
        /\ \A t \in DOMAIN conns' \ {s} : conns'[t] = conns[t]
    <3>1. PICK room \in Room(s) :
             conns' = [t \in DOMAIN room \cup {s} |->
                        IF t = s THEN NewConnection ELSE room[t]] \/ conns' = room
      BY <1>1 DEF Connect, ConnectNew
    <3>2. /\ DOMAIN room \subseteq Pooled \ {s}
          /\ \A t \in DOMAIN room : room[t] = conns[t]
      BY RoomType DEF IInv, PoolFinite
    <3> QED
      BY <3>1, <3>2
  <2>2. /\ session' = [t \in DOMAIN conns' |-> IF t = s THEN NewSession ELSE session[t]]
        /\ over' = FALSE
    BY <1>1 DEF Connect
  <2>3. SessionTypeOK'
    BY <1>0, <2>1, <2>2 DEF SessionTypeOK, NewSession, Pooled
  <2>4. CurgroupTrue'
    BY <1>0, <2>1, <2>2 DEF CurgroupTrue, NewSession, Pooled
  <2> QED
    BY <2>3, <2>4 DEF SessionInv
<1>2. ASSUME NEW s \in Server, TakePooled(s) PROVE SessionInv'
  <2>1. Pooled' = Pooled /\ \A t \in Pooled : conns'[t].open = conns[t].open
    BY <1>0, <1>2 DEF TakePooled, Reuse, TypeOK, Touched, Pooled
  <2>2. session' = session /\ over' = FALSE
    BY <1>2 DEF TakePooled
  <2> QED
    BY <1>0, <2>1, <2>2 DEF SessionInv, SessionTypeOK, CurgroupTrue
<1>3. CASE PoolStep
  BY <1>0, <1>3, PoolStepInv
<1>4. CASE Open
  <2>1. /\ UNCHANGED vars /\ over' \in BOOLEAN /\ holder \in Pooled
        /\ \E g \in {"taken", "refused"} : session' = [session EXCEPT ![holder].greeting = g]
    BY <1>0, <1>4 DEF Open, Throw, Speaking, SessionTypeOK
  <2>2. Pooled' = Pooled /\ conns' = conns
    BY <2>1 DEF vars, Pooled
  <2>3. SessionTypeOK'
    BY <1>0, <2>1, <2>2 DEF SessionTypeOK
  <2>4. CurgroupTrue'
    BY <1>0, <2>1, <2>2 DEF CurgroupTrue, SessionTypeOK
  <2> QED
    BY <2>3, <2>4 DEF SessionInv
<1>5. ASSUME NEW g \in Group, AskGroup(g) PROVE SessionInv'
  <2>1. holder \in Pooled /\ over' \in BOOLEAN
    BY <1>0, <1>5 DEF AskGroup, Ready, Speaking, Throw, SessionTypeOK
  <2>2. Pooled' = Pooled /\ \A t \in Pooled : conns'[t].open = conns[t].open
    BY <1>0, <1>5 DEF AskGroup, SetOk, Throw, vars, TypeOK, Pooled
  <2>3. \E r \in SessionRecord :
          /\ r.curgroup # NoGroup => r.selected = r.curgroup
          /\ session' = [session EXCEPT ![holder] = r]
    <3> DEFINE old == session[holder]
    <3>1. session \in [Pooled -> SessionRecord] /\ old \in SessionRecord
      BY <1>0, <2>1 DEF SessionTypeOK, SessionRecord
    <3>2. CASE session' = [session EXCEPT ![holder] = [@ EXCEPT !.curgroup = g, !.selected = g]]
      <4>1. [old EXCEPT !.curgroup = g, !.selected = g] \in SessionRecord
        BY <3>1 DEF SessionRecord
      <4> QED
        BY <3>1, <3>2, <4>1 DEF SessionRecord
    <3>3. ASSUME NEW left \in {old.selected, NoGroup},
                 session' = [session EXCEPT ![holder] =
                               [@ EXCEPT !.curgroup = NoGroup, !.selected = left]]
          PROVE  \E r \in SessionRecord :
                   /\ r.curgroup # NoGroup => r.selected = r.curgroup
                   /\ session' = [session EXCEPT ![holder] = r]
      <4>1. [old EXCEPT !.curgroup = NoGroup, !.selected = left] \in SessionRecord
        BY <3>1 DEF SessionRecord
      <4> QED
        BY <3>1, <3>3, <4>1 DEF SessionRecord
    <3>4. CASE session' = [session EXCEPT ![holder].curgroup = NoGroup]
      <4>1. [old EXCEPT !.curgroup = NoGroup] \in SessionRecord
        BY <3>1 DEF SessionRecord
      <4> QED
        BY <3>1, <3>4, <4>1 DEF SessionRecord
    <3> QED
      BY <1>5, <3>2, <3>3, <3>4 DEF AskGroup, Meanwhile
  <2>4. SessionTypeOK'
    BY <1>0, <2>1, <2>2, <2>3 DEF SessionTypeOK, SessionRecord
  <2>5. CurgroupTrue'
    BY <1>0, <2>1, <2>2, <2>3 DEF CurgroupTrue, SessionTypeOK
  <2> QED
    BY <2>4, <2>5 DEF SessionInv
<1>6. CASE (\E g \in Group : Articles(g)) \/ Lose
  <2>1. session' = session /\ over' \in BOOLEAN
    BY <1>6 DEF Articles, Lose, Throw
  <2>2. Pooled' = Pooled /\ \A t \in Pooled : conns'[t].open => conns[t].open
    BY <1>0, <1>6 DEF Articles, Lose, Break, SetOk, Throw, vars, TypeOK, Pooled
  <2> QED
    BY <1>0, <2>1, <2>2 DEF SessionInv, SessionTypeOK, CurgroupTrue
<1>7. CASE UNCHANGED allVars
  BY <1>0, <1>7 DEF allVars, vars, sessionVars, SessionInv, SessionTypeOK, CurgroupTrue, Pooled
<1> QED
  BY <1>1, <1>2, <1>3, <1>4, <1>5, <1>6, <1>7 DEF SessionNext

\* Where curgroup says that no GROUP is needed the server has that group
\* selected: curgroup is cleared before GROUP is sent, so neither a reply that
\* never comes nor one that says no leaves it standing for the next user of the
\* connection.
THEOREM CurgroupIsSelected == SessionSpec => []CurgroupTrue
<1>1. SessionInv => CurgroupTrue
  BY DEF SessionInv
<1>2. IInv /\ IInv' /\ SessionInv /\ [SessionNext]_allVars => SessionInv'
  BY SessionStepInv
<1>3. SessionSpec => []IInv
  BY SessionUsesPool, Invariance, PTL
<1> QED
  BY <1>1, <1>2, <1>3, SessionInitInv, PTL DEF SessionSpec
=============================================================================
