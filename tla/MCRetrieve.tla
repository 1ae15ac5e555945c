----------------------------- MODULE MCRetrieve -----------------------------
(***************************************************************************)
(* Retrieve with posts like those of the tests: in parts, on two servers,  *)
(* posted again, damaged or incomplete; and parity sets of which some      *)
(* files are missing or damaged.                                           *)
(***************************************************************************)
EXTENDS Retrieve

CONSTANTS A, B

\* The post with all its parts, as it should be.
Posted(date, name, parts) ==
  [date |-> date, name |-> name, role |-> "data", req |-> parts, parts |-> 1 .. parts,
   sound |-> TRUE, shows |-> TRUE, packets |-> {}, good |-> 0]

ParPosted(date, name) == [Posted(date, name, 1) EXCEPT !.role = "par"]
VolPosted(date, name, packets) == [Posted(date, name, 1) EXCEPT !.role = "vol", !.packets = packets]

Damaged(p, good) == [p EXCEPT !.sound = FALSE, !.good = good]
Silent(p) == [p EXCEPT !.shows = FALSE]

\* How posts may be damaged: whether the decoder notices, the good blocks.
Damage == {<<TRUE, 0>>, <<TRUE, 1>>, <<FALSE, 0>>}

\* nget.1's defaults but --no-autopar; A has lost everything.
Default(posts) ==
  [posts |-> posts, data |-> {}, ver |-> 1, blocks |-> 1,
   at |-> [d \in Date |-> {A, B}], expired |-> [d \in Date |-> {A}],
   maxretry |-> 2, autopar |-> FALSE, optimistic |-> FALSE, incomplete |-> FALSE,
   noconnect |-> FALSE, nodecode |-> FALSE, keeptemp |-> FALSE,
   dupeid |-> TRUE, dupefile |-> TRUE, dupemark |-> FALSE, marks |-> FALSE, flaky |-> TRUE]

-----------------------------------------------------------------------------
(* Articles. *)

Reposted == {Posted(1, "data1", 2), Posted(2, "data1", 1), Posted(3, "data2", 1)}
Defective ==
  {[Posted(1, "data1", 2) EXCEPT !.parts = {2}], Damaged(Posted(2, "data1", 1), 0),
   Silent(Damaged(Posted(3, "data2", 1), 0)), Posted(4, "data2", 1)}

Options(j) ==
  {j, [j EXCEPT !.maxretry = 1], [j EXCEPT !.keeptemp = TRUE], [j EXCEPT !.dupeid = FALSE],
   [j EXCEPT !.dupefile = FALSE], [j EXCEPT !.dupemark = TRUE], [j EXCEPT !.marks = TRUE],
   [j EXCEPT !.incomplete = TRUE], [j EXCEPT !.incomplete = TRUE, !.nodecode = TRUE],
   [j EXCEPT !.noconnect = TRUE], [j EXCEPT !.noconnect = TRUE, !.incomplete = TRUE],
   [j EXCEPT !.dupeid = FALSE, !.dupefile = FALSE], [j EXCEPT !.keeptemp = TRUE, !.dupeid = FALSE],
   [j EXCEPT !.expired[1] = {A, B}]}

Articles == Options(Default(Reposted)) \cup Options(Default(Defective))

-----------------------------------------------------------------------------
(* Parity sets.  One server, so that the order of servers does not matter. *)

ParJob(posts) ==
  [Default(posts) EXCEPT
     !.data = {"data1", "data2"}, !.autopar = TRUE, !.maxretry = 1, !.flaky = FALSE,
     !.at = [d \in Date |-> {A}], !.expired = [d \in Date |-> {}]]

Par1Posts ==
  {ParPosted(1, "par"), Posted(2, "data1", 1), Posted(3, "data2", 1),
   VolPosted(4, "vol1", {1}), VolPosted(5, "vol1", {1}), VolPosted(6, "vol2", {2})}

\* Posts without some and with some damaged.
With(posts, absent, damaged, how) ==
  (posts \ (absent \cup damaged))
    \cup {IF how[1] THEN Damaged(p, how[2]) ELSE Silent(Damaged(p, how[2])) : p \in damaged \ absent}

Some(S) == {D \in SUBSET S : Cardinality(D) <= 3}

Par1Jobs ==
  {[ParJob(With(Par1Posts, absent, damaged, how)) EXCEPT !.optimistic = o] :
     absent \in SUBSET {p \in Par1Posts : p.date \in {1, 3}}, damaged \in Some(Par1Posts),
     how \in Damage, o \in BOOLEAN}

Par2Posts ==
  {ParPosted(1, "par"), Posted(2, "data1", 1), Posted(3, "data2", 1),
   VolPosted(4, "vol1", {1}), VolPosted(5, "vol2", {2, 3}), VolPosted(6, "vol3", {4, 5, 6}),
   VolPosted(7, "vol2", {2, 3})}

Par2Jobs ==
  {[ParJob(With(Par2Posts, absent, damaged, how)) EXCEPT !.ver = 2, !.blocks = 2, !.optimistic = o] :
     absent \in SUBSET {p \in Par2Posts : p.date \in {1, 3}}, damaged \in Some(Par2Posts),
     how \in Damage, o \in BOOLEAN}

Incomplete(p, good) == [p EXCEPT !.req = 2, !.parts = {1}, !.good = good]

\* Incomplete data is of use when there are not enough par2 volumes.
IncompleteJobs ==
  {[ParJob({ParPosted(1, "par"), Incomplete(Posted(2, "data1", 2), v - 1), Posted(3, "data2", 1),
            Incomplete(VolPosted(5, "vol2", 1 .. v), 0)} \cup more)
      EXCEPT !.ver = v, !.blocks = v, !.optimistic = o, !.incomplete = i] :
     more \in SUBSET {VolPosted(4, "vol1", {3}), Damaged(VolPosted(6, "vol3", {4}), 0)},
     v \in 1 .. 2, o \in BOOLEAN, i \in BOOLEAN}

\* Volumes that have some packets in common.
OverlapJobs ==
  {[ParJob({ParPosted(1, "par"), Damaged(Posted(2, "data1", 1), 0), VolPosted(4, "vol1", {1, 2, 3}),
            VolPosted(5, "vol2", {2, 3})})
      EXCEPT !.data = {"data1"}, !.ver = 2, !.blocks = 2, !.flaky = f] : f \in BOOLEAN}

\* With kills and failures.
FlakyJobs ==
  {[ParJob({ParPosted(1, "par"), Damaged(Posted(2, "data1", 1), 0), VolPosted(4, "vol1", {1}),
            VolPosted(5, "vol2", {2})})
      EXCEPT !.data = {"data1"}, !.ver = v, !.blocks = v, !.flaky = TRUE] : v \in 1 .. 2}

RetrieveJobs == Articles \cup {j \in FlakyJobs : j.ver = 1}
AutoparJobs == Par1Jobs \cup Par2Jobs \cup IncompleteJobs \cup OverlapJobs \cup FlakyJobs

-----------------------------------------------------------------------------
(* The knapsack, for all small inputs. *)

ASSUME FewestIsFewest ==
  \A n \in 1 .. 3 : \A values, sizes \in [1 .. n -> 1 .. 3], target \in 1 .. 7 :
    IsFewest(Fewest(values, sizes, target), values, sizes, target)
=============================================================================
