----------------------------- MODULE GroupList -----------------------------
(***************************************************************************)
(* The list of newsgroups, c_nntp_grouplist (grouplist.h, grouplist.cc):   *)
(* which servers have each group, how they describe it, and the date up to *)
(* which each server's groups are known.  A list is a value here; what is  *)
(* done with it when is CommandLine's matter.                              *)
(*                                                                         *)
(* A date stands for the groups the server had by then: NEWGROUPS is       *)
(* answered with those it has and did not have by then.                    *)
(***************************************************************************)
EXTENDS Functions

CONSTANTS
  Server,        \* servers (their serverids)
  Newsgroup,     \* names of groups
  NoDate         \* the empty date of a server whose list was never complete

ASSUME GroupListAssumption == \A G \in SUBSET Newsgroup : NoDate # G

\* c_group_availability: the servers that have the group, and pairs
\* <<server, description>>; servergroups is the map from each description to
\* the servers that give it.
Descriptions == {"about"}   \* which servers give one matters, not what it is
Entries == [serverids : SUBSET Server, servergroups : SUBSET (Server \X Descriptions)]
NoEntry == [serverids |-> {}, servergroups |-> {}]
Entry(l, g) == IF g \in DOMAIN l.groups THEN l.groups[g] ELSE NoEntry

\* A list has the date of each server it was asked for, and an entry for each
\* group; named says whether there is a file to save it in, saveit whether it
\* has to be saved.
Dates == (SUBSET Newsgroup) \cup {NoDate}
DateMaps == UNION {[S -> Dates] : S \in SUBSET Server}
GroupMaps == UNION {[G -> Entries] : G \in SUBSET Newsgroup}
GroupLists == [named : BOOLEAN, saveit : BOOLEAN, date : DateMaps, groups : GroupMaps]

\* c_nntp_grouplist().
NewList(named) ==
  [named |-> named, saveit |-> FALSE,
   date |-> [s \in {} |-> NoDate], groups |-> [g \in {} |-> {}]]

\* All the <<server, group>> a list or a file knows of.
Pairs(l) == {p \in Server \X DOMAIN l.groups : p[1] \in l.groups[p[2]].serverids}

DateOf(l, s) == IF s \in DOMAIN l.date THEN l.date[s] ELSE NoDate
WithDate(l, s, d) ==
  [l EXCEPT !.date = [t \in DOMAIN @ \cup {s} |-> IF t = s THEN d ELSE l.date[t]]]

\* The groups in G have new entries.
WithEntries(l, G, new) ==
  [g \in DOMAIN l.groups \cup G |-> IF g \in G THEN new[g] ELSE l.groups[g]]

\* addgroup(), for each group in G.
Listed(l, s, G) ==
  [l EXCEPT !.groups = WithEntries(l, G, [g \in G |-> [Entry(l, g) EXCEPT !.serverids = @ \cup {s}]]),
            !.saveit = @ \/ \E g \in G : s \notin Entry(l, g).serverids]

\* addgroupdesc(), for each group in G: a server has one description of a
\* group, and the last one counts.
Redescribed(e, s, desc) == {d \in e.servergroups : d[1] # s} \cup {<<s, desc>>}

Described(l, s, G, desc) ==
  [l EXCEPT !.groups = WithEntries(l, G,
              [g \in G |-> [Entry(l, g) EXCEPT !.servergroups = Redescribed(Entry(l, g), s, desc)]]),
            !.saveit = @ \/ \E g \in G : <<s, desc>> \notin Entry(l, g).servergroups]

\* What an entry is without servers ss; dead entries are dropped.
EntryWithout(e, ss) ==
  [serverids |-> e.serverids \ ss, servergroups |-> {d \in e.servergroups : d[1] \notin ss}]

GroupsWithout(gs, ss) ==
  LET left == [g \in DOMAIN gs |-> EntryWithout(gs[g], ss)]
  IN Restrict(left, {g \in DOMAIN gs : left[g] # NoEntry})

\* Wrong: the date outlives the groups.
FlushedKeepsDate(l, s) ==
  LET left == GroupsWithout(l.groups, {s})
  IN [l EXCEPT !.groups = left, !.saveit = @ \/ left # l.groups]

\* flushserver().
Flushed(l, s) ==
  LET left == GroupsWithout(l.groups, {s})
  IN [l EXCEPT !.groups = left, !.date = Restrict(@, DOMAIN @ \ {s}),
               !.saveit = @ \/ left # l.groups \/ s \in DOMAIN l.date]

\* Reading the file: servers that are not configured any more are left out,
\* which is nothing to save the list for.
Loaded(file, configured) ==
  [named |-> TRUE, saveit |-> FALSE,
   date |-> Restrict(file.date, DOMAIN file.date \cap configured),
   groups |-> GroupsWithout(file.groups, Server \ configured)]

\* save(), which the destructor calls: what is in the file afterwards.
Saved(l, file) ==
  IF l.named /\ l.saveit THEN [date |-> l.date, groups |-> l.groups] ELSE file

\* There is no file yet.
NoFile == [date |-> NewList(TRUE).date, groups |-> NewList(TRUE).groups]
=============================================================================
