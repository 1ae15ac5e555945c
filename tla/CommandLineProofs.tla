------------------------- MODULE CommandLineProofs -------------------------
(***************************************************************************)
(* Theorems about CommandLine, and about the lists of newsgroups it works  *)
(* on, for any command lines, servers, groups, directories and metagroups, *)
(* any number of ngets and any replies of the servers.                     *)
(***************************************************************************)
EXTENDS CommandLine, SequenceTheorems, TLAPS

-----------------------------------------------------------------------------
(* Lists of newsgroups. *)

Files == [date : DateMaps, groups : GroupMaps]

\* A list as it is written out.
ListOf(named, saveit, date, groups) ==
  [named |-> named, saveit |-> saveit, date |-> date, groups |-> groups]

LEMMA DateMapType ==
  ASSUME NEW d
  PROVE  d \in DateMaps <=> DOMAIN d \subseteq Server /\ d \in [DOMAIN d -> Dates]
  BY DEF DateMaps, Dates

LEMMA GroupMapType ==
  ASSUME NEW gs
  PROVE  gs \in GroupMaps <=> DOMAIN gs \subseteq Newsgroup /\ gs \in [DOMAIN gs -> Entries]
  BY DEF GroupMaps

\* What has been found out about the groups of two lists can be read off their
\* pairs.
LEMMA InPairs ==
  ASSUME NEW l, NEW s, NEW g
  PROVE  <<s, g>> \in Pairs(l) <=> s \in Server /\ g \in DOMAIN l.groups /\ s \in l.groups[g].serverids
  BY DEF Pairs

LEMMA PairsArePairs ==
  ASSUME NEW l, NEW p \in Pairs(l)
  PROVE  p[1] \in Server /\ p[2] \in DOMAIN l.groups /\ p = <<p[1], p[2]>>
  BY DEF Pairs

LEMMA EntryType ==
  ASSUME NEW l, l.groups \in GroupMaps, NEW g
  PROVE  Entry(l, g) \in Entries
  BY GroupMapType DEF Entry, NoEntry, Entries

\* A new list, and no file, know nothing.
LEMMA NewListType ==
  ASSUME NEW named \in BOOLEAN
  PROVE  /\ NewList(named) \in GroupLists /\ NewList(named).named = named
         /\ NewList(named).saveit = FALSE /\ DOMAIN NewList(named).date = {} /\ Pairs(NewList(named)) = {}
<1> DEFINE d == [s \in {} |-> NoDate]
           gs == [g \in {} |-> {}]
<1>1. DOMAIN d = {} /\ DOMAIN gs = {} /\ d \in [{} -> Dates] /\ gs \in [{} -> Entries]
  OBVIOUS
<1>2. d \in DateMaps /\ gs \in GroupMaps
  BY <1>1, DateMapType, GroupMapType
<1> HIDE DEF d, gs
<1>3. NewList(named) = ListOf(named, FALSE, d, gs)
  BY DEF NewList, ListOf, d, gs
<1> QED
  BY <1>1, <1>2, <1>3 DEF GroupLists, ListOf, Pairs

LEMMA NoFileType == NoFile \in Files /\ DOMAIN NoFile.date = {} /\ Pairs(NoFile) = {}
  BY NewListType DEF NoFile, Files, GroupLists, Pairs

\* The date of one server.
LEMMA WithDateIs ==
  ASSUME NEW l \in GroupLists, NEW s \in Server, NEW d \in Dates
  PROVE  /\ WithDate(l, s, d) \in GroupLists /\ Pairs(WithDate(l, s, d)) = Pairs(l)
         /\ WithDate(l, s, d).named = l.named /\ WithDate(l, s, d).saveit = l.saveit
         /\ DOMAIN WithDate(l, s, d).date = DOMAIN l.date \cup {s}
         /\ WithDate(l, s, d).date[s] = d
         /\ \A t \in DOMAIN l.date \ {s} : WithDate(l, s, d).date[t] = l.date[t]
<1> DEFINE ds == [t \in DOMAIN l.date \cup {s} |-> IF t = s THEN d ELSE l.date[t]]
<1>1. l = ListOf(l.named, l.saveit, l.date, l.groups) /\ l.date \in DateMaps /\ l.groups \in GroupMaps
      /\ l.named \in BOOLEAN /\ l.saveit \in BOOLEAN
  BY DEF GroupLists, ListOf
<1>2. DOMAIN ds = DOMAIN l.date \cup {s} /\ ds[s] = d /\ \A t \in DOMAIN l.date \ {s} : ds[t] = l.date[t]
  OBVIOUS
<1>3. ds \in DateMaps
  <2>1. DOMAIN l.date \subseteq Server /\ l.date \in [DOMAIN l.date -> Dates]
    BY <1>1, DateMapType
  <2>2. ds \in [DOMAIN l.date \cup {s} -> Dates]
    BY <2>1
  <2> HIDE DEF ds
  <2> QED
    BY <1>2, <2>1, <2>2, DateMapType
<1>4. WithDate(l, s, d) = [l EXCEPT !.date = ds]
  BY DEF WithDate
<1> HIDE DEF ds
<1>5. WithDate(l, s, d) = ListOf(l.named, l.saveit, ds, l.groups)
  BY <1>1, <1>4 DEF ListOf
<1> QED
  BY <1>1, <1>2, <1>3, <1>5 DEF ListOf, GroupLists, Pairs

\* The groups a server tells of.
Told(s, G) == {s} \X G

\* addgroup(): what a server lists is known, and what is new is to be saved.
THEOREM ListedAdds ==
  ASSUME NEW l \in GroupLists, NEW s \in Server, NEW G \in SUBSET Newsgroup
  PROVE  /\ Listed(l, s, G) \in GroupLists
         /\ Pairs(Listed(l, s, G)) = Pairs(l) \cup Told(s, G)
         /\ Listed(l, s, G).named = l.named /\ Listed(l, s, G).date = l.date
         /\ Listed(l, s, G).saveit = FALSE =>
              l.saveit = FALSE /\ Pairs(Listed(l, s, G)) = Pairs(l)
<1> DEFINE gs == [g \in DOMAIN l.groups \cup G |->
                    IF g \in G THEN [Entry(l, g) EXCEPT !.serverids = @ \cup {s}] ELSE l.groups[g]]
           saveit == l.saveit \/ \E g \in G : s \notin Entry(l, g).serverids
<1>1. l = ListOf(l.named, l.saveit, l.date, l.groups) /\ l.date \in DateMaps /\ l.groups \in GroupMaps
      /\ l.named \in BOOLEAN /\ l.saveit \in BOOLEAN
  BY DEF GroupLists, ListOf
<1>2. DOMAIN l.groups \subseteq Newsgroup /\ l.groups \in [DOMAIN l.groups -> Entries]
  BY <1>1, GroupMapType
<1>3. ASSUME NEW e \in Entries
      PROVE  /\ [e EXCEPT !.serverids = @ \cup {s}] \in Entries
             /\ [e EXCEPT !.serverids = @ \cup {s}].serverids = e.serverids \cup {s}
  BY DEF Entries
<1>4. \A g : Entry(l, g) \in Entries
  BY <1>1, EntryType
<1>5. /\ DOMAIN gs = DOMAIN l.groups \cup G
      /\ \A g \in G : gs[g].serverids = Entry(l, g).serverids \cup {s}
      /\ \A g \in DOMAIN l.groups \ G : gs[g] = l.groups[g]
  BY <1>3, <1>4
<1>6. gs \in GroupMaps
  <2>1. gs \in [DOMAIN l.groups \cup G -> Entries]
    BY <1>2, <1>3, <1>4
  <2> HIDE DEF gs
  <2> QED
    BY <1>2, <1>5, <2>1, GroupMapType
<1>7. Listed(l, s, G) = [l EXCEPT !.groups = gs, !.saveit = saveit]
  BY DEF Listed, WithEntries
<1> HIDE DEF gs
<1>8. saveit \in BOOLEAN
  OBVIOUS
<1> HIDE DEF saveit
<1>9. Listed(l, s, G) = ListOf(l.named, saveit, l.date, gs)
  BY <1>1, <1>7 DEF ListOf
<1>10. /\ Listed(l, s, G).named = l.named /\ Listed(l, s, G).date = l.date
       /\ Listed(l, s, G).saveit = saveit /\ Listed(l, s, G).groups = gs
  BY <1>9 DEF ListOf
<1>11. Pairs(Listed(l, s, G)) = Pairs(l) \cup Told(s, G)
  <2>1. ASSUME NEW t \in Server, NEW g
        PROVE  <<t, g>> \in Pairs(Listed(l, s, G)) <=> <<t, g>> \in Pairs(l) \/ (t = s /\ g \in G)
    <3>1. CASE g \in G
      BY <1>5, <1>10, <3>1, InPairs DEF Entry, NoEntry
    <3>2. CASE g \notin G
      BY <1>5, <1>10, <3>2, InPairs
    <3> QED
      BY <3>1, <3>2
  <2>2. ASSUME NEW p \in Pairs(Listed(l, s, G)) PROVE p \in Pairs(l) \cup Told(s, G)
    BY <2>1, <2>2, PairsArePairs DEF Told
  <2>3. ASSUME NEW p \in Pairs(l) PROVE p \in Pairs(Listed(l, s, G))
    BY <2>1, <2>3, PairsArePairs
  <2>4. ASSUME NEW p \in Told(s, G) PROVE p \in Pairs(Listed(l, s, G))
    BY <2>1, <2>4 DEF Told
  <2> QED
    BY <2>2, <2>3, <2>4
<1>12. ASSUME saveit = FALSE PROVE l.saveit = FALSE /\ Told(s, G) \subseteq Pairs(l)
  <2>1. l.saveit = FALSE /\ \A g \in G : s \in Entry(l, g).serverids
    BY <1>12, <1>1 DEF saveit
  <2>2. ASSUME NEW g \in G PROVE <<s, g>> \in Pairs(l)
    BY <2>1, InPairs DEF Entry, NoEntry
  <2> QED
    BY <2>1, <2>2 DEF Told
<1> QED
  BY <1>1, <1>6, <1>8, <1>9, <1>10, <1>11, <1>12 DEF ListOf, GroupLists

\* addgroupdesc(): a description does not make a server have a group.
LEMMA DescribedIs ==
  ASSUME NEW l \in GroupLists, NEW s \in Server, NEW G \in SUBSET Newsgroup, NEW desc \in Descriptions
  PROVE  /\ Described(l, s, G, desc) \in GroupLists
         /\ Pairs(Described(l, s, G, desc)) = Pairs(l)
         /\ Described(l, s, G, desc).named = l.named /\ Described(l, s, G, desc).date = l.date
         /\ Described(l, s, G, desc).saveit = FALSE => l.saveit = FALSE
<1> DEFINE gs == [g \in DOMAIN l.groups \cup G |->
                    IF g \in G THEN [Entry(l, g) EXCEPT !.servergroups = Redescribed(Entry(l, g), s, desc)]
                    ELSE l.groups[g]]
           saveit == l.saveit \/ \E g \in G : <<s, desc>> \notin Entry(l, g).servergroups
<1>1. l = ListOf(l.named, l.saveit, l.date, l.groups) /\ l.date \in DateMaps /\ l.groups \in GroupMaps
      /\ l.named \in BOOLEAN /\ l.saveit \in BOOLEAN
  BY DEF GroupLists, ListOf
<1>2. DOMAIN l.groups \subseteq Newsgroup /\ l.groups \in [DOMAIN l.groups -> Entries]
  BY <1>1, GroupMapType
<1>3. ASSUME NEW e \in Entries
      PROVE  /\ [e EXCEPT !.servergroups = Redescribed(e, s, desc)] \in Entries
             /\ [e EXCEPT !.servergroups = Redescribed(e, s, desc)].serverids = e.serverids
  <2>1. Redescribed(e, s, desc) \in SUBSET (Server \X Descriptions)
    BY DEF Redescribed, Entries
  <2> QED
    BY <2>1 DEF Entries
<1>4. \A g : Entry(l, g) \in Entries
  BY <1>1, EntryType
<1>5. /\ DOMAIN gs = DOMAIN l.groups \cup G
      /\ \A g \in G : gs[g].serverids = Entry(l, g).serverids
      /\ \A g \in DOMAIN l.groups \ G : gs[g] = l.groups[g]
  BY <1>3, <1>4
<1>6. gs \in GroupMaps
  <2>1. gs \in [DOMAIN l.groups \cup G -> Entries]
    BY <1>2, <1>3, <1>4
  <2> HIDE DEF gs
  <2> QED
    BY <1>2, <1>5, <2>1, GroupMapType
<1>7. Described(l, s, G, desc) = [l EXCEPT !.groups = gs, !.saveit = saveit]
  BY DEF Described, WithEntries
<1> HIDE DEF gs
<1>8. saveit \in BOOLEAN /\ (saveit = FALSE => l.saveit = FALSE)
  BY <1>1
<1> HIDE DEF saveit
<1>9. Described(l, s, G, desc) = ListOf(l.named, saveit, l.date, gs)
  BY <1>1, <1>7 DEF ListOf
<1>10. /\ Described(l, s, G, desc).named = l.named /\ Described(l, s, G, desc).date = l.date
       /\ Described(l, s, G, desc).saveit = saveit /\ Described(l, s, G, desc).groups = gs
  BY <1>9 DEF ListOf
<1>11. ASSUME NEW t, NEW g
       PROVE  <<t, g>> \in Pairs(Described(l, s, G, desc)) <=> <<t, g>> \in Pairs(l)
  <2>1. CASE g \in G
    BY <1>5, <1>10, <2>1, InPairs DEF Entry, NoEntry
  <2>2. CASE g \notin G
    BY <1>5, <1>10, <2>2, InPairs
  <2> QED
    BY <2>1, <2>2
<1>12. Pairs(Described(l, s, G, desc)) = Pairs(l)
  <2>1. ASSUME NEW p \in Pairs(Described(l, s, G, desc)) PROVE p \in Pairs(l)
    BY <1>11, <2>1, PairsArePairs
  <2>2. ASSUME NEW p \in Pairs(l) PROVE p \in Pairs(Described(l, s, G, desc))
    BY <1>11, <2>2, PairsArePairs
  <2> QED
    BY <2>1, <2>2
<1> QED
  BY <1>1, <1>6, <1>8, <1>9, <1>10, <1>12 DEF ListOf, GroupLists

\* Groups without some servers: nothing of theirs is left, and all of the others'.
LEMMA GroupsWithoutIs ==
  ASSUME NEW gs \in GroupMaps, NEW ss
  PROVE  /\ GroupsWithout(gs, ss) \in GroupMaps
         /\ \A s, g : /\ g \in DOMAIN GroupsWithout(gs, ss)
                      /\ s \in GroupsWithout(gs, ss)[g].serverids
                      <=> g \in DOMAIN gs /\ s \in gs[g].serverids /\ s \notin ss
<1> DEFINE left == [g \in DOMAIN gs |-> EntryWithout(gs[g], ss)]
           stay == {g \in DOMAIN gs : left[g] # NoEntry}
           w == [g \in stay |-> left[g]]
<1>1. GroupsWithout(gs, ss) = w
  BY DEF GroupsWithout, Restrict
<1>2. DOMAIN gs \subseteq Newsgroup /\ gs \in [DOMAIN gs -> Entries]
  BY GroupMapType
<1>3. ASSUME NEW g \in DOMAIN gs
      PROVE  left[g] \in Entries /\ left[g].serverids = gs[g].serverids \ ss
  BY <1>2 DEF EntryWithout, Entries
<1> HIDE DEF left
<1>4. w \in GroupMaps
  <2>1. w \in [stay -> Entries] /\ DOMAIN w = stay /\ stay \subseteq Newsgroup
    BY <1>2, <1>3
  <2> HIDE DEF w
  <2> QED
    BY <2>1, GroupMapType
<1>5. ASSUME NEW s, NEW g
      PROVE  g \in DOMAIN w /\ s \in w[g].serverids
             <=> g \in DOMAIN gs /\ s \in gs[g].serverids /\ s \notin ss
  <2>1. ASSUME g \in DOMAIN gs, s \in left[g].serverids PROVE left[g] # NoEntry
    BY <2>1 DEF NoEntry
  <2> QED
    BY <1>3, <2>1
<1> QED
  BY <1>1, <1>4, <1>5

\* flushserver(): what is left is what other servers have, the date goes with
\* the groups, and a list that does not have to be saved had nothing to flush.
THEOREM FlushedForgets ==
  ASSUME NEW l \in GroupLists, NEW s \in Server
  PROVE  /\ Flushed(l, s) \in GroupLists
         /\ Pairs(Flushed(l, s)) = {p \in Pairs(l) : p[1] # s}
         /\ Flushed(l, s).named = l.named
         /\ DOMAIN Flushed(l, s).date = DOMAIN l.date \ {s}
         /\ \A t \in DOMAIN l.date \ {s} : Flushed(l, s).date[t] = l.date[t]
         /\ Flushed(l, s).saveit = FALSE =>
              l.saveit = FALSE /\ Pairs(Flushed(l, s)) = Pairs(l)
<1> DEFINE left == GroupsWithout(l.groups, {s})
           ds == [t \in DOMAIN l.date \ {s} |-> l.date[t]]
           saveit == l.saveit \/ left # l.groups \/ s \in DOMAIN l.date
<1>1. l = ListOf(l.named, l.saveit, l.date, l.groups) /\ l.date \in DateMaps /\ l.groups \in GroupMaps
      /\ l.named \in BOOLEAN /\ l.saveit \in BOOLEAN
  BY DEF GroupLists, ListOf
<1>2. left \in GroupMaps
      /\ \A t, g : g \in DOMAIN left /\ t \in left[g].serverids
                   <=> g \in DOMAIN l.groups /\ t \in l.groups[g].serverids /\ t # s
  BY <1>1, GroupsWithoutIs
<1>3. ds \in DateMaps
  <2>1. DOMAIN l.date \subseteq Server /\ l.date \in [DOMAIN l.date -> Dates]
    BY <1>1, DateMapType
  <2>2. ds \in [DOMAIN l.date \ {s} -> Dates] /\ DOMAIN ds = DOMAIN l.date \ {s}
    BY <2>1
  <2> HIDE DEF ds
  <2> QED
    BY <2>1, <2>2, DateMapType
<1>4. Flushed(l, s) = [l EXCEPT !.groups = left, !.date = ds, !.saveit = saveit]
  BY DEF Flushed, Restrict
<1>5. DOMAIN ds = DOMAIN l.date \ {s} /\ \A t \in DOMAIN l.date \ {s} : ds[t] = l.date[t]
  OBVIOUS
<1> HIDE DEF left, ds
<1>6. saveit \in BOOLEAN /\ (saveit = FALSE => l.saveit = FALSE /\ left = l.groups)
  BY <1>1
<1> HIDE DEF saveit
<1>7. Flushed(l, s) = ListOf(l.named, saveit, ds, left)
  BY <1>1, <1>4 DEF ListOf
<1>8. /\ Flushed(l, s).named = l.named /\ Flushed(l, s).date = ds
      /\ Flushed(l, s).saveit = saveit /\ Flushed(l, s).groups = left
  BY <1>7 DEF ListOf
<1>9. ASSUME NEW t, NEW g
      PROVE  <<t, g>> \in Pairs(Flushed(l, s)) <=> <<t, g>> \in Pairs(l) /\ t # s
  BY <1>2, <1>8, InPairs
<1>10. Pairs(Flushed(l, s)) = {p \in Pairs(l) : p[1] # s}
  <2>1. ASSUME NEW p \in Pairs(Flushed(l, s)) PROVE p \in Pairs(l) /\ p[1] # s
    BY <1>9, <2>1, PairsArePairs
  <2>2. ASSUME NEW p \in Pairs(l), p[1] # s PROVE p \in Pairs(Flushed(l, s))
    BY <1>9, <2>2, PairsArePairs
  <2> QED
    BY <2>1, <2>2
<1>11. left = l.groups => Pairs(Flushed(l, s)) = Pairs(l)
  BY <1>8 DEF Pairs
<1> QED
  BY <1>1, <1>2, <1>3, <1>5, <1>6, <1>7, <1>8, <1>10, <1>11 DEF ListOf, GroupLists

\* Reading the file: it is known what it says about the servers that are
\* configured.
LEMMA LoadedIs ==
  ASSUME NEW file \in Files, NEW servers \in SUBSET Server
  PROVE  /\ Loaded(file, servers) \in GroupLists
         /\ Pairs(Loaded(file, servers)) = {p \in Pairs(file) : p[1] \in servers}
         /\ Loaded(file, servers).named = TRUE /\ Loaded(file, servers).saveit = FALSE
         /\ DOMAIN Loaded(file, servers).date = DOMAIN file.date \cap servers
         /\ \A s \in DOMAIN file.date \cap servers : Loaded(file, servers).date[s] = file.date[s]
<1> DEFINE left == GroupsWithout(file.groups, Server \ servers)
           ds == [t \in DOMAIN file.date \cap servers |-> file.date[t]]
<1>1. file.date \in DateMaps /\ file.groups \in GroupMaps
  BY DEF Files
<1>2. left \in GroupMaps
      /\ \A t, g : g \in DOMAIN left /\ t \in left[g].serverids
                   <=> g \in DOMAIN file.groups /\ t \in file.groups[g].serverids /\ t \notin Server \ servers
  BY <1>1, GroupsWithoutIs
<1>3. ds \in DateMaps
  <2>1. DOMAIN file.date \subseteq Server /\ file.date \in [DOMAIN file.date -> Dates]
    BY <1>1, DateMapType
  <2>2. ds \in [DOMAIN file.date \cap servers -> Dates] /\ DOMAIN ds = DOMAIN file.date \cap servers
    BY <2>1
  <2> HIDE DEF ds
  <2> QED
    BY <2>1, <2>2, DateMapType
<1>4. Loaded(file, servers) = ListOf(TRUE, FALSE, ds, left)
  BY DEF Loaded, Restrict, ListOf
<1>5. DOMAIN ds = DOMAIN file.date \cap servers /\ \A t \in DOMAIN file.date \cap servers : ds[t] = file.date[t]
  OBVIOUS
<1> HIDE DEF left, ds
<1>6. /\ Loaded(file, servers).named = TRUE /\ Loaded(file, servers).date = ds
      /\ Loaded(file, servers).saveit = FALSE /\ Loaded(file, servers).groups = left
  BY <1>4 DEF ListOf
<1>7. ASSUME NEW t, NEW g
      PROVE  <<t, g>> \in Pairs(Loaded(file, servers)) <=> <<t, g>> \in Pairs(file) /\ t \in servers
  BY <1>2, <1>6, InPairs
<1>8. Pairs(Loaded(file, servers)) = {p \in Pairs(file) : p[1] \in servers}
  <2>1. ASSUME NEW p \in Pairs(Loaded(file, servers)) PROVE p \in Pairs(file) /\ p[1] \in servers
    BY <1>7, <2>1, PairsArePairs
  <2>2. ASSUME NEW p \in Pairs(file), p[1] \in servers PROVE p \in Pairs(Loaded(file, servers))
    BY <1>7, <2>2, PairsArePairs
  <2> QED
    BY <2>1, <2>2
<1> QED
  BY <1>2, <1>3, <1>4, <1>5, <1>6, <1>8 DEF ListOf, GroupLists

LEMMA SavedIs ==
  ASSUME NEW l \in GroupLists, NEW file \in Files
  PROVE  /\ Saved(l, file) \in Files
         /\ l.named /\ l.saveit => Saved(l, file).date = l.date /\ Pairs(Saved(l, file)) = Pairs(l)
         /\ ~(l.named /\ l.saveit) => Saved(l, file) = file
  BY DEF GroupLists, Files, Saved, Pairs

-----------------------------------------------------------------------------
(* The options of a command line or list file. *)

Modes == {"retrieve", "xretrieve", "list", "xlist"}
Wants == [id : Nat, groups : SUBSET Group, path : Dir, temp : Dir]

Frames ==
  [mode : Modes, groups : Seq(Group), host : Server \cup {NoServer},
   badskip : SUBSET {"PATH", "TEMPPATH", "HOST"}, path : Dir, temppath : Dir, testmode : BOOLEAN,
   getinfos : SUBSET Wants, patinfos : BOOLEAN, grouplistgetinfos : BOOLEAN,
   said : [path : Dir, temp : Dir]]

\* A frame as it is written out.
FrameOf(mode, groups, host, badskip, path, temppath, testmode, getinfos, patinfos,
        grouplistgetinfos, said) ==
  [mode |-> mode, groups |-> groups, host |-> host, badskip |-> badskip,
   path |-> path, temppath |-> temppath, testmode |-> testmode, getinfos |-> getinfos,
   patinfos |-> patinfos, grouplistgetinfos |-> grouplistgetinfos, said |-> said]

LEMMA FrameIs ==
  ASSUME NEW f \in Frames
  PROVE  f = FrameOf(f.mode, f.groups, f.host, f.badskip, f.path, f.temppath, f.testmode, f.getinfos,
                     f.patinfos, f.grouplistgetinfos, f.said)
  BY DEF Frames, FrameOf

LEMMA FirstFrameType == FirstFrame \in Frames
  BY CommandLineAssumption, EmptySeq DEF FirstFrame, Frames, Modes, CommandLineAssumption

-----------------------------------------------------------------------------
(* The stack of frames. *)

LEMMA OnTopIs ==
  ASSUME stack \in Seq(Frames), Len(stack) \in 1 .. 2, NEW f \in Frames, OnTop(f)
  PROVE  /\ stack' \in Seq(Frames) /\ Len(stack') = Len(stack)
         /\ Top' = f /\ (Len(stack) = 2 => stack'[1] = stack[1])
<1>1. stack' = [stack EXCEPT ![Len(stack)] = f] /\ Len(stack) \in 1 .. Len(stack)
  BY DEF OnTop
<1> DEFINE new == [stack EXCEPT ![Len(stack)] = f]
<1>2. /\ new \in Seq(Frames) /\ Len(new) = Len(stack)
      /\ \A i \in 1 .. Len(stack) : new[i] = IF i = Len(stack) THEN f ELSE stack[i]
  BY <1>1, ExceptSeq
<1> HIDE DEF new
<1>3. stack' = new
  BY <1>1 DEF new
<1> QED
  BY <1>2, <1>3 DEF Top

LEMMA AppendIs ==
  ASSUME stack \in Seq(Frames), Len(stack) = 1, NEW f \in Frames, stack' = Append(stack, f)
  PROVE  stack' \in Seq(Frames) /\ Len(stack') = 2 /\ Top' = f /\ stack'[1] = stack[1]
<1>1. /\ Append(stack, f) \in Seq(Frames) /\ Len(Append(stack, f)) = Len(stack) + 1
      /\ \A i \in 1 .. Len(stack) : Append(stack, f)[i] = stack[i]
      /\ Append(stack, f)[Len(stack) + 1] = f
  BY AppendProperties, Zenon
<1>2. Len(stack') = 2 /\ 1 \in 1 .. Len(stack)
  BY <1>1
<1> QED
  BY <1>1, <1>2 DEF Top

LEMMA FrontIs ==
  ASSUME stack \in Seq(Frames), Len(stack) = 2, stack' = Front(stack)
  PROVE  stack' \in Seq(Frames) /\ Len(stack') = 1 /\ Top' = stack[1] /\ stack'[1] = stack[1]
<1>1. Front(stack) = [i \in 1 .. Len(stack) - 1 |-> stack[i]]
  BY DEF Front
<1>2. 1 .. Len(stack) - 1 = {1} /\ stack[1] \in Frames
  BY ElementOfSeq
<1>3. Front(stack) = <<stack[1]>>
  BY <1>1, <1>2
<1> QED
  BY <1>2, <1>3 DEF Top

-----------------------------------------------------------------------------
(* The steps, in four groups: what happens to nget and the servers; options  *)
(* that are carried out as they are read; those before which what is         *)
(* pending is done; and the update of the list of groups.                    *)

Outer == Start \/ Exit \/ Signal \/ Kill \/ \E s \in Server, g \in Newsgroup : Create(s, g)

ReadsOption ==
  \/ Testmode \/ Help \/ Invalid
  \/ \E c \in {"r", "R"}, re \in {"good", "bad", "odd"} : NoteSearch(c, re) \/ NoteRetrieval(c, re)
  \/ \E d \in Dir : Path(d) \/ TempPath(d)
  \/ \E s \in Server \cup {NoServer} : FlushRefused(s) \/ FlushGroupList(s) \/ FlushHeaders(s)

PerformsOption ==
  \/ \E o \in style.options \cup {<<"end", NoArg>>} : Defer(o)
  \/ Search \/ NothingPending \/ Retrieve
  \/ GroupListMode \/ XGroupListMode \/ UpdateGroups \/ SelectGroups \/ XGroups \/ Host \/ ListFile \/ End

AsksServers ==
  \/ \E s \in Server : AskDate(s) \/ ListGroups(s) \/ Describe(s) \/ \E fatal \in BOOLEAN : Fail(s, fatal)
  \/ NextRound \/ ListEnd

LEMMA StepsAre == Next => Outer \/ ReadsOption \/ PerformsOption \/ AsksServers
  BY DEF Next, Outer, ReadsOption, PerformsOption, AsksServers

-----------------------------------------------------------------------------
(* Types. *)

Phases == {"args", "search", "retrieve", "perform", "listing", "ending", "exited"}
ErrorNames == {"path", "user", "retrieve", "group", "grouplist", "fatal"}
Names == {"g", "G", "x"}   \* the options that are followed by names of groups

RestTyped == phase \in Phases /\ nread \in Nat /\ errors \subseteq ErrorNames

WorldTyped ==
  /\ style \in Styles /\ configured \subseteq Server
  /\ carried \in [Server -> SUBSET Newsgroup]

CurTyped ==
  /\ cur[1] \in Names => GetGroups(cur[2]) \in Seq(Group)
  /\ phase \in {"search", "retrieve", "perform", "listing"} /\ cur[1] = "@" => Len(stack) = 1

StackTyped == stack \in Seq(Frames) /\ Len(stack) \in 1 .. 2

NntpTyped ==
  /\ force_host \in Server \cup {NoServer} /\ group \in Group \cup {NoGroup}
  /\ gcache = Unloaded \/ gcache \subseteq Group
  /\ midinfo = Unloaded \/ midinfo \subseteq Group

Typed == RestTyped /\ WorldTyped /\ CurTyped /\ StackTyped /\ NntpTyped

LEMMA StyleType ==
  ASSUME NEW st \in Styles
  PROVE  /\ st.configs \subseteq SUBSET Server
         /\ st.carries \in [Server -> SUBSET Newsgroup] /\ st.creates \subseteq Server \X Newsgroup
         /\ \A o \in st.options : o[1] \in Names => GetGroups(o[2]) \in Seq(Group)
  BY CommandLineAssumption, NamesAssumption DEF CommandLineAssumption, NamesAssumption, Style, Names

LEMMA TopType ==
  ASSUME StackTyped
  PROVE  Top \in Frames /\ stack[1] \in Frames
  BY ElementOfSeq DEF StackTyped, Top

\* The groups that are selected, as a set.
LEMMA GroupsType ==
  ASSUME NEW gs \in Seq(Group)
  PROVE  /\ ToSet(gs) \subseteq Group
         /\ gs # <<>> => Last(gs) \in Group
         /\ Len(gs) = 1 => gs[1] \in Group /\ ToSet(gs) = {gs[1]}
<1>1. DOMAIN gs = 1 .. Len(gs) /\ Len(gs) \in Nat /\ (gs # <<>> => Len(gs) # 0)
  BY LenProperties, EmptySeq
<1>2. \A i \in 1 .. Len(gs) : gs[i] \in Group
  BY ElementOfSeq
<1> QED
  BY <1>1, <1>2 DEF ToSet, Last

LEMMA WantedType ==
  ASSUME NEW n \in Nat, NEW gs \in Seq(Group), NEW path \in Dir, NEW temp \in Dir
  PROVE  Wanted(n, gs, path, temp) \in Wants /\ Wanted(n, gs, path, temp).id = n
  BY GroupsType DEF Wanted, Wants

\* What a retrieval uses are groups.
LEMMA UsesType ==
  ASSUME Typed, NEW x \in BOOLEAN
  PROVE  /\ Uses(x).store = Unloaded \/ Uses(x).store \subseteq Group
         /\ Uses(x).mid = Unloaded \/ Uses(x).mid \subseteq Group
<1>1. ToSet(Top.groups) \subseteq Group
  BY TopType, GroupsType DEF Typed, Frames
<1> QED
  BY <1>1 DEF Uses, MidinfoFor, Typed, NntpTyped

LEMMA InitTyped == Init => Typed
<1> SUFFICES ASSUME Init PROVE Typed
  OBVIOUS
<1> USE DEF Init
<1>1. RestTyped /\ NntpTyped
  BY CommandLineAssumption DEF RestTyped, Phases, ErrorNames, NntpTyped, CommandLineAssumption
<1>2. WorldTyped
  BY StyleType DEF WorldTyped
<1>3. StackTyped /\ CurTyped
  BY FirstFrameType, EmptySeq DEF StackTyped, CurTyped, Names
<1> QED
  BY <1>1, <1>2, <1>3 DEF Typed

\* The types after a step that has changed at most the top of the stack.
LEMMA TopStepTyped ==
  ASSUME Typed, NEW f \in Frames, OnTop(f), RestTyped', UNCHANGED <<world, cur>>, NntpTyped',
         phase' \in {"search", "retrieve", "perform", "listing"} => phase \in {"search", "retrieve", "perform", "listing"}
  PROVE  Typed'
<1>1. StackTyped' /\ Len(stack') = Len(stack)
  BY OnTopIs DEF Typed, StackTyped
<1>2. WorldTyped' /\ CurTyped'
  BY <1>1 DEF Typed, WorldTyped, CurTyped, world
<1> QED
  BY <1>1, <1>2 DEF Typed

\* And after one that has not changed it.
LEMMA SameStackTyped ==
  ASSUME Typed, RestTyped', WorldTyped', NntpTyped', UNCHANGED <<stack, cur>>,
         phase' \in {"search", "retrieve", "perform", "listing"} => phase \in {"search", "retrieve", "perform", "listing"}
  PROVE  Typed'
  BY DEF Typed, StackTyped, CurTyped

\* What the configuration makes of an nget that is started.
LEMMA StartIs ==
  ASSUME Typed, Start
  PROVE  /\ phase' \in {"args", "ending"} /\ errors' \subseteq {"user", "fatal"}
         /\ phase' = "args" => why' = "none"
         /\ phase' = "ending" => why' = "error" /\ errors' # {}
<1>1. PICK config \in style.ngetrc :
        CASE config = "good" -> phase' = "args" /\ errors' = {} /\ why' = "none"
          [] config = "mistakes" /\ ~style.fatal -> phase' = "args" /\ errors' = {"user"} /\ why' = "none"
          [] config = "mistakes" /\ style.fatal -> phase' = "ending" /\ errors' = {"user"} /\ why' = "error"
          [] config = "unusable" -> phase' = "ending" /\ errors' = {"fatal"} /\ why' = "error"
  BY DEF Start
<1>2. config \in {"good", "mistakes", "unusable"} /\ style.fatal \in BOOLEAN
  BY CommandLineAssumption DEF Typed, WorldTyped, CommandLineAssumption, Style
<1> QED
  BY <1>1, <1>2

\* The outer actions, and what happens to nget.
LEMMA MainStepTyped ==
  ASSUME Typed, Outer
  PROVE  Typed'
<1> USE DEF RestTyped, WorldTyped, NntpTyped, Phases, ErrorNames, world, nntp
<1>1. CASE Start
  <2>1. RestTyped'
    <3>1. phase' \in {"args", "ending"} /\ errors' \subseteq {"user", "fatal"}
      BY <1>1, StartIs
    <3>2. nread' = 0
      BY <1>1 DEF Start
    <3> QED
      BY <3>1, <3>2
  <2>2. WorldTyped' /\ NntpTyped'
    BY <1>1, StyleType DEF Typed, Start
  <2>3. StackTyped'
    <3>1. stack' = <<FirstFrame>>
      BY <1>1 DEF Start
    <3> QED
      BY <3>1, FirstFrameType DEF StackTyped
  <2>4. CurTyped'
    <3>1. cur'[1] = "end"
      BY <1>1 DEF Start
    <3> QED
      BY <3>1 DEF CurTyped, Names
  <2> QED
    BY <2>1, <2>2, <2>3, <2>4 DEF Typed
<1>2. CASE Exit
  BY <1>2, SameStackTyped DEF Typed, Exit
<1>3. CASE Signal
  BY <1>3, SameStackTyped DEF Typed, Signal
<1>4. CASE Kill
  BY <1>4, SameStackTyped DEF Typed, Kill
<1>5. CASE \E s \in Server, g \in Newsgroup : Create(s, g)
  <2> PICK s \in Server, g \in Newsgroup : Create(s, g)
    BY <1>5
  <2>1. WorldTyped'
    BY DEF Typed, Create
  <2> QED
    BY <2>1, SameStackTyped DEF Typed, Create
<1> QED
  BY <1>1, <1>2, <1>3, <1>4, <1>5 DEF Outer

\* do_args() returns.
LEMMA ReturnIs ==
  ASSUME Typed, NEW w, Return(w)
  PROVE  \/ /\ Len(stack) = 1 /\ phase' = "ending" /\ UNCHANGED <<stack, force_host>>
            /\ why' = IF why = "none" THEN w ELSE why
         \/ /\ Len(stack) = 2 /\ phase' = "args" /\ Len(stack') = 1 /\ stack' \in Seq(Frames)
            /\ Top' = stack[1] /\ stack'[1] = stack[1]
            /\ force_host' = IF stack[1].host # NoServer THEN stack[1].host ELSE force_host
            /\ why' = IF why = "none" /\ w = "help" THEN w ELSE why
<1>1. Len(stack) \in 1 .. 2 /\ stack \in Seq(Frames)
  BY DEF Typed, StackTyped
<1>2. CASE Len(stack) = 1
  BY <1>2 DEF Return
<1>3. CASE Len(stack) = 2
  <2>1. stack' = Front(stack) /\ phase' = "args" /\ Reopens
        /\ why' = IF why = "none" /\ w = "help" THEN w ELSE why
    BY <1>3 DEF Return
  <2> QED
    BY <1>1, <1>3, <2>1, FrontIs DEF Reopens
<1> QED
  BY <1>1, <1>2, <1>3

LEMMA ReturnTyped ==
  ASSUME Typed, NEW w, Return(w), nread' \in Nat, errors' \subseteq ErrorNames
  PROVE  Typed'
<1>1. UNCHANGED <<world, cur, group, gcache, midinfo>> /\ phase' \in {"args", "ending"}
  BY DEF Return
<1>2. StackTyped'
  BY ReturnIs DEF Typed, StackTyped
<1>3. force_host' \in Server \cup {NoServer}
  BY ReturnIs, TopType DEF Typed, NntpTyped, Frames
<1> QED
  BY <1>1, <1>2, <1>3 DEF Typed, RestTyped, WorldTyped, NntpTyped, CurTyped, Phases, world

\* A frame in which a path is good is one that stores where it was said.
StoresWhereSaid(f) ==
  /\ "PATH" \notin f.badskip => f.path = f.said.path
  /\ "TEMPPATH" \notin f.badskip => f.temppath = f.said.temp

\* -p and -P: the directory is the one to store in, or the path is bad.  Either
\* way what is retrieved from then on is stored where it was said.
LEMMA PathStep ==
  ASSUME Typed, NEW d \in Dir, Path(d) \/ TempPath(d)
  PROVE  /\ nread' = nread + 1 /\ UNCHANGED <<shared, history>>
         /\ \E f \in Frames :
              /\ OnTop(f) /\ f.host = Top.host /\ f.getinfos = Top.getinfos
              /\ StoresWhereSaid(Top) => StoresWhereSaid(f)
              /\ Complain("path", "args") \/ (Goto("args") /\ f.badskip \subseteq Top.badskip)
<1> Top \in Frames /\ Top.badskip \in SUBSET {"PATH", "TEMPPATH", "HOST"} /\ Top.path \in Dir
    /\ Top.temppath \in Dir /\ Top.said.path \in Dir
  BY TopType DEF Typed, Frames
<1>1. nread' = nread + 1 /\ UNCHANGED <<shared, history>>
  BY DEF Path, TempPath, Reads
<1> DEFINE both == [path |-> d, temp |-> d]
           temp == [path |-> Top.said.path, temp |-> d]
<1>2. both \in [path : Dir, temp : Dir] /\ both.path = d /\ both.temp = d
      /\ temp \in [path : Dir, temp : Dir] /\ temp.path = Top.said.path /\ temp.temp = d
  OBVIOUS
<1> HIDE DEF both, temp
<1> DEFINE enter == [Top EXCEPT !.path = d, !.temppath = d, !.badskip = @ \ {"TEMPPATH", "PATH"}, !.said = both]
           bad == [Top EXCEPT !.badskip = @ \cup {"TEMPPATH", "PATH"}, !.said = both]
           enterTemp == [Top EXCEPT !.temppath = d, !.badskip = @ \ {"TEMPPATH"}, !.said = temp]
           badTemp == [Top EXCEPT !.badskip = @ \cup {"TEMPPATH"}, !.said = temp]
<1>3. /\ enter \in Frames /\ enter.host = Top.host /\ enter.getinfos = Top.getinfos
      /\ enter.badskip \subseteq Top.badskip /\ StoresWhereSaid(enter)
  <2> DEFINE b == Top.badskip \ {"TEMPPATH", "PATH"}
  <2>1. b \in SUBSET {"PATH", "TEMPPATH", "HOST"} /\ b \subseteq Top.badskip
    OBVIOUS
  <2>2. enter = [Top EXCEPT !.path = d, !.temppath = d, !.badskip = b, !.said = both]
    OBVIOUS
  <2> HIDE DEF b
  <2>3. enter \in Frames /\ enter.host = Top.host /\ enter.getinfos = Top.getinfos /\ enter.badskip = b
        /\ enter.said = both /\ enter.path = d /\ enter.temppath = d
    BY <1>2, <2>1, <2>2 DEF Frames
  <2> QED
    BY <1>2, <2>1, <2>3 DEF StoresWhereSaid
<1>4. bad \in Frames /\ bad.host = Top.host /\ bad.getinfos = Top.getinfos /\ StoresWhereSaid(bad)
  <2> DEFINE b == Top.badskip \cup {"TEMPPATH", "PATH"}
  <2>1. b \in SUBSET {"PATH", "TEMPPATH", "HOST"} /\ "PATH" \in b /\ "TEMPPATH" \in b
    OBVIOUS
  <2>2. bad = [Top EXCEPT !.badskip = b, !.said = both]
    OBVIOUS
  <2> HIDE DEF b
  <2>3. bad \in Frames /\ bad.host = Top.host /\ bad.getinfos = Top.getinfos /\ bad.badskip = b
        /\ bad.said = both /\ bad.path = Top.path /\ bad.temppath = Top.temppath
    BY <1>2, <2>1, <2>2 DEF Frames
  <2> QED
    BY <1>2, <2>1, <2>3 DEF StoresWhereSaid
<1>5. /\ enterTemp \in Frames /\ enterTemp.host = Top.host /\ enterTemp.getinfos = Top.getinfos
      /\ enterTemp.badskip \subseteq Top.badskip /\ (StoresWhereSaid(Top) => StoresWhereSaid(enterTemp))
  <2> DEFINE b == Top.badskip \ {"TEMPPATH"}
  <2>1. b \in SUBSET {"PATH", "TEMPPATH", "HOST"} /\ b \subseteq Top.badskip
        /\ ("PATH" \in Top.badskip => "PATH" \in b)
    OBVIOUS
  <2>2. enterTemp = [Top EXCEPT !.temppath = d, !.badskip = b, !.said = temp]
    OBVIOUS
  <2> HIDE DEF b
  <2>3. enterTemp \in Frames /\ enterTemp.host = Top.host /\ enterTemp.getinfos = Top.getinfos /\ enterTemp.badskip = b
        /\ enterTemp.said = temp /\ enterTemp.path = Top.path /\ enterTemp.temppath = d
    BY <1>2, <2>1, <2>2 DEF Frames
  <2> QED
    BY <1>2, <2>1, <2>3 DEF StoresWhereSaid
<1>6. /\ badTemp \in Frames /\ badTemp.host = Top.host /\ badTemp.getinfos = Top.getinfos
      /\ StoresWhereSaid(Top) => StoresWhereSaid(badTemp)
  <2> DEFINE b == Top.badskip \cup {"TEMPPATH"}
  <2>1. b \in SUBSET {"PATH", "TEMPPATH", "HOST"} /\ "TEMPPATH" \in b
        /\ ("PATH" \in Top.badskip => "PATH" \in b)
    OBVIOUS
  <2>2. badTemp = [Top EXCEPT !.badskip = b, !.said = temp]
    OBVIOUS
  <2> HIDE DEF b
  <2>3. badTemp \in Frames /\ badTemp.host = Top.host /\ badTemp.getinfos = Top.getinfos /\ badTemp.badskip = b
        /\ badTemp.said = temp /\ badTemp.path = Top.path /\ badTemp.temppath = Top.temppath
    BY <1>2, <2>1, <2>2 DEF Frames
  <2> QED
    BY <1>2, <2>1, <2>3 DEF StoresWhereSaid
<1>7. CASE Path(d)
  <2>1. (OnTop(enter) /\ Goto("args")) \/ (OnTop(bad) /\ Complain("path", "args"))
    BY <1>7 DEF Path, enter, bad, both
  <2> HIDE DEF enter, bad
  <2> QED
    BY <1>1, <1>3, <1>4, <2>1
<1>8. CASE TempPath(d)
  <2>1. (OnTop(enterTemp) /\ Goto("args")) \/ (OnTop(badTemp) /\ Complain("path", "args"))
    BY <1>8 DEF TempPath, GoodTempPath, enterTemp, badTemp, temp
  <2> HIDE DEF enterTemp, badTemp
  <2> QED
    BY <1>1, <1>5, <1>6, <2>1
<1> QED
  BY <1>7, <1>8

\* Most options change nothing of what is pending, where it is to be stored and
\* from which host.
QuietTop ==
  \E f \in Frames :
    /\ OnTop(f) /\ f.host = Top.host /\ f.badskip = Top.badskip /\ f.getinfos = Top.getinfos
    /\ f.path = Top.path /\ f.temppath = Top.temppath /\ f.said = Top.said

LEMMA QuietSteps ==
  ASSUME Typed,
         \/ Testmode \/ \E c \in {"r", "R"}, re \in {"good", "bad", "odd"} : NoteSearch(c, re)
         \/ Search \/ GroupListMode \/ XGroupListMode \/ UpdateGroups \/ SelectGroups \/ XGroups
  PROVE  QuietTop \/ UNCHANGED stack
<1> Top \in Frames /\ Top.patinfos \in BOOLEAN
  BY TopType DEF Typed, Frames
<1> USE DEF QuietTop
<1>1. CASE Testmode
  <2> DEFINE f == [Top EXCEPT !.testmode = TRUE]
  <2>1. /\ f \in Frames /\ f.host = Top.host /\ f.badskip = Top.badskip /\ f.getinfos = Top.getinfos
        /\ f.path = Top.path /\ f.temppath = Top.temppath /\ f.said = Top.said
    BY DEF Frames
  <2>2. OnTop(f)
    BY <1>1 DEF Testmode
  <2> HIDE DEF f
  <2> QED
    BY <2>1, <2>2
<1>2. ASSUME NEW c \in {"r", "R"}, NEW re \in {"good", "bad", "odd"}, NoteSearch(c, re) PROVE QuietTop
  <2>1. PICK f : OnTop(f) /\ \/ f = [Top EXCEPT !.grouplistgetinfos = TRUE, !.patinfos = @ \/ Top.mode = "xlist"]
                             \/ f = [Top EXCEPT !.patinfos = @ \/ (Top.mode = "xlist" /\ c = "r" /\ re = "odd")]
    BY <1>2 DEF NoteSearch
  <2>2. /\ f \in Frames /\ f.host = Top.host /\ f.badskip = Top.badskip /\ f.getinfos = Top.getinfos
        /\ f.path = Top.path /\ f.temppath = Top.temppath /\ f.said = Top.said
    BY <2>1 DEF Frames
  <2> QED
    BY <2>1, <2>2
<1>3. CASE Search
  <2> DEFINE f == [Top EXCEPT !.grouplistgetinfos = FALSE, !.patinfos = FALSE]
  <2>1. /\ f \in Frames /\ f.host = Top.host /\ f.badskip = Top.badskip /\ f.getinfos = Top.getinfos
        /\ f.path = Top.path /\ f.temppath = Top.temppath /\ f.said = Top.said
    BY DEF Frames
  <2>2. OnTop(f) \/ UNCHANGED stack
    BY <1>3 DEF Search
  <2> HIDE DEF f
  <2> QED
    BY <2>1, <2>2
<1>4. ASSUME NEW mode \in {"list", "xlist"}, OnTop([Top EXCEPT !.mode = mode]) PROVE QuietTop
  <2> DEFINE f == [Top EXCEPT !.mode = mode]
  <2>1. /\ f \in Frames /\ f.host = Top.host /\ f.badskip = Top.badskip /\ f.getinfos = Top.getinfos
        /\ f.path = Top.path /\ f.temppath = Top.temppath /\ f.said = Top.said
    BY DEF Frames, Modes
  <2>2. OnTop(f)
    BY <1>4
  <2> HIDE DEF f
  <2> QED
    BY <2>1, <2>2
<1>5. ASSUME NEW mode \in {"retrieve", "xretrieve"}, cur[1] \in Names,
             OnTop([Top EXCEPT !.mode = mode, !.groups = GetGroups(cur[2])])
      PROVE  QuietTop
  <2> DEFINE gs == GetGroups(cur[2])
             f == [Top EXCEPT !.mode = mode, !.groups = gs]
  <2>1. gs \in Seq(Group)
    BY <1>5 DEF Typed, CurTyped
  <2> HIDE DEF gs
  <2>2. /\ f \in Frames /\ f.host = Top.host /\ f.badskip = Top.badskip /\ f.getinfos = Top.getinfos
        /\ f.path = Top.path /\ f.temppath = Top.temppath /\ f.said = Top.said
    BY <2>1 DEF Frames, Modes
  <2>3. OnTop(f)
    BY <1>5 DEF gs
  <2> HIDE DEF f
  <2> QED
    BY <2>2, <2>3
<1>6. CASE GroupListMode
  BY <1>4, <1>6 DEF GroupListMode
<1>7. CASE XGroupListMode
  BY <1>4, <1>7 DEF XGroupListMode
<1>8. CASE UpdateGroups
  BY <1>5, <1>8 DEF UpdateGroups, Performs, Names
<1>9. CASE SelectGroups
  BY <1>5, <1>9 DEF SelectGroups, Performs, Names
<1>10. CASE XGroups
  BY <1>5, <1>10 DEF XGroups, Performs, Names
<1> QED
  BY <1>1, <1>2, <1>3, <1>6, <1>7, <1>8, <1>9, <1>10

\* Options that are carried out as they are read.
LEMMA OptionStepTyped ==
  ASSUME Typed, ReadsOption
  PROVE  Typed'
<1> USE DEF RestTyped, WorldTyped, NntpTyped, Phases, ErrorNames, world, nntp, shared, Reads, Goto, Complain
<1> Top \in Frames
  BY TopType DEF Typed
<1>1. CASE Testmode \/ \E c \in {"r", "R"}, re \in {"good", "bad", "odd"} : NoteSearch(c, re)
  <2>1. RestTyped' /\ UNCHANGED <<world, cur, nntp>> /\ phase' \in {"args", "ending"}
    BY <1>1 DEF Typed, Testmode, NoteSearch
  <2>2. WorldTyped' /\ NntpTyped'
    BY <2>1 DEF Typed
  <2> QED
    BY <1>1, <2>1, <2>2, QuietSteps, TopStepTyped, SameStackTyped DEF QuietTop
<1>2. ASSUME NEW c \in {"r", "R"}, NEW re \in {"good", "bad", "odd"}, NoteRetrieval(c, re) PROVE Typed'
  <2>1. RestTyped' /\ UNCHANGED <<world, cur, nntp>> /\ phase' \in {"args", "ending"}
    BY <1>2 DEF Typed, NoteRetrieval
  <2>2. WorldTyped' /\ NntpTyped'
    BY <2>1 DEF Typed
  <2>3. CASE UNCHANGED stack
    BY <2>1, <2>2, <2>3, SameStackTyped
  <2>4. CASE OnTop([Top EXCEPT !.patinfos = @ \/ Top.mode = "xretrieve",
                               !.getinfos = @ \cup {Wanted(nread, Top.groups, Top.path, Top.temppath)}])
    <3>1. Wanted(nread, Top.groups, Top.path, Top.temppath) \in Wants
      BY WantedType DEF Typed, Frames
    <3>2. [Top EXCEPT !.patinfos = @ \/ Top.mode = "xretrieve",
                      !.getinfos = @ \cup {Wanted(nread, Top.groups, Top.path, Top.temppath)}] \in Frames
      BY <3>1 DEF Frames
    <3> QED
      BY <2>1, <2>2, <2>4, <3>2, TopStepTyped
  <2>5. ASSUME NEW x \in BOOLEAN, OnTop([Top EXCEPT !.patinfos = x]) PROVE Typed'
    <3>1. [Top EXCEPT !.patinfos = x] \in Frames
      BY DEF Frames
    <3> QED
      BY <2>1, <2>2, <2>5, <3>1, TopStepTyped
  <2>6. ASSUME NEW useless \in BOOLEAN, OnTop([Top EXCEPT !.patinfos = @ \/ useless]) PROVE Typed'
    <3>1. OnTop([Top EXCEPT !.patinfos = Top.patinfos \/ useless])
      BY <2>6
    <3> QED
      BY <2>5, <3>1
  <2> QED
    BY <1>2, <2>3, <2>4, <2>6 DEF NoteRetrieval
<1>3. ASSUME NEW d \in Dir, Path(d) \/ TempPath(d) PROVE Typed'
  <2>1. PICK f \in Frames : OnTop(f) /\ (Complain("path", "args") \/ Goto("args"))
    BY <1>3, PathStep
  <2>2. nread' = nread + 1 /\ UNCHANGED shared
    BY <1>3, PathStep
  <2>3. errors' \subseteq errors \cup {"path"} /\ phase' \in {"args", "ending"}
    BY <2>1
  <2>4. RestTyped'
    BY <2>2, <2>3 DEF Typed
  <2>5. WorldTyped' /\ NntpTyped'
    BY <2>2 DEF Typed
  <2> QED
    BY <2>1, <2>2, <2>3, <2>4, <2>5, TopStepTyped
<1>4. ASSUME NEW s \in Server \cup {NoServer}, FlushRefused(s) PROVE Typed'
  BY <1>4, SameStackTyped DEF Typed, FlushRefused, Flushes
<1>5. ASSUME NEW s \in Server \cup {NoServer}, FlushGroupList(s) PROVE Typed'
  BY <1>5, SameStackTyped DEF Typed, FlushGroupList, Flushes
<1>6. ASSUME NEW s \in Server \cup {NoServer}, FlushHeaders(s) PROVE Typed'
  <2>1. (Top.groups \in Seq(Group) /\ Last(Top.groups) \in Group) \/ Top.groups = <<>>
    BY GroupsType DEF Frames
  <2>2. NntpTyped'
    BY <1>6, <2>1 DEF Typed, FlushHeaders, Loads
  <2> QED
    BY <1>6, <2>2, SameStackTyped DEF Typed, FlushHeaders, Flushes
<1>7. CASE Help
  BY <1>7, ReturnTyped DEF Typed, Help
<1>8. CASE Invalid
  <2>1. CASE style.fatal
    BY <1>8, <2>1, SameStackTyped DEF Typed, Invalid
  <2>2. CASE ~style.fatal
    BY <1>8, <2>2, ReturnTyped DEF Typed, Invalid
  <2> QED
    BY <2>1, <2>2
<1> QED
  BY <1>1, <1>2, <1>3, <1>4, <1>5, <1>6, <1>7, <1>8 DEF ReadsOption

\* A retrieval does what is pending.
LEMMA RetrieveStep ==
  ASSUME Typed, Retrieve
  PROVE  \E f \in Frames :
           /\ OnTop(f) /\ f.getinfos = {} /\ f.host = Top.host /\ f.badskip = Top.badskip
           /\ f.path = Top.path /\ f.temppath = Top.temppath /\ f.said = Top.said
<1> Top \in Frames
  BY TopType DEF Typed
<1> DEFINE f == [Top EXCEPT !.getinfos = {}, !.patinfos = FALSE]
<1>1. /\ f \in Frames /\ f.getinfos = {} /\ f.host = Top.host /\ f.badskip = Top.badskip
      /\ f.path = Top.path /\ f.temppath = Top.temppath /\ f.said = Top.said
  BY DEF Frames
<1>2. OnTop(f)
  BY DEF Retrieve
<1> HIDE DEF f
<1> QED
  BY <1>1, <1>2

\* The host is the one that is named, or bad.
LEMMA HostStep ==
  ASSUME Typed, Host
  PROVE  \E f \in Frames :
           /\ OnTop(f) /\ f.host = force_host' /\ f.getinfos = Top.getinfos
           /\ f.badskip \ {"HOST"} = Top.badskip \ {"HOST"}
           /\ f.path = Top.path /\ f.temppath = Top.temppath /\ f.said = Top.said
           /\ Complain("user", "args") \/ (Goto("args") /\ f.badskip \subseteq Top.badskip)
<1> Top \in Frames /\ Top.badskip \in SUBSET {"PATH", "TEMPPATH", "HOST"}
  BY TopType DEF Typed, Frames
<1> DEFINE known == cur[2] \in configured
           host == IF known THEN cur[2] ELSE NoServer
           skip == IF known \/ cur[2] = NoArg THEN Top.badskip \ {"HOST"} ELSE Top.badskip \cup {"HOST"}
           f == [Top EXCEPT !.host = host, !.badskip = skip]
<1>1. host \in Server \cup {NoServer}
  BY DEF Typed, WorldTyped
<1>2. /\ skip \in SUBSET {"PATH", "TEMPPATH", "HOST"} /\ skip \ {"HOST"} = Top.badskip \ {"HOST"}
      /\ known \/ cur[2] = NoArg => skip \subseteq Top.badskip
  OBVIOUS
<1>3. /\ OnTop(f) /\ force_host' = host
      /\ IF known \/ cur[2] = NoArg THEN Goto("args") ELSE Complain("user", "args")
  BY DEF Host
<1> HIDE DEF known, host, skip
<1>4. /\ f \in Frames /\ f.host = host /\ f.badskip = skip /\ f.getinfos = Top.getinfos
      /\ f.path = Top.path /\ f.temppath = Top.temppath /\ f.said = Top.said
  BY <1>1, <1>2 DEF Frames
<1> HIDE DEF f
<1> QED
  BY <1>2, <1>3, <1>4

\* A list file starts with the options where it is named, and nothing pending.
LEMMA ListFileStep ==
  ASSUME Typed, ListFile
  PROVE  /\ Complain("user", "args") \/ Goto("args")
         /\ \/ UNCHANGED stack
            \/ /\ Len(stack) = 1 /\ stack' \in Seq(Frames) /\ Len(stack') = 2 /\ stack'[1] = stack[1]
               /\ Top'.getinfos = {} /\ Top'.host = Top.host /\ Top'.badskip = Top.badskip
               /\ Top'.path = Top.path /\ Top'.temppath = Top.temppath /\ Top'.said = Top.said
<1> Top \in Frames
  BY TopType DEF Typed
<1> DEFINE f == [Top EXCEPT !.getinfos = {}, !.patinfos = FALSE, !.grouplistgetinfos = FALSE]
<1>1. /\ f \in Frames /\ f.getinfos = {} /\ f.host = Top.host /\ f.badskip = Top.badskip
      /\ f.path = Top.path /\ f.temppath = Top.temppath /\ f.said = Top.said
  BY DEF Frames
<1>2. /\ UNCHANGED stack \/ stack' = Append(stack, f)
      /\ Complain("user", "args") \/ Goto("args")
  BY DEF ListFile
<1> HIDE DEF f
<1>3. Len(stack) = 1 /\ stack \in Seq(Frames)
  BY DEF ListFile, Performs, Typed, CurTyped, StackTyped
<1> QED
  BY <1>1, <1>2, <1>3, AppendIs

\* Options before which what is pending is done.
LEMMA PerformStepTyped ==
  ASSUME Typed, PerformsOption
  PROVE  Typed'
<1> USE DEF RestTyped, WorldTyped, NntpTyped, Phases, ErrorNames, world, nntp, shared, Reads, Goto, Complain,
            Performs
<1> Top \in Frames /\ Top.groups \in Seq(Group) /\ Top.patinfos \in BOOLEAN
  BY TopType DEF Typed, Frames
<1>1. ASSUME NEW o \in style.options \cup {<<"end", NoArg>>}, Defer(o) PROVE Typed'
  <2>1. RestTyped' /\ UNCHANGED <<world, nntp, stack>> /\ cur' = o /\ phase' = "search"
    BY <1>1 DEF Typed, Defer
  <2>2. WorldTyped' /\ NntpTyped' /\ StackTyped'
    BY <2>1 DEF Typed, StackTyped
  <2>3. CurTyped'
    <3>1. o[1] = "@" => Len(stack) = 1
      BY <1>1 DEF Defer
    <3>2. o[1] \in Names => GetGroups(o[2]) \in Seq(Group)
      BY StyleType DEF Typed, Names
    <3> QED
      BY <2>1, <3>1, <3>2 DEF CurTyped
  <2> QED
    BY <2>1, <2>2, <2>3 DEF Typed
<1>2. CASE Search
  <2>1. RestTyped' /\ UNCHANGED <<world, cur, nntp>> /\ phase = "search"
    BY <1>2 DEF Typed, Search, Listing
  <2>2. WorldTyped' /\ NntpTyped'
    BY <2>1 DEF Typed
  <2> QED
    BY <1>2, <2>1, <2>2, QuietSteps, TopStepTyped, SameStackTyped DEF QuietTop
<1>3. CASE NothingPending
  BY <1>3, SameStackTyped DEF Typed, NothingPending
<1>4. CASE Retrieve
  <2>1. RestTyped' /\ UNCHANGED <<world, cur, force_host>> /\ phase = "retrieve"
    BY <1>4 DEF Typed, Retrieve
  <2>2. WorldTyped'
    BY <2>1 DEF Typed
  <2>3. NntpTyped'
    <3>1. group' \in Group \cup {NoGroup}
      <4>1. Len(Top.groups) = 1 => Top.groups[1] \in Group
        BY GroupsType
      <4>2. group' \in {NoGroup, group} \/ (Len(Top.groups) = 1 /\ group' = Top.groups[1])
        BY <1>4 DEF Retrieve
      <4> QED
        BY <4>1, <4>2 DEF Typed
    <3>2. gcache' = Unloaded /\ midinfo' \in {Unloaded, Uses(Top.patinfos).mid}
      BY <1>4 DEF Retrieve
    <3> QED
      BY <2>1, <3>1, <3>2, UsesType DEF Typed
  <2> QED
    BY <1>4, <2>1, <2>2, <2>3, RetrieveStep, TopStepTyped
<1>5. CASE GroupListMode
  <2>1. RestTyped' /\ UNCHANGED <<world, cur, nntp>> /\ phase = "perform"
    BY <1>5 DEF Typed, GroupListMode, Listing
  <2>2. WorldTyped' /\ NntpTyped'
    BY <2>1 DEF Typed
  <2> QED
    BY <1>5, <2>1, <2>2, QuietSteps, TopStepTyped, SameStackTyped DEF QuietTop
<1>6. CASE XGroupListMode \/ SelectGroups \/ XGroups
  <2>1. RestTyped' /\ UNCHANGED <<world, cur, nntp>> /\ phase = "perform"
    BY <1>6 DEF Typed, XGroupListMode, SelectGroups, XGroups
  <2>2. WorldTyped' /\ NntpTyped'
    BY <2>1 DEF Typed
  <2> QED
    BY <1>6, <2>1, <2>2, QuietSteps, TopStepTyped, SameStackTyped DEF QuietTop
<1>7. CASE UpdateGroups
  <2>1. RestTyped' /\ UNCHANGED <<world, cur, force_host>> /\ phase = "perform"
    BY <1>7 DEF Typed, UpdateGroups
  <2>2. WorldTyped'
    BY <2>1 DEF Typed
  <2>3. NntpTyped'
    <3>1. GetGroups(cur[2]) \in Seq(Group)
      BY <1>7 DEF UpdateGroups, Typed, CurTyped, Names
    <3>2. GetGroups(cur[2]) # <<>> => Last(GetGroups(cur[2])) \in Group
      BY <3>1, GroupsType
    <3> QED
      BY <1>7, <2>1, <3>2 DEF UpdateGroups, Loads, Typed
  <2> QED
    BY <1>7, <2>1, <2>2, <2>3, QuietSteps, TopStepTyped, SameStackTyped DEF QuietTop
<1>8. CASE Host
  <2>1. PICK f \in Frames : OnTop(f) /\ f.host = force_host' /\ (Complain("user", "args") \/ Goto("args"))
    BY <1>8, HostStep
  <2>2. UNCHANGED <<world, cur, nread, group, gcache, midinfo>> /\ phase' \in {"args", "ending"}
    BY <1>8, <2>1 DEF Host
  <2>3. RestTyped' /\ WorldTyped'
    BY <2>1, <2>2 DEF Typed
  <2>4. NntpTyped'
    BY <2>1, <2>2 DEF Typed, Frames
  <2> QED
    BY <2>1, <2>2, <2>3, <2>4, TopStepTyped
<1>9. CASE ListFile
  <2>1. /\ Complain("user", "args") \/ Goto("args")
        /\ UNCHANGED stack \/ (stack' \in Seq(Frames) /\ Len(stack') = 2)
    BY <1>9, ListFileStep
  <2>2. UNCHANGED <<world, cur, nread, nntp>> /\ phase' \in {"args", "ending"}
    BY <1>9, <2>1 DEF ListFile
  <2>3. RestTyped' /\ WorldTyped' /\ NntpTyped'
    BY <2>1, <2>2 DEF Typed
  <2>4. StackTyped' /\ CurTyped'
    BY <2>1, <2>2 DEF Typed, StackTyped, CurTyped
  <2> QED
    BY <2>3, <2>4 DEF Typed
<1>10. CASE End
  BY <1>10, ReturnTyped DEF Typed, End
<1> QED
  BY <1>1, <1>2, <1>3, <1>4, <1>5, <1>6, <1>7, <1>8, <1>9, <1>10 DEF PerformsOption

\* Asking servers for their groups touches none of this.
LEMMA ListingStepTyped ==
  ASSUME Typed, phase = "listing" => job \in Jobs, AsksServers
  PROVE  /\ Typed' /\ UNCHANGED <<world, stack, cur, nread, nntp, history, why>>
         /\ phase = "listing" /\ phase' \in {"listing", "retrieve", "args"} /\ errors \subseteq errors'
<1> DEFINE Same == UNCHANGED <<world, stack, cur, nread, nntp, history, why>> /\ phase = "listing"
           Goes == phase' = phase /\ errors' = errors
<1>1. ASSUME NEW s \in Server, AskDate(s) PROVE Same /\ Goes
  BY <1>1 DEF AskDate, Lists
<1>2. ASSUME NEW s \in Server, ListGroups(s) PROVE Same /\ Goes
  BY <1>2 DEF ListGroups, Lists
<1>3. ASSUME NEW s \in Server, Describe(s) PROVE Same /\ Goes
  BY <1>3 DEF Describe, Lists
<1>4. ASSUME NEW s \in Server, NEW fatal \in BOOLEAN, Fail(s, fatal) PROVE Same /\ Goes
  BY <1>4 DEF Fail, Lists
<1>5. ASSUME NextRound PROVE Same /\ Goes
  BY <1>5 DEF NextRound, Lists
<1>6. ASSUME ListEnd PROVE Same /\ phase' \in {"retrieve", "args"} /\ errors' \in {errors, errors \cup {"grouplist"}}
  <2>1. Same /\ phase' = job.then /\ errors' \in {errors, errors \cup {"grouplist"}}
    BY <1>6 DEF ListEnd, Lists
  <2>2. job.then \in {"retrieve", "args"}
    BY <2>1 DEF Jobs
  <2> QED
    BY <2>1, <2>2
<1>7. Same /\ phase' \in {"listing", "retrieve", "args"} /\ errors' \in {errors, errors \cup {"grouplist"}}
  <2> HIDE DEF Same
  <2>1. Same /\ (Goes \/ (phase' \in {"retrieve", "args"} /\ errors' \in {errors, errors \cup {"grouplist"}}))
    BY <1>1, <1>2, <1>3, <1>4, <1>5, <1>6 DEF AsksServers
  <2>2. Same => phase = "listing"
    BY DEF Same
  <2> QED
    BY <2>1, <2>2
<1>8. RestTyped' /\ WorldTyped' /\ NntpTyped'
  BY <1>7 DEF Typed, RestTyped, WorldTyped, NntpTyped, Phases, ErrorNames, world, nntp
<1> QED
  BY <1>7, <1>8, SameStackTyped

-----------------------------------------------------------------------------
(* What is pending, where it is to be stored, and what is loaded.           *)

Ids(S) == {w.id : w \in S}
DoneIds == {d.want.id : d \in done}

\* A frame's paths are those that were said, unless they are bad, which is an
\* error; what is pending in it was asked for.
FrameInv(f) ==
  StoresWhereSaid(f) /\ f.getinfos \subseteq asked /\ (f.badskip # {} => errors # {})

\* A header cache is loaded with its record, and a selected group's record is
\* its own.
LoadedTogether ==
  /\ gcache # Unloaded => midinfo = gcache
  /\ group # NoGroup /\ midinfo # Unloaded => midinfo = {group}

\* While nothing went wrong, what was asked for has been done or is pending.
Pending ==
  /\ phase = "perform" => Top.getinfos = {}
  /\ why = "none" /\ errors = {} => Ids(asked) = DoneIds \cup Ids(Top.getinfos)
  /\ phase = "ending" => why # "none"
  /\ why \in {"invalid", "error"} => errors # {}
  /\ why = "end" => phase \in {"ending", "exited"} /\ (errors # {} \/ Ids(asked) = DoneIds)

FramesInv ==
  /\ FrameInv(Top) /\ (Len(stack) = 2 => FrameInv(stack[1]) /\ stack[1].getinfos = {})
  /\ Top.host # NoServer => force_host = Top.host

StackInv == FramesInv /\ LoadedTogether /\ StoredWhereSaid /\ Pending

SameTop ==
  /\ Top'.host = Top.host /\ Top'.badskip = Top.badskip /\ Top'.getinfos = Top.getinfos
  /\ Top'.path = Top.path /\ Top'.temppath = Top.temppath /\ Top'.said = Top.said
  /\ Len(stack') = Len(stack) /\ (Len(stack) = 2 => stack'[1] = stack[1])

LEMMA SameTopIs ==
  ASSUME Typed, QuietTop \/ UNCHANGED stack
  PROVE  SameTop
<1>1. CASE QuietTop
  BY <1>1, OnTopIs DEF QuietTop, SameTop, Typed, StackTyped
<1>2. CASE UNCHANGED stack
  BY <1>2 DEF SameTop, Top
<1> QED
  BY <1>1, <1>2

\* nget goes on, or an error ends it.
GoesOn ==
  \/ why' = why /\ phase' # "ending" /\ phase \notin {"ending", "exited"}
  \/ why' = "error" /\ errors' # {} /\ phase' = "ending"

\* A step that leaves alone what is pending and asked for.
LEMMA QuietStep ==
  ASSUME Typed, StackInv, QuietTop \/ UNCHANGED stack, UNCHANGED <<force_host, asked, done>>,
         LoadedTogether', errors \subseteq errors', GoesOn, phase' = "perform" => Top.getinfos = {}
  PROVE  StackInv'
<1>1. SameTop
  BY SameTopIs
<1>2. FramesInv'
  BY <1>1 DEF StackInv, FramesInv, FrameInv, StoresWhereSaid, SameTop
<1>3. StoredWhereSaid'
  BY DEF StackInv, StoredWhereSaid
<1>4. Pending'
  BY <1>1 DEF StackInv, Pending, SameTop, GoesOn, Ids, DoneIds
<1> QED
  BY <1>2, <1>3, <1>4 DEF StackInv

LEMMA InitStack == Init => StackInv
<1> SUFFICES ASSUME Init PROVE StackInv
  OBVIOUS
<1>1. Top = FirstFrame /\ Len(stack) = 1
  BY DEF Init, Top
<1>2. asked = {} /\ done = {} /\ gcache = Unloaded /\ midinfo = Unloaded /\ why = "none" /\ phase = "exited"
      /\ errors = {}
  BY DEF Init
<1> QED
  BY <1>1, <1>2 DEF StackInv, FramesInv, FrameInv, StoresWhereSaid, FirstFrame, LoadedTogether, StoredWhereSaid,
                    Pending, Ids, DoneIds

LEMMA OuterStack ==
  ASSUME Typed, StackInv, Outer
  PROVE  StackInv'
<1>1. CASE Start
  <2>1. Top' = FirstFrame /\ Len(stack') = 1
    <3>1. stack' = <<FirstFrame>>
      BY <1>1 DEF Start
    <3> QED
      BY <3>1 DEF Top
  <2>2. asked' = {} /\ done' = {} /\ gcache' = Unloaded /\ midinfo' = Unloaded
    BY <1>1 DEF Start
  <2>3. (phase' = "args" /\ why' = "none") \/ (phase' = "ending" /\ why' = "error" /\ errors' # {})
    BY <1>1, StartIs
  <2> QED
    BY <2>1, <2>2, <2>3 DEF StackInv, FramesInv, FrameInv, StoresWhereSaid, FirstFrame, LoadedTogether,
                            StoredWhereSaid, Pending, Ids, DoneIds
<1>2. CASE Exit
  <2>1. UNCHANGED <<stack, force_host, asked, done, errors, why>> /\ phase = "ending" /\ phase' = "exited"
        /\ gcache' = Unloaded /\ midinfo' = Unloaded
    BY <1>2 DEF Exit, world, history
  <2> QED
    BY <2>1 DEF StackInv, FramesInv, FrameInv, LoadedTogether, StoredWhereSaid, Pending, Ids, DoneIds, Top
<1>3. CASE Signal \/ Kill
  <2>1. UNCHANGED <<stack, nntp, asked, done, errors>> /\ \/ phase' = "ending" /\ why' = "signal"
                                                          \/ phase' = "exited" /\ why' = "killed"
    BY <1>3 DEF Signal, Kill, history
  <2> QED
    BY <2>1 DEF StackInv, FramesInv, FrameInv, LoadedTogether, StoredWhereSaid, Pending, Ids, DoneIds, Top, nntp
<1>4. CASE \E s \in Server, g \in Newsgroup : Create(s, g)
  <2>1. UNCHANGED <<stack, nntp, asked, done, errors, phase, why>>
    BY <1>4 DEF Create, history
  <2> QED
    BY <2>1 DEF StackInv, FramesInv, FrameInv, LoadedTogether, StoredWhereSaid, Pending, Ids, DoneIds, Top, nntp
<1> QED
  BY <1>1, <1>2, <1>3, <1>4 DEF Outer

LEMMA AsksStack ==
  ASSUME Typed, StackInv, phase = "listing" => job \in Jobs, AsksServers
  PROVE  StackInv'
<1>1. UNCHANGED <<stack, nntp, history, why>> /\ phase = "listing" /\ phase' \in {"listing", "retrieve", "args"}
      /\ errors \subseteq errors'
  BY ListingStepTyped
<1>2. LoadedTogether'
  BY <1>1 DEF StackInv, LoadedTogether, nntp
<1> QED
  BY <1>1, <1>2, QuietStep DEF GoesOn, nntp, history

LEMMA GoingOn ==
  ASSUME phase \notin {"ending", "exited"}, NEW e, NEW l, l # "ending", Goto(l) \/ Complain(e, l)
  PROVE  GoesOn /\ errors \subseteq errors' /\ (Complain(e, l) => errors' # {})
         /\ (phase' = l \/ phase' = "ending")
  BY DEF GoesOn, Goto, Complain

\* do_args() returns, with nothing pending or not at the end.
LEMMA ReturnStack ==
  ASSUME Typed, StackInv, NEW w, Return(w), w \in {"help", "invalid", "end"}, errors \subseteq errors',
         w = "end" => phase = "perform" /\ errors' = errors,
         w = "help" => errors' = errors, w = "invalid" => errors' # {}, phase \in {"args", "perform"}
  PROVE  StackInv'
<1>1. UNCHANGED <<group, gcache, midinfo, asked, done>>
  BY DEF Return, history
<1>2. Len(stack) \in 1 .. 2
  BY DEF Typed, StackTyped
<1>3. LoadedTogether' /\ StoredWhereSaid'
  BY <1>1 DEF StackInv, LoadedTogether, StoredWhereSaid
<1>4. CASE Len(stack) = 1
  <2>1. /\ phase' = "ending" /\ UNCHANGED <<stack, force_host>>
        /\ why' = IF why = "none" THEN w ELSE why
    BY <1>4, ReturnIs
  <2>2. FramesInv'
    BY <1>1, <2>1 DEF StackInv, FramesInv, FrameInv, Top
  <2>3. Pending'
    BY <1>1, <2>1 DEF StackInv, Pending, Ids, DoneIds, Top
  <2> QED
    BY <1>3, <2>2, <2>3 DEF StackInv
<1>5. CASE Len(stack) = 2
  <2>1. /\ phase' = "args" /\ Len(stack') = 1 /\ Top' = stack[1]
        /\ force_host' = IF stack[1].host # NoServer THEN stack[1].host ELSE force_host
        /\ why' = IF why = "none" /\ w = "help" THEN w ELSE why
    BY <1>5, ReturnIs
  <2>2. FramesInv'
    BY <1>1, <1>5, <2>1 DEF StackInv, FramesInv, FrameInv
  <2>3. Pending'
    <3>1. stack[1].getinfos = {} /\ (w = "end" => Top.getinfos = {})
      BY <1>5 DEF StackInv, FramesInv, Pending
    <3>2. why = "none" /\ errors = {} => Ids(asked) = DoneIds \cup Ids(Top.getinfos)
      BY DEF StackInv, Pending
    <3>3. why # "end" /\ (why \in {"invalid", "error"} => errors # {})
      BY DEF StackInv, Pending
    <3> QED
      BY <1>1, <2>1, <3>1, <3>2, <3>3 DEF Pending, Ids, DoneIds
  <2> QED
    BY <1>3, <2>2, <2>3 DEF StackInv
<1> QED
  BY <1>2, <1>4, <1>5

LEMMA ReadsStack ==
  ASSUME Typed, StackInv, ReadsOption
  PROVE  StackInv'
<1> LoadedTogether /\ Top \in Frames
  BY TopType DEF StackInv, Typed
<1>1. CASE Testmode \/ \E c \in {"r", "R"}, re \in {"good", "bad", "odd"} : NoteSearch(c, re)
  <2>1. phase = "args" /\ UNCHANGED <<nntp, history>> /\ (Goto("args") \/ Complain("user", "args"))
    BY <1>1 DEF Testmode, NoteSearch, Reads, shared
  <2>2. GoesOn /\ errors \subseteq errors' /\ phase' # "perform"
    BY <2>1 DEF GoesOn, Goto, Complain
  <2>3. LoadedTogether'
    BY <2>1 DEF LoadedTogether, nntp
  <2> QED
    BY <1>1, <2>1, <2>2, <2>3, QuietSteps, QuietStep DEF nntp, history
<1>2. ASSUME NEW c \in {"r", "R"}, NEW re \in {"good", "bad", "odd"}, NoteRetrieval(c, re) PROVE StackInv'
  <2> DEFINE w == Wanted(nread, Top.groups, Top.path, Top.temppath)
             want == Wanted(nread, Top.groups, Top.said.path, Top.said.temp)
  <2>1. phase = "args" /\ asked' = asked \cup {want} /\ UNCHANGED <<nntp, done>>
    BY <1>2 DEF NoteRetrieval, Reads, shared
  <2>2. w.id = want.id /\ w \in Wants
    <3>1. Top.said.path \in Dir /\ Top.said.temp \in Dir
      BY DEF Frames
    <3> QED
      BY <3>1, WantedType DEF Typed, RestTyped, Frames
  <2>3. Top.badskip = {} => w = want
    BY DEF StackInv, FramesInv, FrameInv, StoresWhereSaid
  <2>4. \/ Top.badskip # {} /\ Goto("args") /\ UNCHANGED stack
        \/ /\ Top.badskip = {} /\ Goto("args")
           /\ OnTop([Top EXCEPT !.patinfos = @ \/ Top.mode = "xretrieve", !.getinfos = @ \cup {w}])
        \/ /\ Complain("user", "args")
           /\ \E x \in BOOLEAN : OnTop([Top EXCEPT !.patinfos = @ \/ x])
    BY <1>2 DEF NoteRetrieval
  <2> HIDE DEF w, want
  <2>5. LoadedTogether' /\ StoredWhereSaid'
    BY <2>1 DEF StackInv, LoadedTogether, StoredWhereSaid, nntp
  <2>6. GoesOn /\ errors \subseteq errors' /\ (phase' = "args" \/ phase' = "ending")
    BY <2>1, <2>4, GoingOn
  <2>7. CASE Top.badskip # {} /\ Goto("args") /\ UNCHANGED stack
    <3>1. errors # {} /\ errors' = errors
      BY <2>7 DEF StackInv, FramesInv, FrameInv, Goto
    <3>2. FramesInv'
      BY <2>1, <2>7, <3>1 DEF StackInv, FramesInv, FrameInv, Top, nntp
    <3>3. Pending'
      BY <2>1, <2>6, <2>7, <3>1 DEF StackInv, Pending, GoesOn, Goto
    <3> QED
      BY <2>5, <3>2, <3>3 DEF StackInv
  <2>8. CASE /\ Top.badskip = {} /\ Goto("args")
             /\ OnTop([Top EXCEPT !.patinfos = @ \/ Top.mode = "xretrieve", !.getinfos = @ \cup {w}])
    <3> DEFINE f == [Top EXCEPT !.patinfos = @ \/ Top.mode = "xretrieve", !.getinfos = @ \cup {w}]
    <3>1. /\ f \in Frames /\ f.host = Top.host /\ f.badskip = Top.badskip /\ f.getinfos = Top.getinfos \cup {w}
          /\ f.path = Top.path /\ f.temppath = Top.temppath /\ f.said = Top.said
      BY <2>2 DEF Frames
    <3>2. OnTop(f)
      BY <2>8
    <3> HIDE DEF f
    <3>3. Len(stack') = Len(stack) /\ Top' = f /\ (Len(stack) = 2 => stack'[1] = stack[1])
      BY <3>1, <3>2, OnTopIs DEF Typed, StackTyped
    <3>4. errors' = errors /\ why' = why /\ phase' = "args"
      BY <2>8 DEF Goto
    <3>5. FramesInv'
      BY <2>1, <2>3, <2>8, <3>1, <3>3, <3>4 DEF StackInv, FramesInv, FrameInv, StoresWhereSaid, nntp
    <3>6. Pending'
      <4>1. Ids(asked') = Ids(asked) \cup {want.id} /\ Ids(f.getinfos) = Ids(Top.getinfos) \cup {want.id}
            /\ DoneIds' = DoneIds
        BY <2>1, <2>2, <3>1 DEF Ids, DoneIds
      <4>2. Pending /\ why # "end"
        BY <2>1 DEF StackInv, Pending
      <4> QED
        BY <3>3, <3>4, <4>1, <4>2 DEF Pending, Ids
    <3> QED
      BY <2>5, <3>5, <3>6 DEF StackInv
  <2>9. ASSUME NEW x \in BOOLEAN, Complain("user", "args"), OnTop([Top EXCEPT !.patinfos = @ \/ x])
        PROVE  StackInv'
    <3> DEFINE f == [Top EXCEPT !.patinfos = @ \/ x]
    <3>1. /\ f \in Frames /\ f.host = Top.host /\ f.badskip = Top.badskip /\ f.getinfos = Top.getinfos
          /\ f.path = Top.path /\ f.temppath = Top.temppath /\ f.said = Top.said
      BY DEF Frames
    <3>2. OnTop(f)
      BY <2>9
    <3> HIDE DEF f
    <3>3. Len(stack') = Len(stack) /\ Top' = f /\ (Len(stack) = 2 => stack'[1] = stack[1])
      BY <3>1, <3>2, OnTopIs DEF Typed, StackTyped
    <3>4. errors' # {}
      BY <2>9 DEF Complain
    <3>5. FramesInv'
      BY <2>1, <2>6, <3>1, <3>3, <3>4 DEF StackInv, FramesInv, FrameInv, StoresWhereSaid, nntp
    <3>6. Pending'
      BY <2>1, <2>6, <3>4 DEF StackInv, Pending, GoesOn
    <3> QED
      BY <2>5, <3>5, <3>6 DEF StackInv
  <2> QED
    BY <2>4, <2>7, <2>8, <2>9
<1>3. ASSUME NEW d \in Dir, Path(d) \/ TempPath(d) PROVE StackInv'
  <2>1. phase = "args"
    BY <1>3 DEF Path, TempPath, Reads
  <2>2. UNCHANGED <<nntp, history>>
    BY <1>3, PathStep DEF shared
  <2>3. PICK f \in Frames :
          /\ OnTop(f) /\ f.host = Top.host /\ f.getinfos = Top.getinfos
          /\ StoresWhereSaid(Top) => StoresWhereSaid(f)
          /\ Complain("path", "args") \/ (Goto("args") /\ f.badskip \subseteq Top.badskip)
    BY <1>3, PathStep
  <2>4. Len(stack') = Len(stack) /\ Top' = f /\ (Len(stack) = 2 => stack'[1] = stack[1])
    BY <2>3, OnTopIs DEF Typed, StackTyped
  <2>5. /\ GoesOn /\ errors \subseteq errors' /\ (phase' = "args" \/ phase' = "ending")
        /\ errors' # {} \/ f.badskip \subseteq Top.badskip
    BY <2>1, <2>3, GoingOn
  <2>6. FramesInv'
    <3>1. f.badskip # {} => errors' # {}
      BY <2>5 DEF StackInv, FramesInv, FrameInv
    <3>2. StoresWhereSaid(f) /\ f.getinfos \subseteq asked
      BY <2>3 DEF StackInv, FramesInv, FrameInv
    <3> QED
      BY <2>2, <2>3, <2>4, <2>5, <3>1, <3>2 DEF StackInv, FramesInv, FrameInv, StoresWhereSaid, nntp, history
  <2>7. LoadedTogether' /\ StoredWhereSaid'
    BY <2>2 DEF StackInv, LoadedTogether, StoredWhereSaid, nntp, history
  <2>8. Pending'
    BY <2>1, <2>2, <2>3, <2>4, <2>5 DEF StackInv, Pending, GoesOn, Ids, DoneIds, history
  <2> QED
    BY <2>6, <2>7, <2>8 DEF StackInv
<1>4. ASSUME NEW s \in Server \cup {NoServer}, FlushRefused(s) \/ FlushGroupList(s) PROVE StackInv'
  <2>1. phase = "args" /\ UNCHANGED <<nntp, history, stack>> /\ (Goto("args") \/ Complain("user", "args"))
    BY <1>4 DEF FlushRefused, FlushGroupList, Flushes, Reads, shared
  <2>2. GoesOn /\ errors \subseteq errors' /\ phase' # "perform"
    BY <2>1 DEF GoesOn, Goto, Complain
  <2>3. LoadedTogether'
    BY <2>1 DEF LoadedTogether, nntp
  <2> QED
    BY <2>1, <2>2, <2>3, QuietStep DEF nntp, history
<1>5. ASSUME NEW s \in Server \cup {NoServer}, FlushHeaders(s) PROVE StackInv'
  <2>1. phase = "args" /\ UNCHANGED <<force_host, history, stack>> /\ Goto("args")
    BY <1>5 DEF FlushHeaders, Flushes, Reads
  <2>2. GoesOn /\ errors \subseteq errors' /\ phase' # "perform"
    BY <2>1 DEF GoesOn, Goto
  <2>3. LoadedTogether'
    BY <1>5 DEF FlushHeaders, Loads, LoadedTogether
  <2> QED
    BY <2>1, <2>2, <2>3, QuietStep DEF history
<1>6. CASE Help
  BY <1>6, ReturnStack DEF Help, Reads
<1>7. CASE Invalid
  <2>1. phase = "args" /\ errors' = errors \cup {"user"}
    BY <1>7 DEF Invalid, Reads
  <2>2. CASE style.fatal
    <3>1. phase' = "ending" /\ why' = "error" /\ UNCHANGED <<nntp, stack, history>>
      BY <1>7, <2>2 DEF Invalid, shared
    <3>2. LoadedTogether' /\ GoesOn
      BY <2>1, <3>1 DEF LoadedTogether, nntp, GoesOn
    <3> QED
      BY <2>1, <3>1, <3>2, QuietStep DEF nntp, history
  <2>3. CASE ~style.fatal
    BY <1>7, <2>1, <2>3, ReturnStack DEF Invalid
  <2> QED
    BY <2>2, <2>3
<1> QED
  BY <1>1, <1>2, <1>3, <1>4, <1>5, <1>6, <1>7 DEF ReadsOption

\* What a retrieval uses of headers, and the record it writes, are of the same
\* groups.
LEMMA UsesTogether ==
  ASSUME Typed, LoadedTogether, NEW x
  PROVE  Uses(x).store = Uses(x).mid
<1>1. \A g : ToSet(<<g>>) = {g}
  BY DEF ToSet
<1>2. MidinfoFor(Top.groups) = ToSet(Top.groups)
  BY <1>1 DEF MidinfoFor, IsSelected, LoadedTogether
<1> QED
  BY <1>2 DEF Uses, LoadedTogether

LEMMA PerformsStack ==
  ASSUME Typed, StackInv, PerformsOption
  PROVE  StackInv'
<1> LoadedTogether /\ Top \in Frames
  BY TopType DEF StackInv, Typed
<1>1. ASSUME NEW o \in style.options \cup {<<"end", NoArg>>}, Defer(o) PROVE StackInv'
  <2>1. phase = "args" /\ phase' = "search" /\ UNCHANGED <<nntp, history, stack, errors, why>>
    BY <1>1 DEF Defer, Reads
  <2>2. LoadedTogether' /\ GoesOn
    BY <2>1 DEF LoadedTogether, nntp, GoesOn
  <2> QED
    BY <2>1, <2>2, QuietStep DEF nntp, history
<1>2. CASE Search
  <2>1. phase = "search" /\ UNCHANGED <<nntp, history>>
    BY <1>2 DEF Search
  <2>2. \/ Goto("retrieve") \/ Complain("user", "retrieve")
        \/ phase' = "listing" /\ UNCHANGED <<errors, why>>
    BY <1>2 DEF Search, Listing
  <2>3. GoesOn /\ errors \subseteq errors' /\ phase' # "perform"
    BY <2>1, <2>2 DEF GoesOn, Goto, Complain
  <2>4. LoadedTogether'
    BY <2>1 DEF LoadedTogether, nntp
  <2> QED
    BY <1>2, <2>1, <2>3, <2>4, QuietSteps, QuietStep DEF nntp, history
<1>3. CASE NothingPending
  <2>1. phase = "retrieve" /\ Top.getinfos = {} /\ Goto("perform") /\ UNCHANGED <<nntp, history, stack>>
    BY <1>3 DEF NothingPending, shared
  <2>2. LoadedTogether' /\ GoesOn /\ errors \subseteq errors'
    BY <2>1 DEF LoadedTogether, nntp, GoesOn, Goto
  <2> QED
    BY <2>1, <2>2, QuietStep DEF nntp, history
<1>4. CASE Retrieve
  <2>1. /\ phase = "retrieve" /\ phase' = "perform" /\ why' = why /\ errors \subseteq errors'
        /\ UNCHANGED <<force_host, asked>>
        /\ done' = done \cup {[want |-> w, used |-> Uses(Top.patinfos)] : w \in Top.getinfos}
    BY <1>4 DEF Retrieve
  <2>2. PICK f \in Frames :
           /\ OnTop(f) /\ f.getinfos = {} /\ f.host = Top.host /\ f.badskip = Top.badskip
           /\ f.path = Top.path /\ f.temppath = Top.temppath /\ f.said = Top.said
    BY <1>4, RetrieveStep
  <2>3. Len(stack') = Len(stack) /\ Top' = f /\ (Len(stack) = 2 => stack'[1] = stack[1])
    BY <2>2, OnTopIs DEF Typed, StackTyped
  <2>4. FramesInv'
    BY <2>1, <2>2, <2>3 DEF StackInv, FramesInv, FrameInv, StoresWhereSaid
  <2>5. StoredWhereSaid'
    <3>1. Top.getinfos \subseteq asked
      BY DEF StackInv, FramesInv, FrameInv
    <3>2. Uses(Top.patinfos).store = Uses(Top.patinfos).mid
      BY UsesTogether
    <3> QED
      BY <2>1, <3>1, <3>2 DEF StackInv, StoredWhereSaid
  <2>6. LoadedTogether'
    <3> DEFINE x == Top.patinfos
               keeps == Len(Top.groups) = 1 /\ gcache # Unloaded /\ ~x
    <3>1. /\ group' = IF Len(Top.groups) # 1 THEN NoGroup ELSE IF keeps THEN group ELSE Top.groups[1]
          /\ gcache' = Unloaded /\ midinfo' \in {Unloaded, Uses(x).mid}
      BY <1>4 DEF Retrieve
    <3>2. keeps => Uses(x).mid = midinfo
      BY DEF Uses
    <3>3. ~keeps => Uses(x).mid = MidinfoFor(Top.groups)
      BY DEF Uses
    <3>4. Len(Top.groups) = 1 => ToSet(Top.groups) = {Top.groups[1]}
      BY GroupsType DEF Frames
    <3>5. \/ MidinfoFor(Top.groups) = ToSet(Top.groups)
          \/ Top.groups = <<group>> /\ MidinfoFor(Top.groups) = {group}
      BY DEF MidinfoFor, IsSelected, LoadedTogether
    <3>6. Len(Top.groups) = 1 => MidinfoFor(Top.groups) = {Top.groups[1]}
      BY <3>4, <3>5
    <3> HIDE DEF x, keeps
    <3> QED
      BY <3>1, <3>2, <3>3, <3>6 DEF LoadedTogether
  <2>7. Pending'
    <3>1. DoneIds' = DoneIds \cup Ids(Top.getinfos)
      <4> DEFINE Carried(w) == [want |-> w, used |-> Uses(Top.patinfos)]
                 new == {Carried(w) : w \in Top.getinfos}
      <4>1. \A w : Carried(w).want = w
        OBVIOUS
      <4>2. done' = done \cup new
        BY <2>1
      <4> HIDE DEF Carried
      <4>3. {d.want.id : d \in new} = {w.id : w \in Top.getinfos}
        BY <4>1
      <4> HIDE DEF new
      <4> QED
        BY <4>2, <4>3 DEF DoneIds, Ids
    <3>2. Ids(f.getinfos) = {}
      BY <2>2 DEF Ids
    <3>3. why # "end" /\ (why = "none" /\ errors = {} => Ids(asked) = DoneIds \cup Ids(Top.getinfos))
          /\ (why \in {"invalid", "error"} => errors # {})
      BY <2>1 DEF StackInv, Pending
    <3> QED
      BY <2>1, <2>2, <2>3, <3>1, <3>2, <3>3 DEF Pending, Ids
  <2> QED
    BY <2>4, <2>5, <2>6, <2>7 DEF StackInv
<1>5. CASE GroupListMode \/ XGroupListMode \/ SelectGroups \/ XGroups
  <2>1. phase = "perform" /\ UNCHANGED <<nntp, history>>
    BY <1>5 DEF GroupListMode, XGroupListMode, SelectGroups, XGroups, Performs
  <2>2. Goto("args") \/ (phase' = "listing" /\ UNCHANGED <<errors, why>>)
    BY <1>5 DEF GroupListMode, XGroupListMode, SelectGroups, XGroups, Listing
  <2>3. GoesOn /\ errors \subseteq errors' /\ phase' # "perform"
    BY <2>1, <2>2 DEF GoesOn, Goto
  <2>4. LoadedTogether'
    BY <2>1 DEF LoadedTogether, nntp
  <2> QED
    BY <1>5, <2>1, <2>3, <2>4, QuietSteps, QuietStep DEF nntp, history
<1>6. CASE UpdateGroups
  <2>1. phase = "perform" /\ phase' = "args" /\ why' = why /\ errors \subseteq errors'
        /\ UNCHANGED <<force_host, history>>
    BY <1>6 DEF UpdateGroups, Performs
  <2>2. LoadedTogether'
    BY <1>6 DEF UpdateGroups, Loads, LoadedTogether
  <2> QED
    BY <1>6, <2>1, <2>2, QuietSteps, QuietStep DEF GoesOn, history
<1>7. CASE Host
  <2>1. phase = "perform" /\ UNCHANGED <<group, gcache, midinfo, history>>
    BY <1>7 DEF Host, Performs
  <2>2. PICK f \in Frames :
           /\ OnTop(f) /\ f.host = force_host' /\ f.getinfos = Top.getinfos
           /\ f.badskip \ {"HOST"} = Top.badskip \ {"HOST"}
           /\ f.path = Top.path /\ f.temppath = Top.temppath /\ f.said = Top.said
           /\ Complain("user", "args") \/ (Goto("args") /\ f.badskip \subseteq Top.badskip)
    BY <1>7, HostStep
  <2>3. Len(stack') = Len(stack) /\ Top' = f /\ (Len(stack) = 2 => stack'[1] = stack[1])
    BY <2>2, OnTopIs DEF Typed, StackTyped
  <2>4. /\ GoesOn /\ errors \subseteq errors' /\ (phase' = "args" \/ phase' = "ending")
        /\ errors' # {} \/ f.badskip \subseteq Top.badskip
    BY <2>1, <2>2 DEF GoesOn, Goto, Complain
  <2>5. FramesInv'
    <3>1. f.badskip # {} => errors' # {}
      BY <2>4 DEF StackInv, FramesInv, FrameInv
    <3>2. StoresWhereSaid(f) /\ f.getinfos \subseteq asked
      BY <2>2 DEF StackInv, FramesInv, FrameInv, StoresWhereSaid
    <3> QED
      BY <2>1, <2>2, <2>3, <2>4, <3>1, <3>2 DEF StackInv, FramesInv, FrameInv, StoresWhereSaid, history
  <2>6. LoadedTogether' /\ StoredWhereSaid'
    BY <2>1 DEF StackInv, LoadedTogether, StoredWhereSaid, history
  <2>7. Pending'
    BY <2>1, <2>2, <2>3, <2>4 DEF StackInv, Pending, GoesOn, Ids, DoneIds, history
  <2> QED
    BY <2>5, <2>6, <2>7 DEF StackInv
<1>8. CASE ListFile
  <2>1. phase = "perform" /\ UNCHANGED <<nntp, history>> /\ Top.getinfos = {}
    BY <1>8 DEF ListFile, Performs, StackInv, Pending
  <2>2. /\ Complain("user", "args") \/ Goto("args")
        /\ \/ UNCHANGED stack
           \/ /\ Len(stack) = 1 /\ Len(stack') = 2 /\ stack'[1] = stack[1]
              /\ Top'.getinfos = {} /\ Top'.host = Top.host /\ Top'.badskip = Top.badskip
              /\ Top'.path = Top.path /\ Top'.temppath = Top.temppath /\ Top'.said = Top.said
    BY <1>8, ListFileStep
  <2>3. GoesOn /\ errors \subseteq errors' /\ (phase' = "args" \/ phase' = "ending")
    BY <2>1, <2>2 DEF GoesOn, Goto, Complain
  <2>4. LoadedTogether' /\ StoredWhereSaid'
    BY <2>1 DEF StackInv, LoadedTogether, StoredWhereSaid, nntp, history
  <2>5. CASE UNCHANGED stack
    BY <2>1, <2>3, <2>4, <2>5, QuietStep DEF nntp, history
  <2>6. CASE /\ Len(stack) = 1 /\ Len(stack') = 2 /\ stack'[1] = stack[1]
             /\ Top'.getinfos = {} /\ Top'.host = Top.host /\ Top'.badskip = Top.badskip
             /\ Top'.path = Top.path /\ Top'.temppath = Top.temppath /\ Top'.said = Top.said
    <3>1. stack[1] = Top
      BY <2>6 DEF Top
    <3>2. FramesInv'
      BY <2>1, <2>3, <2>6, <3>1 DEF StackInv, FramesInv, FrameInv, StoresWhereSaid, nntp, history
    <3>3. Pending'
      BY <2>1, <2>3, <2>6 DEF StackInv, Pending, GoesOn, Ids, DoneIds, history
    <3> QED
      BY <2>4, <3>2, <3>3 DEF StackInv
  <2> QED
    BY <2>2, <2>5, <2>6
<1>9. CASE End
  BY <1>9, ReturnStack DEF End
<1> QED
  BY <1>1, <1>2, <1>3, <1>4, <1>5, <1>6, <1>7, <1>8, <1>9 DEF PerformsOption

-----------------------------------------------------------------------------
(* The list of newsgroups, in memory and in its file.                       *)

DatesKnown(l) == \A s \in DOMAIN l.date : l.date[s] # NoDate => {s} \X l.date[s] \subseteq Pairs(l)

\* What servers told (L) is in a list or file, and of a server that was flushed
\* (F) nothing else is.
KeptBy(l, L, F) == L \subseteq Pairs(l) /\ \A p \in Pairs(l) : p[1] \in F => p \in L

\* A list that goes with the file: while it does not have to be saved the file
\* has the same groups for the servers that are configured.
GoesWith(l, file, servers, L, F) ==
  /\ KeptBy(l, L, F) /\ F \subseteq servers
  /\ l.saveit = FALSE => {p \in Pairs(file) : p[1] \in servers} = Pairs(l)

ListTyped ==
  /\ listfile \in Files /\ (glist = Unloaded \/ glist \in GroupLists)
  /\ phase = "listing" => glist \in GroupLists /\ job \in Jobs

\* The date a server was asked for goes with groups it has.
JobInv == phase = "listing" /\ job.at # NoServer => job.newdate # NoDate /\ job.newdate \subseteq carried[job.at]

ListHeld ==
  /\ glist = Unloaded => learnt = {} /\ flushed = {}
  /\ glist # Unloaded /\ glist.named = TRUE => GoesWith(glist, listfile, configured, learnt, flushed)
  /\ glist # Unloaded /\ glist.named = FALSE => KeptBy(listfile, learnt, flushed)

ListInv ==
  /\ ListTyped /\ JobInv /\ DatesKnown(listfile) /\ (glist # Unloaded => DatesKnown(glist))
  /\ phase # "exited" => ListHeld
  /\ phase = "exited" /\ why # "killed" => KeptBy(listfile, learnt, flushed)

\* Reading the file and writing it keep what is known.
LEMMA LoadedKnown ==
  ASSUME NEW file \in Files, NEW servers \in SUBSET Server, DatesKnown(file)
  PROVE  DatesKnown(Loaded(file, servers)) /\ GoesWith(Loaded(file, servers), file, servers, {}, {})
<1> DEFINE l == Loaded(file, servers)
<1>1. /\ Pairs(l) = {p \in Pairs(file) : p[1] \in servers} /\ l.saveit = FALSE
      /\ DOMAIN l.date = DOMAIN file.date \cap servers
      /\ \A s \in DOMAIN file.date \cap servers : l.date[s] = file.date[s]
  BY LoadedIs
<1> HIDE DEF l
<1>2. ASSUME NEW s \in DOMAIN l.date, l.date[s] # NoDate, NEW g \in l.date[s]
      PROVE  <<s, g>> \in Pairs(l)
  <2>1. <<s, g>> \in Pairs(file)
    BY <1>1, <1>2 DEF DatesKnown
  <2> QED
    BY <1>1, <2>1
<1>3. DatesKnown(l)
  BY <1>2 DEF DatesKnown
<1>4. GoesWith(l, file, servers, {}, {})
  BY <1>1 DEF GoesWith, KeptBy
<1> QED
  BY <1>3, <1>4 DEF l

LEMMA SavedKnown ==
  ASSUME NEW l \in GroupLists, NEW file \in Files, DatesKnown(l), DatesKnown(file)
  PROVE  DatesKnown(Saved(l, file))
<1>1. Saved(l, file) = file \/ (Saved(l, file).date = l.date /\ Pairs(Saved(l, file)) = Pairs(l))
  BY SavedIs
<1> QED
  BY <1>1 DEF DatesKnown

LEMMA SavedKept ==
  ASSUME NEW l \in GroupLists, NEW file \in Files, NEW servers, NEW L, NEW F,
         l.named = TRUE => GoesWith(l, file, servers, L, F),
         l.named = FALSE => KeptBy(file, L, F)
  PROVE  KeptBy(Saved(l, file), L, F)
<1>1. l.named \in BOOLEAN /\ l.saveit \in BOOLEAN
  BY DEF GroupLists
<1>2. CASE l.named = TRUE /\ l.saveit = TRUE
  <2>1. Pairs(Saved(l, file)) = Pairs(l)
    BY <1>2, SavedIs
  <2> QED
    BY <1>2, <2>1 DEF GoesWith, KeptBy
<1>3. CASE l.named = TRUE /\ l.saveit = FALSE
  <2>1. Saved(l, file) = file
    BY <1>3, SavedIs
  <2>2. KeptBy(l, L, F) /\ F \subseteq servers /\ {p \in Pairs(file) : p[1] \in servers} = Pairs(l)
    BY <1>3 DEF GoesWith
  <2> QED
    BY <2>1, <2>2 DEF KeptBy
<1>4. CASE l.named = FALSE
  BY <1>4, SavedIs
<1> QED
  BY <1>1, <1>2, <1>3, <1>4

\* What a server tells is added.
LEMMA ListedKnown ==
  ASSUME NEW l \in GroupLists, DatesKnown(l), NEW s \in Server, NEW G \in SUBSET Newsgroup
  PROVE  DatesKnown(Listed(l, s, G))
<1>1. Pairs(Listed(l, s, G)) = Pairs(l) \cup Told(s, G) /\ Listed(l, s, G).date = l.date
  BY ListedAdds
<1> QED
  BY <1>1 DEF DatesKnown

LEMMA ListedGoesWith ==
  ASSUME NEW l \in GroupLists, NEW s \in Server, NEW G \in SUBSET Newsgroup,
         NEW file, NEW servers, NEW L, NEW F, GoesWith(l, file, servers, L, F)
  PROVE  GoesWith(Listed(l, s, G), file, servers, L \cup Told(s, G), F)
<1>1. /\ Pairs(Listed(l, s, G)) = Pairs(l) \cup Told(s, G)
      /\ Listed(l, s, G).saveit = FALSE => l.saveit = FALSE /\ Pairs(Listed(l, s, G)) = Pairs(l)
  BY ListedAdds
<1> QED
  BY <1>1 DEF GoesWith, KeptBy

\* A date is known when all of what the server had by then is.
LEMMA WithDateKnown ==
  ASSUME NEW l \in GroupLists, DatesKnown(l), NEW s \in Server, NEW d \in Dates,
         d # NoDate => {s} \X d \subseteq Pairs(l)
  PROVE  DatesKnown(WithDate(l, s, d))
<1>1. /\ Pairs(WithDate(l, s, d)) = Pairs(l)
      /\ DOMAIN WithDate(l, s, d).date = DOMAIN l.date \cup {s}
      /\ WithDate(l, s, d).date[s] = d
      /\ \A t \in DOMAIN l.date \ {s} : WithDate(l, s, d).date[t] = l.date[t]
  BY WithDateIs
<1> QED
  BY <1>1 DEF DatesKnown

LEMMA DescribedKnown ==
  ASSUME NEW l \in GroupLists, DatesKnown(l), NEW s \in Server, NEW G \in SUBSET Newsgroup
  PROVE  /\ Described(l, s, G, "about") \in GroupLists /\ DatesKnown(Described(l, s, G, "about"))
         /\ Described(l, s, G, "about").named = l.named
         /\ \A file, servers, L, F :
              GoesWith(l, file, servers, L, F) => GoesWith(Described(l, s, G, "about"), file, servers, L, F)
<1> DEFINE new == Described(l, s, G, "about")
<1>1. /\ new \in GroupLists /\ Pairs(new) = Pairs(l) /\ new.named = l.named /\ new.date = l.date
      /\ new.saveit = FALSE => l.saveit = FALSE
  BY DescribedIs DEF Descriptions
<1> HIDE DEF new
<1>2. DatesKnown(new)
  BY <1>1 DEF DatesKnown
<1>3. \A file, servers, L, F : GoesWith(l, file, servers, L, F) => GoesWith(new, file, servers, L, F)
  BY <1>1 DEF GoesWith, KeptBy
<1> QED
  BY <1>1, <1>2, <1>3 DEF new

LEMMA FlushedKnown ==
  ASSUME NEW l \in GroupLists, DatesKnown(l), NEW s \in Server
  PROVE  DatesKnown(Flushed(l, s))
<1> DEFINE new == Flushed(l, s)
<1>1. /\ Pairs(new) = {p \in Pairs(l) : p[1] # s} /\ DOMAIN new.date = DOMAIN l.date \ {s}
      /\ \A t \in DOMAIN l.date \ {s} : new.date[t] = l.date[t]
  BY FlushedForgets
<1> HIDE DEF new
<1>2. ASSUME NEW t \in DOMAIN new.date, new.date[t] # NoDate, NEW g \in new.date[t]
      PROVE  <<t, g>> \in Pairs(new)
  <2>1. <<t, g>> \in Pairs(l) /\ t # s
    BY <1>1, <1>2 DEF DatesKnown
  <2> QED
    BY <1>1, <2>1
<1>3. DatesKnown(new)
  BY <1>2 DEF DatesKnown
<1> QED
  BY <1>3 DEF new

LEMMA FlushedGoesWith ==
  ASSUME NEW l \in GroupLists, NEW s \in Server, NEW file, NEW servers, s \in servers, NEW L, NEW F,
         GoesWith(l, file, servers, L, F)
  PROVE  GoesWith(Flushed(l, s), file, servers, {p \in L : p[1] # s}, F \cup {s})
<1>1. /\ Pairs(Flushed(l, s)) = {p \in Pairs(l) : p[1] # s}
      /\ Flushed(l, s).saveit = FALSE => l.saveit = FALSE /\ Pairs(Flushed(l, s)) = Pairs(l)
  BY FlushedForgets
<1> QED
  BY <1>1 DEF GoesWith, KeptBy

LEMMA InitList == Init => ListInv
<1> SUFFICES ASSUME Init PROVE ListInv
  OBVIOUS
<1>1. listfile = NoFile /\ glist = Unloaded /\ learnt = {} /\ flushed = {} /\ phase = "exited"
  BY DEF Init
<1>2. NoFile \in Files /\ DOMAIN NoFile.date = {} /\ Pairs(NoFile) = {}
  BY NoFileType
<1> QED
  BY <1>1, <1>2 DEF ListInv, ListTyped, JobInv, DatesKnown, KeptBy

\* A step that leaves the list alone.
LEMMA QuietList ==
  ASSUME ListInv, UNCHANGED <<configured, carried, list>>, phase # "exited", phase' # "exited",
         phase' = "listing" => phase = "listing" /\ UNCHANGED job
  PROVE  ListInv'
  BY DEF ListInv, ListTyped, JobInv, ListHeld, list

LEMMA OuterList ==
  ASSUME Typed, ListInv, Outer
  PROVE  ListInv'
<1> USE DEF ListTyped, JobInv
<1>1. CASE Start
  <2>1. glist' = Unloaded /\ learnt' = {} /\ flushed' = {} /\ UNCHANGED listfile /\ phase' \in {"args", "ending"}
    BY <1>1, StartIs DEF Start
  <2> QED
    BY <2>1 DEF ListInv, ListHeld
<1>2. CASE Exit
  <2>1. /\ listfile' = IF glist = Unloaded THEN listfile ELSE Saved(glist, listfile)
        /\ phase = "ending" /\ phase' = "exited" /\ UNCHANGED <<glist, learnt, flushed>>
    BY <1>2 DEF Exit
  <2>2. CASE glist = Unloaded
    BY <2>1, <2>2 DEF ListInv, ListHeld, KeptBy
  <2>3. CASE glist # Unloaded
    <3>1. glist \in GroupLists /\ listfile \in Files /\ DatesKnown(glist) /\ DatesKnown(listfile)
      BY <2>3 DEF ListInv
    <3>2. /\ glist.named = TRUE => GoesWith(glist, listfile, configured, learnt, flushed)
          /\ glist.named = FALSE => KeptBy(listfile, learnt, flushed)
      BY <2>1, <2>3 DEF ListInv, ListHeld
    <3>3. Saved(glist, listfile) \in Files /\ DatesKnown(Saved(glist, listfile))
      BY <3>1, SavedIs, SavedKnown
    <3>4. KeptBy(Saved(glist, listfile), learnt, flushed)
      BY <3>1, <3>2, SavedKept
    <3> QED
      BY <2>1, <2>3, <3>1, <3>3, <3>4 DEF ListInv
  <2> QED
    BY <2>2, <2>3
<1>3. CASE Signal
  BY <1>3, QuietList DEF Signal, world
<1>4. CASE Kill
  <2>1. UNCHANGED list /\ phase' = "exited" /\ why' = "killed"
    BY <1>4 DEF Kill
  <2> QED
    BY <2>1 DEF ListInv, list
<1>5. ASSUME NEW s \in Server, NEW g \in Newsgroup, Create(s, g) PROVE ListInv'
  <2>1. UNCHANGED <<configured, list, job, phase, why>> /\ carried' = [carried EXCEPT ![s] = @ \cup {g}]
    BY <1>5 DEF Create
  <2>2. \A t \in Server : carried[t] \subseteq carried'[t]
    BY <2>1 DEF Typed, WorldTyped
  <2>3. JobInv'
    <3>1. phase = "listing" => job.at \in Server \cup {NoServer}
      BY DEF ListInv, Jobs
    <3> QED
      BY <2>1, <2>2, <3>1 DEF ListInv
  <2> QED
    BY <2>1, <2>3 DEF ListInv, ListHeld, list
<1> QED
  BY <1>1, <1>2, <1>3, <1>4, <1>5 DEF Outer

LEMMA ReadsList ==
  ASSUME Typed, ListInv, ReadsOption
  PROVE  ListInv'
<1>1. CASE \/ Testmode \/ \E c \in {"r", "R"}, re \in {"good", "bad", "odd"} : NoteSearch(c, re) \/ NoteRetrieval(c, re)
           \/ \E s \in Server \cup {NoServer} : FlushRefused(s) \/ FlushHeaders(s)
  <2>1. phase = "args" /\ UNCHANGED <<world, list>> /\ (Goto("args") \/ Complain("user", "args"))
    BY <1>1 DEF Testmode, NoteSearch, NoteRetrieval, FlushRefused, FlushHeaders, Flushes, Reads, shared
  <2>2. phase' \in {"args", "ending"}
    BY <2>1 DEF Goto, Complain
  <2> QED
    BY <2>1, <2>2, QuietList DEF world
<1>2. ASSUME NEW d \in Dir, Path(d) \/ TempPath(d) PROVE ListInv'
  <2>1. phase = "args"
    BY <1>2 DEF Path, TempPath, Reads
  <2>2. UNCHANGED <<world, list>> /\ (Goto("args") \/ Complain("path", "args"))
    BY <1>2, PathStep DEF shared
  <2>3. phase' \in {"args", "ending"}
    BY <2>2 DEF Goto, Complain
  <2> QED
    BY <2>1, <2>2, <2>3, QuietList DEF world
<1>3. CASE Help \/ Invalid
  <2>1. phase = "args" /\ UNCHANGED <<world, list>> /\ phase' \in {"args", "ending"}
    BY <1>3 DEF Help, Invalid, Reads, Return, shared
  <2> QED
    BY <2>1, QuietList DEF world
<1>4. ASSUME NEW s \in Server \cup {NoServer}, FlushGroupList(s) PROVE ListInv'
  <2> DEFINE l == IF glist = Unloaded THEN Loaded(listfile, configured) ELSE glist
  <2>1. /\ phase = "args" /\ phase' = "args" /\ s \in configured /\ UNCHANGED <<listfile, configured>>
        /\ glist' = Flushed(l, s)
        /\ learnt' = IF l.named THEN {p \in learnt : p[1] # s} ELSE learnt
        /\ flushed' = IF l.named THEN flushed \cup {s} ELSE flushed
    BY <1>4 DEF FlushGroupList, Flushes, Reads, Goto, world
  <2>2. listfile \in Files /\ configured \in SUBSET Server /\ DatesKnown(listfile) /\ ListHeld
    BY <2>1 DEF ListInv, ListTyped, Typed, WorldTyped
  <2>3. /\ l \in GroupLists /\ DatesKnown(l) /\ l.named \in BOOLEAN
        /\ l.named = TRUE => GoesWith(l, listfile, configured, learnt, flushed)
        /\ l.named = FALSE => KeptBy(listfile, learnt, flushed)
    <3>1. CASE glist = Unloaded
      BY <2>2, <3>1, LoadedIs, LoadedKnown DEF ListHeld
    <3>2. CASE glist # Unloaded
      BY <2>2, <3>2 DEF ListInv, ListTyped, ListHeld, GroupLists
    <3> QED
      BY <3>1, <3>2
  <2> HIDE DEF l
  <2>4. Flushed(l, s) \in GroupLists /\ DatesKnown(Flushed(l, s)) /\ Flushed(l, s).named = l.named
        /\ Flushed(l, s) # Unloaded
    <3>1. s \in Server
      BY <2>1, <2>2
    <3>2. Flushed(l, s) \in GroupLists /\ Flushed(l, s).named = l.named
      BY <2>3, <3>1, FlushedForgets
    <3> QED
      BY <2>3, <3>1, <3>2, FlushedKnown, CommandLineAssumption DEF CommandLineAssumption
  <2>5. ListHeld'
    <3>1. CASE l.named = TRUE
      <4>1. GoesWith(Flushed(l, s), listfile, configured, {p \in learnt : p[1] # s}, flushed \cup {s})
        BY <2>1, <2>2, <2>3, <3>1, FlushedGoesWith
      <4>2. learnt' = {p \in learnt : p[1] # s} /\ flushed' = flushed \cup {s}
        BY <2>1, <3>1
      <4> QED
        BY <2>1, <2>4, <3>1, <4>1, <4>2 DEF ListHeld
    <3>2. CASE l.named = FALSE
      BY <2>1, <2>3, <2>4, <3>2 DEF ListHeld
    <3> QED
      BY <2>3, <3>1, <3>2
  <2> QED
    BY <2>1, <2>2, <2>4, <2>5 DEF ListInv, ListTyped, JobInv
<1> QED
  BY <1>1, <1>2, <1>3, <1>4 DEF ReadsOption

\* An update of the list starts.
LEMMA ListingStarts ==
  ASSUME Typed, ListInv, phase \notin {"listing", "exited"},
         NEW kind \in {"a", "X"}, NEW then \in {"retrieve", "args"}, Listing(kind, then),
         UNCHANGED <<configured, carried>>
  PROVE  ListInv'
<1> DEFINE servers == IF force_host # NoServer THEN {force_host} ELSE configured
<1>1. /\ phase' = "listing" /\ UNCHANGED <<learnt, flushed>>
      /\ kind = "X" => glist' = NewList(FALSE)
                       /\ listfile' = IF glist # Unloaded THEN Saved(glist, listfile) ELSE listfile
      /\ kind = "a" => glist' = (IF glist = Unloaded THEN Loaded(listfile, configured) ELSE glist)
                       /\ listfile' = listfile
      /\ job' = [kind |-> kind, todo |-> servers, round |-> servers, redone |-> 0, ok |-> FALSE,
                 at |-> NoServer, step |-> "list", newdate |-> NoDate, then |-> then]
  BY DEF Listing
<1>2. job' \in Jobs /\ job'.at = NoServer
  <2>1. servers \in SUBSET Server
    BY DEF Typed, WorldTyped, NntpTyped
  <2> HIDE DEF servers
  <2>2. job' = [kind |-> kind, todo |-> servers, round |-> servers, redone |-> 0, ok |-> FALSE,
                at |-> NoServer, step |-> "list", newdate |-> NoDate, then |-> then]
    BY <1>1
  <2>3. kind \in {"a", "X"} /\ then \in {"retrieve", "args"} /\ 0 \in Nat
    OBVIOUS
  <2>4. NoServer \in Server \cup {NoServer} /\ NoDate \in Dates
    BY DEF Dates
  <2>5. FALSE \in BOOLEAN /\ "list" \in {"list", "describe"}
    OBVIOUS
  <2> QED
    BY <2>1, <2>2, <2>3, <2>4, <2>5, Zenon DEF Jobs
<1> HIDE DEF servers
<1>3. ListHeld /\ listfile \in Files /\ DatesKnown(listfile) /\ configured \in SUBSET Server
      /\ (glist # Unloaded => glist \in GroupLists /\ DatesKnown(glist) /\ glist.named \in BOOLEAN)
  BY DEF ListInv, ListTyped, Typed, WorldTyped, GroupLists
<1>4. JobInv'
  BY <1>2 DEF JobInv
<1>5. CASE kind = "X"
  <2>1. /\ NewList(FALSE) \in GroupLists /\ NewList(FALSE).named = FALSE /\ DatesKnown(NewList(FALSE))
        /\ NewList(FALSE) # Unloaded
    BY NewListType, CommandLineAssumption DEF DatesKnown, CommandLineAssumption
  <2>2. listfile' \in Files /\ DatesKnown(listfile') /\ KeptBy(listfile', learnt, flushed)
    <3>1. CASE glist = Unloaded
      BY <1>1, <1>3, <1>5, <3>1 DEF ListHeld, KeptBy
    <3>2. CASE glist # Unloaded
      <4>1. /\ glist.named = TRUE => GoesWith(glist, listfile, configured, learnt, flushed)
            /\ glist.named = FALSE => KeptBy(listfile, learnt, flushed)
        BY <1>3, <3>2 DEF ListHeld
      <4>2. listfile' = Saved(glist, listfile)
        BY <1>1, <1>5, <3>2
      <4>3. Saved(glist, listfile) \in Files /\ DatesKnown(Saved(glist, listfile))
        BY <1>3, <3>2, SavedIs, SavedKnown
      <4>4. KeptBy(Saved(glist, listfile), learnt, flushed)
        BY <1>3, <3>2, <4>1, SavedKept
      <4> QED
        BY <4>2, <4>3, <4>4
    <3> QED
      BY <3>1, <3>2
  <2> QED
    BY <1>1, <1>2, <1>4, <1>5, <2>1, <2>2 DEF ListInv, ListTyped, ListHeld
<1>6. CASE kind = "a"
  <2>1. CASE glist = Unloaded
    <3> DEFINE l == Loaded(listfile, configured)
    <3>1. l \in GroupLists /\ l.named = TRUE /\ l # Unloaded
      BY <1>3, LoadedIs, CommandLineAssumption DEF CommandLineAssumption
    <3>2. DatesKnown(l) /\ GoesWith(l, listfile, configured, {}, {})
      BY <1>3, LoadedKnown
    <3>3. glist' = l /\ learnt' = {} /\ flushed' = {} /\ UNCHANGED <<listfile, configured>>
      BY <1>1, <1>3, <1>6, <2>1 DEF ListHeld
    <3> HIDE DEF l
    <3>4. ListHeld'
      BY <3>1, <3>2, <3>3 DEF ListHeld
    <3> QED
      BY <1>1, <1>2, <1>3, <1>4, <3>1, <3>2, <3>3, <3>4 DEF ListInv, ListTyped
  <2>2. CASE glist # Unloaded
    <3>1. UNCHANGED <<glist, listfile, learnt, flushed, configured>>
      BY <1>1, <1>6, <2>2
    <3> QED
      BY <1>1, <1>2, <1>3, <1>4, <2>2, <3>1 DEF ListInv, ListTyped, ListHeld
  <2> QED
    BY <2>1, <2>2
<1> QED
  BY <1>5, <1>6

LEMMA PerformsList ==
  ASSUME Typed, ListInv, PerformsOption
  PROVE  ListInv'
<1>1. CASE \E o \in style.options \cup {<<"end", NoArg>>} : Defer(o)
  <2>1. phase = "args" /\ phase' = "search" /\ UNCHANGED <<world, list>>
    BY <1>1 DEF Defer, Reads
  <2> QED
    BY <2>1, QuietList DEF world
<1>2. CASE Search
  <2>1. phase = "search" /\ UNCHANGED world
    BY <1>2 DEF Search
  <2>2. CASE Listing("X", "retrieve")
    BY <2>1, <2>2, ListingStarts DEF world
  <2>3. CASE ~Listing("X", "retrieve")
    <3>1. UNCHANGED list /\ (Goto("retrieve") \/ Complain("user", "retrieve"))
      BY <1>2, <2>3 DEF Search
    <3>2. phase' \in {"retrieve", "ending"}
      BY <3>1 DEF Goto, Complain
    <3> QED
      BY <2>1, <3>1, <3>2, QuietList DEF world
  <2> QED
    BY <2>2, <2>3
<1>3. CASE NothingPending \/ Retrieve
  <2>1. phase = "retrieve" /\ phase' = "perform" /\ UNCHANGED <<world, list>>
    BY <1>3 DEF NothingPending, Retrieve, shared, Goto
  <2> QED
    BY <2>1, QuietList DEF world
<1>4. CASE GroupListMode
  <2>1. phase = "perform" /\ UNCHANGED world
    BY <1>4 DEF GroupListMode, Performs
  <2>2. CASE Listing("a", "args")
    BY <2>1, <2>2, ListingStarts DEF world
  <2>3. CASE ~Listing("a", "args")
    <3>1. UNCHANGED list /\ phase' = "args"
      BY <1>4, <2>3 DEF GroupListMode, Goto
    <3> QED
      BY <2>1, <3>1, QuietList DEF world
  <2> QED
    BY <2>2, <2>3
<1>5. CASE XGroupListMode \/ UpdateGroups \/ SelectGroups \/ XGroups
  <2>1. phase = "perform" /\ phase' = "args" /\ UNCHANGED <<world, list>>
    BY <1>5 DEF XGroupListMode, UpdateGroups, SelectGroups, XGroups, Performs, Goto
  <2> QED
    BY <2>1, QuietList DEF world
<1>6. CASE Host \/ ListFile
  <2>1. phase = "perform" /\ UNCHANGED <<world, list>> /\ (Goto("args") \/ Complain("user", "args"))
    BY <1>6 DEF Host, ListFile, Performs
  <2>2. phase' \in {"args", "ending"}
    BY <2>1 DEF Goto, Complain
  <2> QED
    BY <2>1, <2>2, QuietList DEF world
<1>7. CASE End
  <2>1. phase = "perform" /\ phase' \in {"args", "ending"} /\ UNCHANGED <<world, list>>
    BY <1>7 DEF End, Return
  <2> QED
    BY <2>1, QuietList DEF world
<1> QED
  BY <1>1, <1>2, <1>3, <1>4, <1>5, <1>6, <1>7 DEF PerformsOption

\* A reply, or part of one, is added to the list.
LEMMA HeardIs ==
  ASSUME ListInv, phase = "listing", NEW s \in Server, NEW G \in SUBSET Newsgroup,
         UNCHANGED <<listfile, configured, flushed>>, learnt' = Learnt(s, G),
         NEW l \in GroupLists, l.named = Listed(glist, s, G).named,
         \A file, servers, L, F : GoesWith(Listed(glist, s, G), file, servers, L, F) => GoesWith(l, file, servers, L, F),
         glist' = l
  PROVE  ListHeld'
<1>1. glist \in GroupLists /\ glist # Unloaded /\ l # Unloaded /\ glist.named \in BOOLEAN
  BY CommandLineAssumption DEF CommandLineAssumption, ListInv, ListTyped, GroupLists
<1>2. l.named = glist.named
  BY <1>1, ListedAdds
<1>3. CASE glist.named = TRUE
  <2>1. learnt' = learnt \cup Told(s, G)
    BY <1>3 DEF Learnt, Told
  <2>2. GoesWith(glist, listfile, configured, learnt, flushed)
    BY <1>1, <1>3 DEF ListInv, ListHeld
  <2>3. GoesWith(l, listfile, configured, learnt \cup Told(s, G), flushed)
    BY <1>1, <2>2, ListedGoesWith
  <2> QED
    BY <1>1, <1>2, <1>3, <2>1, <2>3 DEF ListHeld
<1>4. CASE glist.named = FALSE
  <2>1. learnt' = learnt
    BY <1>4 DEF Learnt
  <2>2. KeptBy(listfile, learnt, flushed)
    BY <1>1, <1>4 DEF ListInv, ListHeld
  <2> QED
    BY <1>1, <1>2, <1>4, <2>1, <2>2 DEF ListHeld
<1> QED
  BY <1>1, <1>3, <1>4

LEMMA ReplyIs ==
  ASSUME Typed, ListInv, phase = "listing", NEW s \in Server
  PROVE  /\ Reply(s) \subseteq carried[s] /\ carried[s] \subseteq Newsgroup
         /\ Told(s, carried[s]) \subseteq Pairs(glist) \cup Told(s, Reply(s))
<1>1. carried[s] \subseteq Newsgroup
  BY DEF Typed, WorldTyped
<1>2. Reply(s) \subseteq carried[s]
  BY DEF Reply
<1>3. DatesKnown(glist)
  BY CommandLineAssumption DEF ListInv, ListTyped, CommandLineAssumption
<1>4. ASSUME NEW g \in carried[s] PROVE <<s, g>> \in Pairs(glist) \/ g \in Reply(s)
  <2>1. CASE g \in Reply(s)
    BY <2>1
  <2>2. CASE g \notin Reply(s)
    <3>1. DateOf(glist, s) # NoDate /\ g \in DateOf(glist, s)
      BY <2>2 DEF Reply
    <3>2. s \in DOMAIN glist.date /\ glist.date[s] # NoDate /\ g \in glist.date[s]
      BY <3>1 DEF DateOf
    <3> QED
      BY <1>3, <3>2 DEF DatesKnown
  <2> QED
    BY <2>1, <2>2
<1> QED
  BY <1>1, <1>2, <1>4 DEF Told

LEMMA AsksList ==
  ASSUME Typed, ListInv, AsksServers
  PROVE  ListInv'
<1>1. phase = "listing" /\ phase' \in {"listing", "retrieve", "args"} /\ UNCHANGED world
  BY ListingStepTyped DEF ListInv, ListTyped
<1>2. /\ glist \in GroupLists /\ glist # Unloaded /\ DatesKnown(glist) /\ glist.named \in BOOLEAN
      /\ listfile \in Files /\ DatesKnown(listfile) /\ ListHeld /\ job \in Jobs
  BY <1>1, CommandLineAssumption DEF CommandLineAssumption, ListInv, ListTyped, GroupLists
<1>3. ASSUME NEW s \in Server, AskDate(s) PROVE ListInv'
  <2>1. /\ UNCHANGED <<list, phase>> /\ job' = [job EXCEPT !.at = s, !.step = "list", !.newdate = carried[s]]
    BY <1>3 DEF AskDate, Lists, list
  <2>2. carried[s] \in SUBSET Newsgroup /\ carried[s] # NoDate
    BY GroupListAssumption DEF Typed, WorldTyped, GroupListAssumption
  <2>3. job' \in Jobs /\ job'.at = s /\ job'.newdate = carried[s]
    BY <1>2, <2>1, <2>2 DEF Jobs, Dates
  <2> QED
    BY <1>1, <1>2, <2>1, <2>2, <2>3 DEF ListInv, ListTyped, JobInv, ListHeld, list, world
<1>4. ASSUME NEW s \in Server, ListGroups(s) PROVE ListInv'
  <2> DEFINE G == Reply(s)
             l == Listed(glist, s, G)
             new == IF job.kind = "a" THEN WithDate(l, s, job.newdate) ELSE l
  <2>1. /\ UNCHANGED <<listfile, flushed, phase>> /\ job.at = s /\ glist' = new /\ learnt' = Learnt(s, G)
        /\ job' = [job EXCEPT !.step = "describe"]
    BY <1>4 DEF ListGroups, Lists
  <2>2. G \in SUBSET Newsgroup /\ Told(s, carried[s]) \subseteq Pairs(glist) \cup Told(s, G)
    BY <1>1, ReplyIs
  <2> HIDE DEF G
  <2>3. l \in GroupLists /\ DatesKnown(l)
    BY <1>2, <2>2, ListedAdds, ListedKnown
  <2>4. job.newdate \in Dates /\ Told(s, job.newdate) \subseteq Pairs(l)
    <3>1. Pairs(l) = Pairs(glist) \cup Told(s, G)
      BY <1>2, <2>2, ListedAdds
    <3>2. job.newdate \subseteq carried[s] /\ job.newdate \in Dates
      BY <1>1, <1>2, <2>1, CommandLineAssumption DEF CommandLineAssumption, ListInv, JobInv, Jobs, Dates
    <3>3. Told(s, job.newdate) \subseteq Told(s, carried[s])
      BY <3>2 DEF Told
    <3> QED
      BY <2>2, <3>1, <3>2, <3>3
  <2> HIDE DEF l
  <2>5. /\ new \in GroupLists /\ DatesKnown(new) /\ new.named = l.named
        /\ Pairs(new) = Pairs(l) /\ new.saveit = l.saveit
    BY <2>3, <2>4, WithDateIs, WithDateKnown DEF Told
  <2> HIDE DEF new
  <2>6. \A file, servers, L, F : GoesWith(l, file, servers, L, F) => GoesWith(new, file, servers, L, F)
    BY <2>5 DEF GoesWith, KeptBy
  <2>7. ListHeld'
    BY <1>1, <2>1, <2>2, <2>5, <2>6, HeardIs DEF l, world
  <2>8. job' \in Jobs /\ JobInv'
    BY <1>1, <1>2, <2>1 DEF Jobs, ListInv, JobInv, world
  <2> QED
    BY <1>1, <1>2, <2>1, <2>5, <2>7, <2>8 DEF ListInv, ListTyped
<1>5. ASSUME NEW s \in Server, NEW G \in SUBSET Newsgroup, glist' = Described(glist, s, G, "about"),
             UNCHANGED <<listfile, learnt, flushed>>, phase' = "listing", job' \in Jobs, JobInv'
      PROVE  ListInv'
  <2> DEFINE new == Described(glist, s, G, "about")
  <2>1. /\ new \in GroupLists /\ DatesKnown(new) /\ new.named = glist.named
        /\ \A file, servers, L, F :
             GoesWith(glist, file, servers, L, F) => GoesWith(new, file, servers, L, F)
    BY <1>2, DescribedKnown
  <2>2. glist' = new
    BY <1>5
  <2> HIDE DEF new
  <2>3. new # Unloaded
    BY <2>1, CommandLineAssumption DEF CommandLineAssumption
  <2>4. ListHeld'
    BY <1>1, <1>2, <1>5, <2>1, <2>2, <2>3 DEF ListHeld, world
  <2> QED
    BY <1>2, <1>5, <2>1, <2>2, <2>4 DEF ListInv, ListTyped
<1>6. ASSUME NEW s \in Server, Describe(s) PROVE ListInv'
  <2>1. PICK G \in {{}, carried[s]} : glist' = Described(glist, s, G, "about")
    BY <1>6 DEF Describe
  <2>2. G \in SUBSET Newsgroup
    BY DEF Typed, WorldTyped
  <2>3. /\ UNCHANGED <<listfile, flushed, learnt, phase>>
        /\ job' = [job EXCEPT !.at = NoServer, !.ok = TRUE, !.round = @ \ {s}, !.todo = @ \ {s}]
    BY <1>6 DEF Describe, Lists
  <2>4. job' \in Jobs /\ job'.at = NoServer
    BY <1>2, <2>3 DEF Jobs
  <2> QED
    BY <1>1, <1>5, <2>1, <2>2, <2>3, <2>4 DEF JobInv
<1>7. ASSUME NEW s \in Server, NEW fatal \in BOOLEAN, Fail(s, fatal) PROVE ListInv'
  <2>1. /\ UNCHANGED <<listfile, flushed, phase>>
        /\ job' = [job EXCEPT !.at = NoServer, !.round = @ \ {s}, !.todo = IF fatal THEN @ \ {s} ELSE @]
    BY <1>7 DEF Fail, Lists
  <2>2. job' \in Jobs /\ job'.at = NoServer
    <3> DEFINE todo == IF fatal THEN job.todo \ {s} ELSE job.todo
    <3>1. todo \in SUBSET Server
      BY <1>2 DEF Jobs
    <3>2. job' = [job EXCEPT !.at = NoServer, !.round = @ \ {s}, !.todo = todo]
      BY <2>1
    <3> HIDE DEF todo
    <3> QED
      BY <1>2, <3>1, <3>2 DEF Jobs
  <2>3. JobInv'
    BY <2>2 DEF JobInv
  <2>4. Reply(s) \subseteq Newsgroup /\ carried[s] \subseteq Newsgroup
    BY <1>1, ReplyIs
  <2>5. CASE UNCHANGED <<glist, learnt>>
    BY <1>1, <1>2, <2>1, <2>2, <2>3, <2>5 DEF ListInv, ListTyped, ListHeld, world
  <2>6. ASSUME NEW part \in SUBSET Reply(s), Hears(s, part) PROVE ListInv'
    <3> DEFINE new == Listed(glist, s, part)
    <3>1. part \in SUBSET Newsgroup
      BY <2>4
    <3>2. new \in GroupLists /\ DatesKnown(new)
      BY <1>2, <3>1, ListedAdds, ListedKnown
    <3>3. glist' = new /\ learnt' = Learnt(s, part)
      BY <2>6 DEF Hears
    <3>4. ListHeld'
      BY <1>1, <2>1, <3>1, <3>2, <3>3, HeardIs DEF world
    <3> HIDE DEF new
    <3> QED
      BY <1>1, <1>2, <2>1, <2>2, <2>3, <3>2, <3>3, <3>4 DEF ListInv, ListTyped
  <2>7. ASSUME NEW part \in SUBSET carried[s], glist' = Described(glist, s, part, "about"), UNCHANGED learnt
        PROVE  ListInv'
    BY <1>1, <1>5, <2>1, <2>2, <2>3, <2>4, <2>7
  <2> QED
    BY <1>7, <2>5, <2>6, <2>7 DEF Fail
<1>8. CASE NextRound
  <2>1. UNCHANGED <<list, phase>> /\ job.at = NoServer /\ job' = [job EXCEPT !.round = job.todo, !.redone = @ + 1]
    BY <1>8 DEF NextRound, Lists, list
  <2>2. job.todo \in SUBSET Server /\ job.redone + 1 \in Nat
    BY <1>2 DEF Jobs
  <2> DEFINE redone == job.redone + 1
  <2>3. job' = [job EXCEPT !.round = job.todo, !.redone = redone] /\ redone \in Nat
    BY <2>1, <2>2
  <2> HIDE DEF redone
  <2>4. job' \in Jobs /\ job'.at = NoServer
    BY <1>2, <2>1, <2>2, <2>3 DEF Jobs
  <2> QED
    BY <1>1, <1>2, <2>1, <2>4 DEF ListInv, ListTyped, JobInv, ListHeld, list, world
<1>9. CASE ListEnd
  <2>1. UNCHANGED list /\ phase' = job.then
    BY <1>9 DEF ListEnd, Lists, list
  <2>2. phase' \in {"retrieve", "args"}
    BY <1>2, <2>1 DEF Jobs
  <2> QED
    BY <1>1, <2>1, <2>2, QuietList DEF world
<1> QED
  BY <1>3, <1>4, <1>6, <1>7, <1>8, <1>9 DEF AsksServers

-----------------------------------------------------------------------------
(* The invariant, and what follows from it. *)

\* Servers are asked only while there is something to ask them for.
Idle == phase \notin {"listing", "ending", "exited"} => job = Unloaded

Inv == Typed /\ StackInv /\ ListInv /\ Idle

LEMMA IdleStep ==
  ASSUME Typed, Idle, Next
  PROVE  Idle'
<1>1. CASE Outer
  BY <1>1 DEF Outer, Start, Exit, Signal, Kill, Create, Idle
<1>2. CASE ReadsOption
  <2>1. phase = "args" /\ UNCHANGED job
    <3> USE DEF Reads, shared
    <3>1. CASE Testmode
      BY <3>1 DEF Testmode
    <3>2. CASE Help \/ Invalid
      BY <3>2 DEF Help, Invalid, Return
    <3>3. CASE \E c \in {"r", "R"}, re \in {"good", "bad", "odd"} : NoteSearch(c, re) \/ NoteRetrieval(c, re)
      BY <3>3 DEF NoteSearch, NoteRetrieval
    <3>4. CASE \E d \in Dir : Path(d) \/ TempPath(d)
      BY <3>4 DEF Path, TempPath
    <3>5. CASE \E s \in Server \cup {NoServer} : FlushRefused(s) \/ FlushGroupList(s) \/ FlushHeaders(s)
      BY <3>5 DEF FlushRefused, FlushGroupList, FlushHeaders, Flushes
    <3> QED
      BY <1>2, <3>1, <3>2, <3>3, <3>4, <3>5 DEF ReadsOption
  <2>2. phase' \in Phases
    BY <1>2, OptionStepTyped DEF Typed, RestTyped
  <2> QED
    BY <2>1, <2>2 DEF Idle
<1>3. CASE PerformsOption
  <2> DEFINE Sets == (UNCHANGED job \/ phase' = "listing") /\ phase \in {"args", "search", "retrieve", "perform"}
  <2>1. ASSUME \E o \in style.options \cup {<<"end", NoArg>>} : Defer(o) PROVE Sets
    BY <2>1 DEF Defer, Reads
  <2>2. ASSUME Search PROVE Sets
    BY <2>2 DEF Search, Listing
  <2>3. ASSUME NothingPending \/ Retrieve PROVE Sets
    BY <2>3 DEF NothingPending, Retrieve, shared
  <2>4. ASSUME GroupListMode PROVE Sets
    BY <2>4 DEF GroupListMode, Performs, Listing
  <2>5. ASSUME XGroupListMode \/ UpdateGroups PROVE Sets
    BY <2>5 DEF XGroupListMode, UpdateGroups, Performs
  <2>6. ASSUME SelectGroups \/ XGroups PROVE Sets
    BY <2>6 DEF SelectGroups, XGroups, Performs
  <2>7. ASSUME Host \/ ListFile PROVE Sets
    BY <2>7 DEF Host, ListFile, Performs
  <2>8. ASSUME End PROVE Sets
    BY <2>8 DEF End, Return
  <2>9. Sets
    BY <1>3, <2>1, <2>2, <2>3, <2>4, <2>5, <2>6, <2>7, <2>8 DEF PerformsOption
  <2> QED
    BY <2>9 DEF Idle
<1>4. CASE AsksServers
  <2> DEFINE Sets == phase = "listing" /\ (phase' = phase \/ job' = Unloaded)
  <2>1. ASSUME NEW s \in Server, AskDate(s) PROVE Sets
    BY <2>1 DEF AskDate, Lists
  <2>2. ASSUME NEW s \in Server, ListGroups(s) PROVE Sets
    BY <2>2 DEF ListGroups, Lists
  <2>3. ASSUME NEW s \in Server, Describe(s) PROVE Sets
    BY <2>3 DEF Describe, Lists
  <2>4. ASSUME NEW s \in Server, NEW fatal \in BOOLEAN, Fail(s, fatal) PROVE Sets
    BY <2>4 DEF Fail, Lists
  <2>5. ASSUME NextRound \/ ListEnd PROVE Sets
    BY <2>5 DEF NextRound, ListEnd, Lists
  <2>6. Sets
    BY <1>4, <2>1, <2>2, <2>3, <2>4, <2>5 DEF AsksServers
  <2> QED
    BY <2>6 DEF Idle
<1> QED
  BY <1>1, <1>2, <1>3, <1>4, StepsAre

LEMMA InitInv == Init => Inv
  BY InitTyped, InitStack, InitList DEF Inv, Idle, Init

LEMMA NextInv ==
  ASSUME Inv, Next
  PROVE  Inv'
<1>1. Typed /\ StackInv /\ ListInv /\ Idle /\ (phase = "listing" => job \in Jobs)
  BY DEF Inv, ListInv, ListTyped
<1>2. Idle'
  BY <1>1, IdleStep
<1>3. CASE Outer
  BY <1>1, <1>2, <1>3, MainStepTyped, OuterStack, OuterList DEF Inv
<1>4. CASE ReadsOption
  BY <1>1, <1>2, <1>4, OptionStepTyped, ReadsStack, ReadsList DEF Inv
<1>5. CASE PerformsOption
  BY <1>1, <1>2, <1>5, PerformStepTyped, PerformsStack, PerformsList DEF Inv
<1>6. CASE AsksServers
  BY <1>1, <1>2, <1>6, ListingStepTyped, AsksStack, AsksList DEF Inv
<1> QED
  BY <1>3, <1>4, <1>5, <1>6, StepsAre

LEMMA StutterInv ==
  ASSUME Inv, UNCHANGED vars
  PROVE  Inv'
<1>1. UNCHANGED <<world, phase, stack, cur, nread, nntp, list, job, missing, errors, why, history>>
  BY DEF vars
<1>2. Typed'
  BY <1>1 DEF Inv, Typed, RestTyped, WorldTyped, CurTyped, StackTyped, NntpTyped, world, nntp
<1>3. StackInv'
  <2>1. FramesInv'
    BY <1>1 DEF Inv, StackInv, FramesInv, FrameInv, StoresWhereSaid, Top, nntp, history
  <2>2. LoadedTogether' /\ StoredWhereSaid'
    BY <1>1 DEF Inv, StackInv, LoadedTogether, StoredWhereSaid, nntp, history
  <2>3. Pending'
    BY <1>1 DEF Inv, StackInv, Pending, Ids, DoneIds, Top, history
  <2> QED
    BY <2>1, <2>2, <2>3 DEF StackInv
<1>4. ListInv'
  BY <1>1 DEF Inv, ListInv, ListTyped, JobInv, ListHeld, list, world
<1> QED
  BY <1>1, <1>2, <1>3, <1>4 DEF Inv, Idle

LEMMA Invariance == Spec => []Inv
<1>1. Init => Inv
  BY InitInv
<1>2. Inv /\ [Next]_vars => Inv'
  BY NextInv, StutterInv
<1> QED
  BY <1>1, <1>2, PTL DEF Spec

\* Types: there are one or two sets of options, and a forced server, a group and
\* caches are those there are (nget.cc main, do_args; prot_nntp.h c_prot_nntp).
THEOREM TypesAreRight == Spec => []TypeOK
<1>1. Inv => TypeOK
  <2> SUFFICES ASSUME Inv PROVE TypeOK
    OBVIOUS
  <2>1. \A i \in DOMAIN stack : DOMAIN stack[i] = DOMAIN FirstFrame
    <3> SUFFICES ASSUME NEW i \in DOMAIN stack PROVE DOMAIN stack[i] = DOMAIN FirstFrame
      OBVIOUS
    <3>1. stack[i] \in Frames /\ FirstFrame \in Frames
      BY FirstFrameType DEF Inv, Typed, StackTyped
    <3> QED
      BY <3>1 DEF Frames
  <2>2. phase = "listing" => job # Unloaded
    BY CommandLineAssumption DEF CommandLineAssumption, Inv, ListInv, ListTyped
  <2> QED
    BY <2>1, <2>2 DEF TypeOK, Inv, Idle, Typed, RestTyped, StackTyped, NntpTyped, Phases
<1> QED
  BY Invariance, <1>1, PTL

\* However options fail, are deferred or come from list files, what is retrieved
\* is what an -r asked for with the paths that were said before it, and is
\* recorded for the groups whose headers were used (nget.cc do_args,
\* prot_nntp.cc nntp_retrieve).
THEOREM RetrievedAsAsked == Spec => []StoredWhereSaid
<1>1. Inv => StoredWhereSaid
  BY DEF Inv, StackInv
<1> QED
  BY Invariance, <1>1, PTL

\* An nget that stops by itself with exit status 0 has carried out every -r,
\* also those that were pending when a list file began or ended (nget.cc
\* do_args, status.cc).
THEOREM NothingIsDropped == Spec => []NothingDropped
<1>1. Inv => NothingDropped
  <2> SUFFICES ASSUME Inv, why \in {"end", "invalid", "error"}
               PROVE  {d.want.id : d \in done} = {a.id : a \in asked} \/ ExitStatus # 0
    BY DEF NothingDropped
  <2>1. errors # {} \/ Ids(asked) = DoneIds
    BY DEF Inv, StackInv, Pending
  <2>2. CASE Ids(asked) = DoneIds
    BY <2>2 DEF Ids, DoneIds
  <2>3. CASE errors # {}
    <3>1. PICK e \in errors : e \in ErrorNames
      BY <2>3 DEF Inv, Typed, RestTyped
    <3>2. \A E : Bit(E, 4) \in {0, 4} /\ Bit(E, 8) \in {0, 8} /\ Bit(E, 16) \in {0, 16}
                 /\ Bit(E, 32) \in {0, 32} /\ Bit(E, 128) \in {0, 128}
      BY DEF Bit
    <3>3. \/ Bit({"path", "user"}, 4) = 4 \/ Bit({"retrieve"}, 8) = 8 \/ Bit({"group"}, 16) = 16
          \/ Bit({"grouplist"}, 32) = 32 \/ Bit({"fatal"}, 128) = 128
      BY <3>1 DEF Bit, ErrorNames
    <3> QED
      BY <3>2, <3>3 DEF ExitStatus
  <2> QED
    BY <2>1, <2>2, <2>3
<1> QED
  BY Invariance, <1>1, PTL

\* After any options, and after a list file with an -h of its own, the server
\* that is forced is that of the last -h (nget.cc do_args).
THEOREM HostIsHeld == Spec => []HostHolds
<1>1. Inv => HostHolds
  BY DEF Inv, StackInv, FramesInv, HostHolds
<1> QED
  BY Invariance, <1>1, PTL

\* An update of the list of groups that is cut short anywhere leaves no server a
\* date by which it had groups the list does not know (grouplist.cc,
\* prot_nntp.cc doxgrouplist and nntp_dogrouplist).
THEOREM DatesAreKnown == Spec => []KnownByDate
<1>1. Inv => KnownByDate
  BY DEF Inv, ListInv, DatesKnown, KnownByDate
<1> QED
  BY Invariance, <1>1, PTL

\* The file of newsgroups has all that servers told and nothing of a server that
\* was flushed, unless nget was killed (grouplist.cc save, flushserver).
THEOREM ListIsKept == Spec => []ListKept
<1>1. Inv => ListKept
  BY DEF Inv, ListInv, KeptBy, ListKept
<1> QED
  BY Invariance, <1>1, PTL
=============================================================================
