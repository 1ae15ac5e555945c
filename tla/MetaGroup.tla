----------------------------- MODULE MetaGroup -----------------------------
(***************************************************************************)
(* Reading the caches of several groups side by side (cache.cc:            *)
(* nntp_cache_getfiles for a list of groups, c_nntp_file::mergefile).      *)
(* Each cache file is read one file at a time, in the order of the keys,   *)
(* and the files of one key are merged, so that a post whose parts are     *)
(* spread over the groups is found whole.  The operators are on the lists  *)
(* of files of HeaderCache; the number of an article stands for its group, *)
(* too.  That they are right is an assumption of MCHeaderCache.            *)
(***************************************************************************)
EXTENDS HeaderCache

CONSTANT KeyOrder   \* the keys, ascending by operator<

\* The order in which the files of a cache are in the cache file.
InOrder(fs) ==
  FlattenSeq([i \in DOMAIN KeyOrder |-> SelectSeq(fs, LAMBDA f : f.key = KeyOrder[i])])

Rank(f) == CHOOSE i \in DOMAIN KeyOrder : KeyOrder[i] = f.key

\* The parts of g that mergefile() moves to f: those that f does not have as
\* another message.
Mergeable(f, g) ==
  {p \in DOMAIN g.parts : p \in DOMAIN f.parts => g.parts[p].msg = f.parts[p].msg}

Merged(f, g) ==
  LET moved == Mergeable(f, g)
      new == moved \ DOMAIN f.parts
      Arts(h, p) == IF p \in DOMAIN h.parts THEN h.parts[p].arts ELSE {}
  IN [f EXCEPT !.have = @ + Cardinality({p \in new : Counted(f.key, p)}),
               !.parts = [p \in moved |-> [msg |-> g.parts[p].msg, arts |-> Arts(f, p) \cup g.parts[p].arts]] @@ @]

\* What is left of g; its have is not counted down.
LeftOver(f, g) == [g EXCEPT !.parts = Restrict(@, DOMAIN @ \ Mergeable(f, g))]

\* One round: slots are the files still to come of each cache, of which the
\* first has been read.  The first of the least files is the one the others
\* are merged into; a file that was used up makes room for the next one, which
\* waits for the next round.
Round(slots) ==
  LET ranks == {Rank(slots[i][1]) : i \in DOMAIN slots}
      lead == SelectInSeq(slots, LAMBDA fs : Rank(fs[1]) = Min(ranks))
      Visit(acc, i) ==
        LET g == slots[i][1]
            merges == i # lead /\ g.key = acc.file.key
            rest == IF merges THEN LeftOver(acc.file, g) ELSE g
            used == i = lead \/ ~NotEmpty(rest)
        IN [file |-> IF merges THEN Merged(acc.file, g) ELSE acc.file,
            slots |-> Append(acc.slots, IF used THEN Tail(slots[i]) ELSE <<rest>> \o Tail(slots[i]))]
  IN FoldLeftDomain(Visit, [file |-> slots[lead][1], slots |-> <<>>], slots)

\* The files that are looked at, given those of each cache as read_file()
\* returns them.
MetaFiles(caches) ==
  LET Busy(slots) == SelectSeq(slots, LAMBDA fs : fs # <<>>)
      Go(acc, f) ==
        IF acc.slots = <<>> THEN acc
        ELSE LET r == Round(acc.slots) IN [out |-> Append(acc.out, r.file), slots |-> Busy(r.slots)]
  IN FoldLeft(Go, [out |-> <<>>, slots |-> Busy(caches)], FlattenSeq(caches)).out

-----------------------------------------------------------------------------
(* What the reader is for. *)

\* Every article of every group is in exactly one of the files, no file seems
\* to have fewer parts than it has, and the files come in order.
ReadsAll(caches) ==
  LET out == MetaFiles(caches)
      sizes == [i \in DOMAIN out |-> Cardinality(ArticlesIn(out[i]))]
      all == UNION {Articles(caches[i]) : i \in DOMAIN caches}
  IN /\ Articles(out) = all /\ SumFunction(sizes) = Cardinality(all)
     /\ \A i \in DOMAIN out :
          /\ NotEmpty(out[i]) /\ out[i].have >= CountedParts(out[i])
          /\ i > 1 => Rank(out[i - 1]) <= Rank(out[i])

\* Groups that agree on the message of each part of each key are read as one
\* group: one file per key, of which have is right.
ReadsAsOne(caches) ==
  LET out == MetaFiles(caches)
      fs == FlattenSeq(caches)
      agree == \A i, j \in DOMAIN fs : fs[i].key = fs[j].key => Mergeable(fs[i], fs[j]) = DOMAIN fs[j].parts
  IN agree =>
       /\ \A i, j \in DOMAIN out : out[i].key = out[j].key => i = j
       /\ \A i \in DOMAIN out : out[i].have = CountedParts(out[i])
=============================================================================
