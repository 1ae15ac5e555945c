------------------------------ MODULE MidInfo ------------------------------
(***************************************************************************)
(* c_mid_info (cache.h, cache.cc): the message-ids that have been          *)
(* retrieved, in one ",midinfo" file per group that all running ngets      *)
(* share.  A process loads the file under a shared lock, changes its own   *)
(* copy, and at the end, under an exclusive lock, merges the file into its *)
(* copy, writes it beside the file and renames it over it.                 *)
(*                                                                         *)
(* The lock is RWLock, which LockFile implements.                          *)
(***************************************************************************)
EXTENDS LockUser, Integers, FiniteSets

CONSTANTS
  Mid,        \* message-ids
  MaxTime,    \* bound on the clock
  Keep,       \* MID_INFO_MIN_KEEP
  KeepDel     \* MID_INFO_MIN_KEEP_DEL

ASSUME MidInfoAssumption == MaxTime \in Nat /\ Keep \in Nat /\ KeepDel \in Nat

\* date_removed: a time, or that the article has not been removed from the
\* group, or that the entry is not to be saved.
Time    == 0 .. MaxTime
Max1    == MaxTime + 1     \* TIME_T_MAX1
Dead    == MaxTime + 2     \* TIME_T_DEAD
State   == [added : Time, removed : Time \cup {Max1, Dead}]

\* pc is idle, loading, working, saving, merged, written or renamed.
VARIABLES
  states,   \* states[p]: p's copy, from some of the Mid to State
  changed,  \* whether p has something to save
  file,     \* the midinfo file
  newfile,  \* the file it is written to first; Empty when there is none
  now       \* time(NULL)

midvars == <<pc, states, changed, file, newfile, lock, now>>

Empty == [m \in {} |-> {}]
Known(s) == DOMAIN s

MidInit ==
  /\ pc = [p \in Proc |-> "idle"]
  /\ states = [p \in Proc |-> Empty]
  /\ changed = [p \in Proc |-> FALSE]
  /\ file = Empty /\ newfile = Empty
  /\ now = 0
  /\ RW!RWInit

-----------------------------------------------------------------------------
(* Merging. *)

\* Wrong: once the process knows a date it is not replaced by a later one.
KeepsOwnDate(own, d) == own # Max1

\* insert_full(): whether the own entry, removed at own, is kept when the file
\* says d.
KeepsOwn(own, d) == own # Max1 /\ (d = Max1 \/ own > d)

\* Wrong: the copy of the process is written as it is.
MergedNot(s, f) == s

\* The copy s after every line of the file f has been through insert_full().
Merged(s, f) ==
  [m \in Known(s) \cup Known(f) |->
     IF m \in Known(f) /\ ~(m \in Known(s) /\ KeepsOwn(s[m].removed, f[m].removed))
     THEN f[m] ELSE s[m]]

Saveable(s) == [m \in {k \in Known(s) : s[k].removed # Dead} |-> s[m]]

-----------------------------------------------------------------------------
(* Loading. *)

LockToLoad(p) ==
  /\ pc[p] = "idle" /\ RW!Acquire(p, "sh") /\ Goto(p, "loading")
  /\ UNCHANGED <<states, changed, file, newfile, now>>

Load(p) ==
  /\ pc[p] = "loading"
  /\ states' = [states EXCEPT ![p] = Merged(Empty, file)]
  /\ RW!Release(p) /\ Goto(p, "working")
  /\ UNCHANGED <<changed, file, newfile, now>>

-----------------------------------------------------------------------------
(* Working on the copy. *)

Change(p, s) ==
  /\ states' = [states EXCEPT ![p] = s]
  /\ changed' = [changed EXCEPT ![p] = TRUE]
  /\ UNCHANGED <<pc, file, newfile, lock, now>>

\* A file has been decoded or marked.  An entry that is there, even as Dead,
\* stays as it is.
InsertMid(p, m) ==
  /\ pc[p] = "working" /\ m \notin Known(states[p])
  /\ Change(p, [k \in Known(states[p]) \cup {m} |->
                  IF k = m THEN [added |-> now, removed |-> Max1] ELSE states[p][k]])

\* A file is unmarked.
RemoveMid(p, m) ==
  /\ pc[p] = "working" /\ m \in Known(states[p])
  /\ Change(p, [states[p] EXCEPT ![m].removed = Dead])

\* do_delete_fun(): entries that are old enough and no longer in the cache.
OldEnough(e) ==
  /\ e.added + Keep < now
  /\ e.removed = Max1 \/ e.removed + KeepDel < now

\* What flushing a group does to its midinfo: set_delete() for the messages
\* that go, and do_delete_fun() with those that stay.  set_delete() leaves
\* changed alone.
Flush(p, gone, rel) ==
  LET s1 == [m \in Known(states[p]) |->
               IF m \in gone THEN [states[p][m] EXCEPT !.removed = now] ELSE states[p][m]]
      kill == {m \in Known(s1) \ rel : OldEnough(s1[m])}
  IN /\ pc[p] = "working"
     /\ states' = [states EXCEPT ![p] = [m \in Known(s1) |->
                     IF m \in kill THEN [s1[m] EXCEPT !.removed = Dead] ELSE s1[m]]]
     /\ changed' = [changed EXCEPT ![p] = @ \/ kill # {}]
     /\ UNCHANGED <<pc, file, newfile, lock, now>>

-----------------------------------------------------------------------------
(* Saving, in the destructor. *)

Finished(p) ==
  /\ states' = [states EXCEPT ![p] = Empty]
  /\ changed' = [changed EXCEPT ![p] = FALSE]
  /\ Goto(p, "idle")

NothingToSave(p) ==
  /\ pc[p] = "working" /\ ~changed[p]
  /\ Finished(p)
  /\ UNCHANGED <<file, newfile, lock, now>>

\* Wrong: the file is locked the way load() locks it.
LockToSaveShared(p) ==
  /\ pc[p] = "working" /\ changed[p]
  /\ RW!Acquire(p, "sh") /\ Goto(p, "saving")
  /\ UNCHANGED <<states, changed, file, newfile, now>>

LockToSave(p) ==
  /\ pc[p] = "working" /\ changed[p]
  /\ RW!Acquire(p, "ex") /\ Goto(p, "saving")
  /\ UNCHANGED <<states, changed, file, newfile, now>>

Merge(p) ==
  /\ pc[p] = "saving"
  /\ states' = [states EXCEPT ![p] = Merged(@, file)]
  /\ Goto(p, "merged")
  /\ UNCHANGED <<changed, file, newfile, lock, now>>

WriteNew(p) ==
  /\ pc[p] = "merged"
  /\ newfile' = Saveable(states[p])
  /\ Goto(p, "written")
  /\ UNCHANGED <<states, changed, file, lock, now>>

RenameNew(p) ==
  /\ pc[p] = "written"
  /\ file' = newfile /\ newfile' = Empty
  /\ Goto(p, "renamed")
  /\ UNCHANGED <<states, changed, lock, now>>

Unlock(p) ==
  /\ pc[p] = "renamed"
  /\ RW!Release(p) /\ Finished(p)
  /\ UNCHANGED <<file, newfile, now>>

\* The process is killed, or exits because it cannot write or rename.
Die(p) ==
  /\ pc[p] # "idle"
  /\ lock' = [lock EXCEPT ![p] = "none"] /\ Finished(p)
  /\ UNCHANGED <<file, newfile, now>>

Tick ==
  /\ now < MaxTime /\ now' = now + 1
  /\ UNCHANGED <<pc, states, changed, file, newfile, lock>>

MidNext ==
  \/ \E p \in Proc :
       \/ LockToLoad(p) \/ Load(p)
       \/ \E m \in Mid : InsertMid(p, m) \/ RemoveMid(p, m)
       \/ \E gone, rel \in SUBSET Mid : gone \cap rel = {} /\ Flush(p, gone, rel)
       \/ NothingToSave(p)
       \/ LockToSave(p) \/ Merge(p) \/ WriteNew(p) \/ RenameNew(p) \/ Unlock(p)
       \/ Die(p)
  \/ Tick

MidSpec == MidInit /\ [][MidNext]_midvars

-----------------------------------------------------------------------------
(* Properties. *)

MidPoints == {"idle", "loading", "working", "saving", "merged", "written", "renamed"}
Copies == UNION {[K -> State] : K \in SUBSET Mid}

\* Types; and what is Dead is in no file.
MidTypeOK ==
  /\ pc \in [Proc -> MidPoints] /\ states \in [Proc -> Copies]
  /\ changed \in [Proc -> BOOLEAN]
  /\ file \in Copies /\ newfile \in Copies /\ now \in Time
  /\ \A m \in Known(file) : file[m].removed # Dead
  /\ lock \in [Proc -> {"none", "sh", "ex"}]

\* Changelog, v0.13: no update is lost when two ngets update a midinfo file at
\* the same time.  A mid leaves the file only when the process that saves was
\* told to drop it, whatever that process had loaded before.
NothingLost ==
  [][\A m \in Known(file) \ Known(file') :
       \E p \in Proc : m \in Known(states[p]) /\ states[p][m].removed = Dead]_midvars

\* And what a process knows is in the file when it has saved.
AllSaved ==
  \A p \in Proc : pc[p] = "renamed" =>
    \A m \in Known(states[p]) :
      IF states[p][m].removed = Dead THEN m \notin Known(file)
      ELSE m \in Known(file) /\ file[m] = states[p][m]

\* That an article has gone from the group is not forgotten, and of two dates
\* the later one is kept: do_delete_fun() counts from there.
RemovalKept ==
  [][\A m \in Known(file) \cap Known(file') :
       file[m].removed # Max1 => file'[m].removed \in file[m].removed .. MaxTime]_midvars
=============================================================================
