------------------------------ MODULE FileSave ------------------------------
(***************************************************************************)
(* How nget replaces a file: FILE.tmp is opened with O_CREAT|O_TRUNC,      *)
(* written, closed and renamed over FILE.  This is what c_nntp_cache does  *)
(* with a group's header cache, without a lock, and what                   *)
(* c_text_handler does with the mbox file, which it first copies, under an *)
(* exclusive lock (RWLock, which LockFile implements).                     *)
(***************************************************************************)
EXTENDS LockUser, Naturals, Sequences, SequencesExt

CONSTANTS
  Inode,       \* identities of files
  NoInode,
  Locked,      \* whether the file is locked while it is replaced
  KeepsOld,    \* whether the new file begins with what the old one had
  MaxSaves     \* bound on how often the file is replaced

ASSUME FileSaveAssumption ==
  /\ NoInode \notin Inode /\ Locked \in BOOLEAN /\ KeepsOld \in BOOLEAN
  /\ MaxSaves \in Nat

\* pc is idle, start, writing, rename or renamed.
VARIABLES
  name,    \* the inode FILE names
  tmp,     \* the inode FILE.tmp names
  data,    \* data[i]: the chunks inode i consists of
  fd,      \* fd[p]: the inode p writes to
  pos,     \* pos[p]: how many chunks p has written
  out,     \* out[p]: the chunks p has still to write
  saves    \* how often FILE.tmp has been opened

savevars == <<pc, lock, name, tmp, data, fd, pos, out, saves>>

Hole == [save |-> 0, part |-> 0]

\* What a process writes takes two writes; the second needs the first.
New(n) == <<[save |-> n, part |-> 1], [save |-> n, part |-> 2]>>

SaveInit ==
  /\ pc = [p \in Proc |-> "idle"]
  /\ RW!RWInit
  /\ name = NoInode /\ tmp = NoInode
  /\ data = [i \in Inode |-> <<>>]
  /\ fd = [p \in Proc |-> NoInode]
  /\ pos = [p \in Proc |-> 0] /\ out = [p \in Proc |-> <<>>]
  /\ saves = 0

Used(i) == i \in {name, tmp} \/ \E p \in Proc : fd[p] = i

-----------------------------------------------------------------------------
StartUnlocked(p) ==   \* wrong: the mbox is replaced without its lock
  /\ pc[p] = "idle"
  /\ lock' = lock
  /\ Goto(p, "start")
  /\ UNCHANGED <<name, tmp, data, fd, pos, out, saves>>

Start(p) ==
  /\ pc[p] = "idle"
  /\ IF Locked THEN RW!Acquire(p, "ex") ELSE lock' = lock
  /\ Goto(p, "start")
  /\ UNCHANGED <<name, tmp, data, fd, pos, out, saves>>

\* open(FILE.tmp, O_CREAT|O_TRUNC): another process's FILE.tmp is emptied.
Open(p) ==
  /\ pc[p] = "start" /\ saves < MaxSaves
  /\ IF tmp = NoInode THEN tmp' \in {i \in Inode : ~Used(i)} ELSE tmp' = tmp
  /\ data' = [data EXCEPT ![tmp'] = <<>>]
  /\ fd' = [fd EXCEPT ![p] = tmp']
  /\ pos' = [pos EXCEPT ![p] = 0]
  /\ out' = [out EXCEPT ![p] =
               (IF KeepsOld /\ name # NoInode THEN data[name] ELSE <<>>) \o New(saves + 1)]
  /\ saves' = saves + 1
  /\ Goto(p, "writing")
  /\ UNCHANGED <<lock, name>>

\* A write at p's own offset.  What lies between the end of the file and the
\* offset, when another process has truncated the file, reads as zeros.
Write(p) ==
  LET d == data[fd[p]]
      n == pos[p] + 1
      len == IF n > Len(d) THEN n ELSE Len(d)
  IN /\ pc[p] = "writing" /\ out[p] # <<>>
     /\ data' = [data EXCEPT ![fd[p]] =
                   [j \in 1 .. len |-> IF j = n THEN Head(out[p])
                                       ELSE IF j <= Len(d) THEN d[j] ELSE Hole]]
     /\ pos' = [pos EXCEPT ![p] = n]
     /\ out' = [out EXCEPT ![p] = Tail(@)]
     /\ UNCHANGED <<pc, lock, name, tmp, fd, saves>>

\* A close that succeeds has everything written: fsync() comes first.
Close(p) ==
  /\ pc[p] = "writing" /\ out[p] = <<>>
  /\ fd' = [fd EXCEPT ![p] = NoInode]
  /\ Goto(p, "rename")
  /\ UNCHANGED <<lock, name, tmp, data, pos, out, saves>>

RenameUnlinksFirst(p) ==   \* wrong: what the Windows branch of xxrename() does
  /\ pc[p] = "rename" /\ tmp # NoInode
  /\ IF name # NoInode
     THEN name' = NoInode /\ UNCHANGED <<pc, tmp>>
     ELSE name' = tmp /\ tmp' = NoInode /\ Goto(p, "renamed")
  /\ UNCHANGED <<lock, data, fd, pos, out, saves>>

Rename(p) ==
  /\ pc[p] = "rename" /\ tmp # NoInode
  /\ name' = tmp /\ tmp' = NoInode
  /\ Goto(p, "renamed")
  /\ UNCHANGED <<lock, data, fd, pos, out, saves>>

\* The end of a process, or of its use of the file.
Leave(p) ==
  /\ lock' = [lock EXCEPT ![p] = "none"]
  /\ fd' = [fd EXCEPT ![p] = NoInode]
  /\ pos' = [pos EXCEPT ![p] = 0] /\ out' = [out EXCEPT ![p] = <<>>]
  /\ Goto(p, "idle")

Finish(p) ==
  /\ pc[p] = "renamed"
  /\ Leave(p)
  /\ UNCHANGED <<name, tmp, data, saves>>

\* Opening, writing or closing fails: FILE.tmp is unlinked, whoever's it is,
\* and the process exits.
WriteFails(p) ==
  /\ pc[p] = "writing"
  /\ tmp' = NoInode
  /\ Leave(p)
  /\ UNCHANGED <<name, data, saves>>

\* The process is killed, or exits because rename() fails.
Crash(p) ==
  /\ pc[p] # "idle"
  /\ Leave(p)
  /\ UNCHANGED <<name, tmp, data, saves>>

SaveNext ==
  \E p \in Proc :
    \/ Start(p) \/ Open(p) \/ Write(p) \/ Close(p) \/ Rename(p) \/ Finish(p)
    \/ WriteFails(p) \/ Crash(p)

SaveSpec == SaveInit /\ [][SaveNext]_savevars

-----------------------------------------------------------------------------
(* Properties. *)

Chunk == [save : 1 .. MaxSaves, part : {1, 2}] \cup {Hole}

\* Types; and a process has FILE.tmp open exactly while it writes it.
SaveTypeOK ==
  /\ pc \in [Proc -> {"idle", "start", "writing", "rename", "renamed"}]
  /\ lock \in [Proc -> {"none", "sh", "ex"}]
  /\ {name, tmp} \subseteq Inode \cup {NoInode}
  /\ data \in [Inode -> Seq(Chunk)]
  /\ fd \in [Proc -> Inode \cup {NoInode}]
  /\ pos \in [Proc -> Nat] /\ out \in [Proc -> Seq(Chunk)]
  /\ saves \in 0 .. MaxSaves
  /\ \A p \in Proc : fd[p] # NoInode <=> pc[p] = "writing"

\* What is read from the file is what processes wrote as a whole: the two
\* halves of each save, side by side.
Whole(d) ==
  /\ Len(d) % 2 = 0
  /\ \A j \in 1 .. Len(d) \div 2 :
       d[2 * j - 1] # Hole /\ SubSeq(d, 2 * j - 1, 2 * j) = New(d[2 * j - 1].save)

\* "Running multiple copies of nget at once should be safe.  It uses file
\* locking, so there should be no way for the files to actually get corrupted"
\* (nget.1:597); "any errors during writing will not leave a partial message
\* in the mbox" (texthandler.cc:121).
WholeFile == name # NoInode => Whole(data[name])

\* A file that was there is there at every moment, for another nget to read,
\* and the messages in an mbox stay there.
FileStays ==
  [][name # NoInode =>
       name' # NoInode /\ (KeepsOld => IsPrefix(data[name], data'[name']))]_savevars
=============================================================================
