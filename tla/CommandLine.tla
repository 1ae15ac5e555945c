---------------------------- MODULE CommandLine ----------------------------
(***************************************************************************)
(* How nget carries out its command line (nget.cc: main, do_args) and what *)
(* this does to the objects the commands share: the forced server, the     *)
(* header cache and the record of retrieved articles that are loaded       *)
(* (prot_nntp.cc: nntp_group, nntp_retrieve), the list of newsgroups       *)
(* (GroupList) and the exit status (status.cc).                            *)
(*                                                                         *)
(* -r and -R only note what is to be retrieved or looked for; it is done   *)
(* when the next option that selects something else, or the end, is read.  *)
(* Options that only set a number or a flag the retrieval uses are left    *)
(* out, and what a retrieval does with its files is Retrieve's.            *)
(***************************************************************************)
EXTENDS GroupList, Integers, Sequences, SequencesExt

CONSTANTS
  Dir,             \* names of directories
  StartPath,       \* the directory nget is started in
  Group,           \* groups to retrieve from
  MetaGroup,       \* the groups each name that can follow -g stands for, in order
  NoServer, NoGroup, Unloaded,
  MaxRetry,        \* --tries
  Styles           \* what is on the command lines, and what happens meanwhile

MAKEDIRS_YES == -1
MAKEDIRS_ASK == -2
NoArg == ""        \* an option without an argument, or with an empty one
Forbidden == -1    \* not missing, but cannot be entered

\* The command lines a model is about, and their surroundings.
Style ==
  [options   : SUBSET (STRING \X STRING),   \* the options that are read, and their arguments
   args      : Nat,                         \* bound: how many options an nget reads
   runs      : Nat,                         \* bound: how many ngets there are, one after the other
   configs   : SUBSET SUBSET Server,        \* the servers that may be configured
   ngetrc    : SUBSET {"good", "mistakes", "unusable"},
   fatal     : BOOLEAN,                     \* fatal_user_errors
   makedirs  : Int,                         \* the makedirs setting: a number, YES or ASK
   missing   : [Dir -> Int],                \* how many of a directory's last parts do not exist
   carries   : [Server -> SUBSET Newsgroup],
   creates   : SUBSET (Server \X Newsgroup),\* the groups that may be created
   signals   : BOOLEAN]                     \* whether nget may be stopped or killed

\* An update of the list of groups: the servers that are left, in this round and
\* in all, the one that is asked, and what for.
Jobs ==
  [kind : {"a", "X"}, todo : SUBSET Server, round : SUBSET Server, redone : Nat, ok : BOOLEAN,
   at : Server \cup {NoServer}, step : {"list", "describe"},
   newdate : Dates, then : {"retrieve", "args"}]

ASSUME CommandLineAssumption ==
  /\ StartPath \in Dir /\ NoServer \notin Server /\ NoGroup \notin Group
  /\ MaxRetry \in Nat \ {0} /\ Unloaded \notin GroupLists /\ Unloaded \notin Jobs
  /\ \A n \in DOMAIN MetaGroup : MetaGroup[n] \in Seq(Group \cup DOMAIN MetaGroup)
  /\ Styles \subseteq Style /\ \A st \in Styles : st.missing[StartPath] = 0

VARIABLES
  style,      \* of Styles: which options may be read, how many, by how many ngets
  phase,      \* args, search, retrieve, perform, listing, ending, exited
  stack,      \* one frame for the command line and one for the list file
  cur,        \* the option that is carried out after what is pending
  nread,      \* how many options have been read
  runs,       \* how many ngets have been started
  force_host, group, gcache, midinfo,   \* c_prot_nntp's
  glist,      \* c_prot_nntp::glist, or Unloaded
  job,        \* an update of the list of groups
  missing,    \* how many of a directory's last parts do not exist
  listfile,   \* the file newsgroups
  carried,    \* the groups each server has
  configured, \* the servers in .ngetrc
  errors,     \* errorflags, by the names of the bits
  why,        \* history: why it stopped
  asked,      \* history: the retrievals that were asked for
  done,       \* history: those that were carried out, and from what
  learnt,     \* history: what servers have told and was not flushed since
  flushed     \* history: the servers that were flushed from the list

nntp == <<force_host, group, gcache, midinfo>>
world == <<style, carried, configured, runs>>
history == <<asked, done>>
list == <<glist, listfile, learnt, flushed>>
vars == <<world, phase, stack, cur, nread, nntp, list, job, missing, errors, why, history>>

-----------------------------------------------------------------------------
(* Options and the errors they make (status.cc). *)

\* A fresh nget_options.  said is history: where the last -p and -P told to
\* store, whether or not this could be done.
FirstFrame ==
  [mode |-> "retrieve", groups |-> <<>>, host |-> NoServer, badskip |-> {},
   path |-> StartPath, temppath |-> StartPath, testmode |-> FALSE,
   getinfos |-> {}, patinfos |-> FALSE, grouplistgetinfos |-> FALSE,
   said |-> [path |-> StartPath, temp |-> StartPath]]

Top == stack[Len(stack)]
OnTop(f) == stack' = [stack EXCEPT ![Len(stack)] = f]

\* The exit status: an error's bit, once.  path and user are the same.
Bit(e, bit) == IF e \cap errors # {} THEN bit ELSE 0
ExitStatus ==
  Bit({"path", "user"}, 4) + Bit({"retrieve"}, 8) + Bit({"group"}, 16) + Bit({"grouplist"}, 32)
    + Bit({"fatal"}, 128)

\* set_user_error_status_and_do_fatal_user_error() and its like for paths:
\* when they throw, nothing of what is pending is done.
Complain(e, l) ==
  /\ errors' = errors \cup {e}
  /\ IF style.fatal THEN phase' = "ending" /\ why' = "error" ELSE phase' = l /\ why' = why

Goto(l) == phase' = l /\ UNCHANGED <<errors, why>>

-----------------------------------------------------------------------------
(* main(). *)

Init ==
  /\ style \in Styles /\ missing = style.missing
  /\ carried = style.carries /\ configured = Server
  /\ listfile = NoFile /\ runs = 0
  /\ phase = "exited" /\ why = "none" /\ errors = {}
  /\ stack = <<FirstFrame>> /\ cur = <<"end", NoArg>> /\ nread = 0
  /\ force_host = NoServer /\ group = NoGroup /\ gcache = Unloaded /\ midinfo = Unloaded
  /\ glist = Unloaded /\ job = Unloaded
  /\ asked = {} /\ done = {} /\ learnt = {} /\ flushed = {}

\* nget is started with some of the servers configured.  A configuration that
\* cannot be used is an error of its own; mistakes in it are user errors, which
\* are looked at together.
Start ==
  /\ phase = "exited" /\ runs < style.runs
  /\ runs' = runs + 1 /\ nread' = 0 /\ cur' = <<"end", NoArg>>
  /\ configured' \in style.configs
  /\ stack' = <<FirstFrame>>
  /\ force_host' = NoServer /\ group' = NoGroup /\ gcache' = Unloaded /\ midinfo' = Unloaded
  /\ glist' = Unloaded /\ job' = Unloaded
  /\ asked' = {} /\ done' = {} /\ learnt' = {} /\ flushed' = {}
  /\ \E config \in style.ngetrc :
       CASE config = "good" -> phase' = "args" /\ errors' = {} /\ why' = "none"
         [] config = "mistakes" /\ ~style.fatal -> phase' = "args" /\ errors' = {"user"} /\ why' = "none"
         [] config = "mistakes" /\ style.fatal -> phase' = "ending" /\ errors' = {"user"} /\ why' = "error"
         [] config = "unusable" -> phase' = "ending" /\ errors' = {"fatal"} /\ why' = "error"
  /\ UNCHANGED <<style, missing, carried, listfile>>

\* nget_cleanup() and the destructors of what is static.
Exit ==
  /\ phase = "ending"
  /\ listfile' = IF glist = Unloaded THEN listfile ELSE Saved(glist, listfile)
  /\ gcache' = Unloaded /\ midinfo' = Unloaded
  /\ phase' = "exited"
  /\ UNCHANGED <<world, stack, cur, nread, force_host, group, glist, learnt, flushed, job,
                 missing, errors, why, history>>

\* term_handler(): what is pending is not done, and this is no error.
Signal ==
  /\ style.signals /\ phase = "listing"
  /\ phase' = "ending" /\ why' = "signal"
  /\ UNCHANGED <<world, stack, cur, nread, nntp, list, job, missing, errors, history>>

Kill ==
  /\ style.signals /\ phase \in {"listing", "args", "ending"}
  /\ phase' = "exited" /\ why' = "killed"
  /\ UNCHANGED <<world, stack, cur, nread, nntp, list, job, missing, errors, history>>

\* A group is created on a server.
Create(s, g) ==
  /\ <<s, g>> \in style.creates /\ phase \in {"exited", "listing"} /\ g \notin carried[s]
  /\ carried' = [carried EXCEPT ![s] = @ \cup {g}]
  /\ UNCHANGED <<style, configured, runs, phase, stack, cur, nread, nntp, list, job, missing,
                 errors, why, history>>

-----------------------------------------------------------------------------
(* Options that are carried out as they are read. *)

Reads(o) ==
  /\ phase = "args" /\ o \in style.options /\ nread < style.args
  /\ nread' = nread + 1

shared == <<world, cur, nntp, list, job>>

Testmode ==
  /\ Reads(<<"T", NoArg>>)
  /\ OnTop([Top EXCEPT !.testmode = TRUE]) /\ Goto("args")
  /\ UNCHANGED <<shared, missing, history>>

\* -r and -R where groups are looked for.  A regex that is "odd" makes a
\* wildmat and then no predicate: its c_xpat has been noted by then.
LooksForGroups == Top.mode \in {"list", "xlist"}

NoteSearch(c, re) ==
  /\ LooksForGroups /\ Reads(<<c, re>>)
  /\ LET x == Top.mode = "xlist"
     IN \/ /\ ~(x /\ c = "R") /\ re = "good"
           /\ OnTop([Top EXCEPT !.grouplistgetinfos = TRUE, !.patinfos = @ \/ x])
           /\ Goto("args")
        \/ /\ (x /\ c = "R") \/ re # "good"
           /\ OnTop([Top EXCEPT !.patinfos = @ \/ (x /\ c = "r" /\ re = "odd")])
           /\ Complain("user", "args")
  /\ UNCHANGED <<shared, missing, history>>

\* -r and -R where files are looked for: nothing is noted while the host or a
\* path is bad.
Wanted(n, gs, path, temp) == [id |-> n, groups |-> ToSet(gs), path |-> path, temp |-> temp]

NoteRetrieval(c, re) ==
  /\ ~LooksForGroups /\ Reads(<<c, re>>)
  /\ asked' = asked \cup {Wanted(nread, Top.groups, Top.said.path, Top.said.temp)}
  /\ LET x == Top.mode = "xretrieve"
         useless == (x /\ c = "R") \/ Top.groups = <<>>
     IN \/ /\ Top.badskip # {}
           /\ Goto("args") /\ UNCHANGED stack
        \/ /\ Top.badskip = {} /\ ~useless /\ re = "good"
           /\ OnTop([Top EXCEPT !.patinfos = @ \/ x,
                                !.getinfos = @ \cup {Wanted(nread, Top.groups, Top.path, Top.temppath)}])
           /\ Goto("args")
        \/ /\ Top.badskip = {} /\ (useless \/ re # "good")
           /\ OnTop([Top EXCEPT !.patinfos = @ \/ (~useless /\ x /\ re = "odd")])
           /\ Complain("user", "args")
  /\ UNCHANGED <<shared, missing, done>>

\* maybe_mkdir_chdir() succeeds, having made what was missing, or fails,
\* perhaps having made some of it.
MayMake(d) ==
  /\ missing[d] > 0
  /\ style.makedirs \in {MAKEDIRS_YES, MAKEDIRS_ASK} \/ style.makedirs >= missing[d]

Entered(d) ==
  /\ missing[d] = 0 \/ MayMake(d)
  /\ missing' = [missing EXCEPT ![d] = 0]

NotEntered(d) ==
  /\ missing[d] # 0
  /\ \E left \in IF MayMake(d) THEN 1 .. missing[d] ELSE {missing[d]} :
       missing' = [missing EXCEPT ![d] = left]

\* -p and -P.
Path(d) ==
  /\ Reads(<<"p", d>>)
  /\ LET said == [path |-> d, temp |-> d]
     IN \/ /\ Entered(d)
           /\ OnTop([Top EXCEPT !.path = d, !.temppath = d, !.badskip = @ \ {"TEMPPATH", "PATH"}, !.said = said])
           /\ Goto("args")
        \/ /\ NotEntered(d)
           /\ OnTop([Top EXCEPT !.badskip = @ \cup {"TEMPPATH", "PATH"}, !.said = said])
           /\ Complain("path", "args")
  /\ UNCHANGED <<shared, history>>

\* wrong: with the directory for temporary files the path is good again
GoodTempPathIsGoodPath(said, d) ==
  [Top EXCEPT !.temppath = d, !.badskip = @ \ {"TEMPPATH", "PATH"}, !.said = said]
GoodTempPath(said, d) == [Top EXCEPT !.temppath = d, !.badskip = @ \ {"TEMPPATH"}, !.said = said]

TempPath(d) ==
  /\ Reads(<<"P", d>>)
  /\ LET said == [path |-> Top.said.path, temp |-> d]
     IN \/ /\ Entered(d)
           /\ OnTop(GoodTempPath(said, d))
           /\ Goto("args")
        \/ /\ NotEntered(d)
           /\ OnTop([Top EXCEPT !.badskip = @ \cup {"TEMPPATH"}, !.said = said])
           /\ Complain("path", "args")
  /\ UNCHANGED <<shared, history>>

\* What is flushed from the header cache is GroupUpdate's matter.
Flushes(s) == Reads(<<"F", s>>)

FlushRefused(s) ==
  /\ Flushes(s)
  /\ \/ s \notin configured
     \/ Top.mode \in {"xretrieve", "xlist"}
     \/ (Top.mode = "retrieve" /\ Top.groups = <<>>)
  /\ Complain("user", "args")
  /\ UNCHANGED <<shared, stack, missing, history>>

FlushGroupList(s) ==
  /\ Flushes(s) /\ s \in configured /\ Top.mode = "list"
  /\ LET l == IF glist = Unloaded THEN Loaded(listfile, configured) ELSE glist
     IN /\ glist' = Flushed(l, s)
        /\ learnt' = IF l.named THEN {p \in learnt : p[1] # s} ELSE learnt
        /\ flushed' = IF l.named THEN flushed \cup {s} ELSE flushed
  /\ Goto("args")
  /\ UNCHANGED <<world, cur, nntp, listfile, job, stack, missing, history>>

\* nntp_group() for each group: the last one stays loaded.
Loads(gs) ==
  \/ gs = <<>> /\ UNCHANGED <<group, gcache, midinfo>>
  \/ gs # <<>> /\ group' = Last(gs) /\ gcache' = {Last(gs)} /\ midinfo' = {Last(gs)}
IsSelected(gs) == group # NoGroup /\ gs = <<group>>
IsLoaded(gs) == IsSelected(gs) /\ gcache # Unloaded

FlushHeaders(s) ==
  /\ Flushes(s) /\ s \in configured /\ Top.mode = "retrieve" /\ Top.groups # <<>>
  /\ IF IsLoaded(Top.groups) THEN UNCHANGED <<group, gcache, midinfo>> ELSE Loads(Top.groups)
  /\ Goto("args")
  /\ UNCHANGED <<world, cur, force_host, list, job, stack, missing, history>>

\* do_args() returns, to main() or to where the list file was named; there the
\* forced server is set again, if there is one.
ReopensNothing == UNCHANGED force_host   \* wrong
Reopens ==
  LET host == stack[Len(stack) - 1].host
  IN force_host' = IF host # NoServer THEN host ELSE force_host

Return(w) ==
  /\ why' = IF why = "none" /\ (w = "help" \/ Len(stack) = 1) THEN w ELSE why
  /\ IF Len(stack) = 1
     THEN phase' = "ending" /\ UNCHANGED <<stack, force_host>>
     ELSE phase' = "args" /\ stack' = Front(stack) /\ Reopens
  /\ UNCHANGED <<world, cur, group, gcache, midinfo, list, job, missing, history>>

\* --help, or an argument that is no option: what is pending is not done.
Help == Reads(<<"help", NoArg>>) /\ Return("help") /\ UNCHANGED errors

Invalid ==
  /\ Reads(<<"invalid", NoArg>>)
  /\ errors' = errors \cup {"user"}
  /\ IF style.fatal
     THEN phase' = "ending" /\ why' = "error" /\ UNCHANGED <<shared, stack, missing, history>>
     ELSE Return("invalid")

-----------------------------------------------------------------------------
(* Options before which what is pending is done. *)

\* wrong: the end of a list file does not do what is pending in it
DeferInMain(o) ==
  /\ \/ Reads(o) /\ (o[1] = "@" => Len(stack) = 1)
     \/ phase = "args" /\ o = <<"end", NoArg>> /\ UNCHANGED nread
  /\ cur' = o /\ phase' = IF o[1] = "end" /\ Len(stack) > 1 THEN "perform" ELSE "search"
  /\ UNCHANGED <<world, nntp, list, job, stack, missing, errors, why, history>>

Defer(o) ==
  /\ \/ Reads(o) /\ (o[1] = "@" => Len(stack) = 1)   \* bound: no list file in a list file
     \/ phase = "args" /\ o = <<"end", NoArg>> /\ UNCHANGED nread
  /\ cur' = o /\ phase' = "search"
  /\ UNCHANGED <<world, nntp, list, job, stack, missing, errors, why, history>>

\* wrong: -X drops the list without saving it
ListingForgets(kind, l) ==
  /\ phase' = "listing"
  /\ glist' = CASE kind = "X" -> NewList(FALSE)
                [] kind = "a" /\ glist = Unloaded -> Loaded(listfile, configured)
                [] OTHER -> glist
  /\ LET servers == IF force_host # NoServer THEN {force_host} ELSE configured
     IN job' = [kind |-> kind, todo |-> servers, round |-> servers, redone |-> 0, ok |-> FALSE,
                at |-> NoServer, step |-> "list", newdate |-> NoDate, then |-> l]
  /\ UNCHANGED <<listfile, learnt, flushed>>

\* Starts nntp_grouplist(1) or nntp_xgrouplist(), which has a list of its own.
Listing(kind, l) ==
  /\ phase' = "listing"
  /\ glist' = CASE kind = "X" -> NewList(FALSE)
                [] kind = "a" /\ glist = Unloaded -> Loaded(listfile, configured)
                [] OTHER -> glist
  /\ listfile' = IF kind = "X" /\ glist # Unloaded THEN Saved(glist, listfile) ELSE listfile
  /\ LET servers == IF force_host # NoServer THEN {force_host} ELSE configured
     IN job' = [kind |-> kind, todo |-> servers, round |-> servers, redone |-> 0, ok |-> FALSE,
                at |-> NoServer, step |-> "list", newdate |-> NoDate, then |-> l]
  /\ UNCHANGED <<learnt, flushed>>

\* nntp_grouplist_search().
Search ==
  /\ phase = "search" /\ UNCHANGED <<world, cur, nread, nntp, missing, history>>
  /\ LET f == [Top EXCEPT !.grouplistgetinfos = FALSE, !.patinfos = FALSE]
     IN \/ /\ ~Top.grouplistgetinfos
           /\ Goto("retrieve") /\ UNCHANGED <<list, job, stack>>
        \/ /\ Top.grouplistgetinfos /\ ~Top.testmode
           /\ Complain("user", "retrieve") /\ OnTop(f) /\ UNCHANGED <<list, job>>
        \/ /\ Top.grouplistgetinfos /\ Top.testmode /\ Top.patinfos
           /\ Listing("X", "retrieve") /\ OnTop(f) /\ UNCHANGED <<errors, why>>
        \/ /\ Top.grouplistgetinfos /\ Top.testmode /\ ~Top.patinfos
           /\ Goto("retrieve") /\ OnTop(f) /\ UNCHANGED <<list, job>>

\* nntp_retrieve(): which group's headers are used, and which record of
\* retrieved articles.  One group's cache may be loaded already: it is used
\* whatever group it is for (the assertion at prot_nntp.cc:1094 is compiled out
\* unless debugging is configured).
MidinfoFor(gs) ==
  IF IsSelected(gs) /\ midinfo # Unloaded THEN midinfo ELSE ToSet(gs)

Uses(x) ==
  IF Len(Top.groups) = 1 /\ gcache # Unloaded /\ ~x
  THEN [store |-> gcache, mid |-> midinfo]
  ELSE [store |-> ToSet(Top.groups), mid |-> MidinfoFor(Top.groups)]

NothingPending ==
  /\ phase = "retrieve" /\ Top.getinfos = {} /\ ~Top.patinfos
  /\ Goto("perform")
  /\ UNCHANGED <<shared, nread, stack, missing, history>>

\* Unless no file matches, the record is closed in the end.
Retrieve ==
  /\ phase = "retrieve" /\ (Top.getinfos # {} \/ Top.patinfos)
  /\ LET x == Top.patinfos
         keeps == Len(Top.groups) = 1 /\ gcache # Unloaded /\ ~x
     IN /\ done' = done \cup {[want |-> w, used |-> Uses(x)] : w \in Top.getinfos}
        /\ group' = IF Len(Top.groups) # 1 THEN NoGroup ELSE IF keeps THEN group ELSE Top.groups[1]
        /\ gcache' = Unloaded
        /\ midinfo' \in {Unloaded, Uses(x).mid}
        /\ \E failed \in SUBSET ({"retrieve"} \cup IF x /\ Top.groups # <<>> THEN {"group"} ELSE {}) :
             errors' = errors \cup failed
  /\ OnTop([Top EXCEPT !.getinfos = {}, !.patinfos = FALSE])
  /\ phase' = "perform" /\ why' = why
  /\ UNCHANGED <<world, cur, nread, force_host, list, job, missing, asked>>

Performs(c) == phase = "perform" /\ cur[1] = c /\ UNCHANGED <<world, cur, nread, missing, history>>

\* getgroups(): the names' groups, each once.
Expand[names \in Seq(Group \cup DOMAIN MetaGroup)] ==
  IF names = <<>> THEN <<>>
  ELSE (IF Head(names) \in DOMAIN MetaGroup THEN Expand[MetaGroup[Head(names)]] ELSE <<Head(names)>>)
       \o Expand[Tail(names)]

GetGroups(name) ==
  FoldLeft(LAMBDA gs, g : IF Contains(gs, g) THEN gs ELSE Append(gs, g), <<>>, Expand[<<name>>])

\* The names on the command lines stand for groups: no metagroup is part of
\* itself, which the program would not come to the end of.
ASSUME NamesAssumption ==
  \A st \in Styles : \A o \in st.options :
    o[1] \in {"g", "G", "x"} => GetGroups(o[2]) \in Seq(Group)

\* -a, and -A, which is also what -a is while the host is bad.
GroupListMode ==
  /\ \E c \in {"a", "A"} : Performs(c)
  /\ OnTop([Top EXCEPT !.mode = "list"])
  /\ IF cur[1] = "a" /\ "HOST" \notin Top.badskip
     THEN Listing("a", "args") /\ UNCHANGED <<errors, why>>
     ELSE Goto("args") /\ UNCHANGED <<list, job>>
  /\ UNCHANGED nntp

XGroupListMode ==
  /\ Performs("X")
  /\ OnTop([Top EXCEPT !.mode = "xlist"]) /\ Goto("args")
  /\ UNCHANGED <<nntp, list, job>>

\* -g updates every group; -G, and -g while the host is bad, does not.
UpdateGroups ==
  /\ Performs("g") /\ "HOST" \notin Top.badskip
  /\ LET gs == GetGroups(cur[2])
     IN /\ OnTop([Top EXCEPT !.mode = "retrieve", !.groups = gs])
        /\ Loads(gs)
        /\ \E failed \in SUBSET {"group"} : errors' = errors \cup failed
  /\ phase' = "args" /\ why' = why
  /\ UNCHANGED <<force_host, list, job>>

SelectGroups ==
  /\ \E c \in {"g", "G"} : Performs(c)
  /\ cur[1] = "g" => "HOST" \in Top.badskip
  /\ OnTop([Top EXCEPT !.mode = "retrieve", !.groups = GetGroups(cur[2])]) /\ Goto("args")
  /\ UNCHANGED <<nntp, list, job>>

XGroups ==
  /\ Performs("x")
  /\ OnTop([Top EXCEPT !.mode = "xretrieve", !.groups = GetGroups(cur[2])]) /\ Goto("args")
  /\ UNCHANGED <<nntp, list, job>>

\* -h: a server, nothing for any server, or a name that is not configured.
Host ==
  /\ Performs("h")
  /\ LET known == cur[2] \in configured
         host == IF known THEN cur[2] ELSE NoServer
     IN /\ force_host' = host
        /\ OnTop([Top EXCEPT !.host = host,
                             !.badskip = IF known \/ cur[2] = NoArg THEN @ \ {"HOST"} ELSE @ \cup {"HOST"}])
        /\ IF known \/ cur[2] = NoArg THEN Goto("args") ELSE Complain("user", "args")
  /\ UNCHANGED <<group, gcache, midinfo, list, job>>

\* -@: the arguments in the file, up to a mistake in it, are read by another
\* do_args() with a copy of the options.
ListFile ==
  /\ Performs("@")
  /\ LET inner == [Top EXCEPT !.getinfos = {}, !.patinfos = FALSE, !.grouplistgetinfos = FALSE]
     IN \/ /\ cur[2] = "good"
           /\ stack' = Append(stack, inner) /\ Goto("args")
        \/ /\ cur[2] = "quote"
           /\ stack' = Append(stack, inner) /\ Complain("user", "args")
        \/ /\ cur[2] = "missing"
           /\ Complain("user", "args") /\ UNCHANGED stack
  /\ UNCHANGED <<nntp, list, job>>

End == phase = "perform" /\ cur[1] = "end" /\ Return("end") /\ UNCHANGED <<nread, errors>>

-----------------------------------------------------------------------------
(* Asking servers for their groups: nntp_grouplist(), nntp_xgrouplist(). *)

Lists(s) == phase = "listing" /\ UNCHANGED <<world, stack, cur, nread, nntp, listfile, flushed, missing, history>>
Learnt(s, G) == IF glist.named THEN learnt \cup {s} \X G ELSE learnt
Hears(s, G) == glist' = Listed(glist, s, G) /\ learnt' = Learnt(s, G)

\* The connection is made, and DATE answered, or the local clock is read.
AskDate(s) ==
  /\ Lists(s) /\ job.at = NoServer /\ s \in job.round
  /\ job' = [job EXCEPT !.at = s, !.step = "list", !.newdate = carried[s]]
  /\ UNCHANGED <<glist, learnt, phase, errors, why>>

\* LIST, NEWGROUPS or LIST ACTIVE, and all of the reply.
Reply(s) ==
  IF job.kind = "X" \/ DateOf(glist, s) = NoDate THEN carried[s] ELSE carried[s] \ DateOf(glist, s)

ListGroups(s) ==
  /\ Lists(s) /\ job.at = s /\ job.step = "list"
  /\ glist' = LET l == Listed(glist, s, Reply(s))
              IN IF job.kind = "a" THEN WithDate(l, s, job.newdate) ELSE l
  /\ learnt' = Learnt(s, Reply(s))
  /\ job' = [job EXCEPT !.step = "describe"]
  /\ UNCHANGED <<phase, errors, why>>

\* LIST NEWSGROUPS, which the server may not know.
Describe(s) ==
  /\ Lists(s) /\ job.at = s /\ job.step = "describe"
  /\ \E G \in {{}, carried[s]} : glist' = Described(glist, s, G, "about")
  /\ job' = [job EXCEPT !.at = NoServer, !.ok = TRUE, !.round = @ \ {s}, !.todo = @ \ {s}]
  /\ UNCHANGED <<learnt, phase, errors, why>>

\* No connection, an error reply, or the connection breaks; unless this is for
\* good the server is tried again in the next round.
Fail(s, fatal) ==
  /\ Lists(s) /\ s \in job.round /\ job.at \in {s, NoServer}
  /\ \/ job.at = NoServer /\ UNCHANGED <<glist, learnt>>
     \/ job.at = s /\ job.step = "list" /\ \E part \in SUBSET Reply(s) : Hears(s, part)
     \/ /\ job.at = s /\ job.step = "describe" /\ UNCHANGED learnt
        /\ \E part \in SUBSET carried[s] : glist' = Described(glist, s, part, "about")
  /\ job' = [job EXCEPT !.at = NoServer, !.round = @ \ {s}, !.todo = IF fatal THEN @ \ {s} ELSE @]
  /\ UNCHANGED <<phase, errors, why>>

NextRound ==
  /\ Lists(NoServer) /\ job.at = NoServer /\ job.round = {}
  /\ job.todo # {} /\ job.redone + 1 < MaxRetry
  /\ job' = [job EXCEPT !.round = job.todo, !.redone = @ + 1]
  /\ UNCHANGED <<glist, learnt, phase, errors, why>>

ListEnd ==
  /\ Lists(NoServer) /\ job.at = NoServer /\ job.round = {}
  /\ job.todo = {} \/ job.redone + 1 >= MaxRetry
  /\ errors' = IF job.ok THEN errors ELSE errors \cup {"grouplist"}
  /\ phase' = job.then /\ job' = Unloaded
  /\ UNCHANGED <<glist, learnt, why>>

Next ==
  \/ Start \/ Exit \/ Signal \/ Kill \/ \E s \in Server, g \in Newsgroup : Create(s, g)
  \/ Testmode
  \/ \E c \in {"r", "R"}, re \in {"good", "bad", "odd"} : NoteSearch(c, re) \/ NoteRetrieval(c, re)
  \/ \E d \in Dir : Path(d) \/ TempPath(d)
  \/ \E s \in Server \cup {NoServer} : FlushRefused(s) \/ FlushGroupList(s) \/ FlushHeaders(s)
  \/ Help \/ Invalid
  \/ \E o \in style.options \cup {<<"end", NoArg>>} : o[1] \in {"@", "a", "A", "X", "g", "G", "x", "h", "end"} /\ Defer(o)
  \/ Search \/ NothingPending \/ Retrieve
  \/ GroupListMode \/ XGroupListMode \/ UpdateGroups \/ SelectGroups \/ XGroups \/ Host \/ ListFile \/ End
  \/ \E s \in Server : AskDate(s) \/ ListGroups(s) \/ Describe(s) \/ \E fatal \in BOOLEAN : Fail(s, fatal)
  \/ NextRound \/ ListEnd

Spec == Init /\ [][Next]_vars

-----------------------------------------------------------------------------
(* Properties. *)

\* Types.
TypeOK ==
  /\ phase \in {"args", "search", "retrieve", "perform", "listing", "ending", "exited"}
  /\ Len(stack) \in 1 .. 2 /\ \A i \in DOMAIN stack : DOMAIN stack[i] = DOMAIN FirstFrame
  /\ force_host \in Server \cup {NoServer} /\ group \in Group \cup {NoGroup}
  /\ gcache = Unloaded \/ gcache \subseteq Group
  /\ midinfo = Unloaded \/ midinfo \subseteq Group
  /\ (job # Unloaded) = (phase = "listing") \/ phase \in {"ending", "exited"}

\* nget.1, -p: "Path to store subsequent retrieves".  Whatever went wrong in
\* between, what is retrieved goes where the last -p and -P before its -r told
\* to, or nothing is retrieved for this -r; and it is recorded for the groups
\* whose headers were used.
StoredWhereSaid ==
  \A d \in done : d.want \in asked /\ d.used.store = d.used.mid

\* The headers that are used are those of the groups that had been selected.
\* (Not so when another group's cache is still loaded: -g A -G B -r.)
GroupsAsSelected == \A d \in done : d.used.store = d.want.groups

\* When nget stops by itself, every -r was carried out or the exit status tells
\* that something went wrong, in list files too.
NothingDropped ==
  phase = "exited" /\ why \in {"end", "invalid", "error"} =>
    \/ {d.want.id : d \in done} = {a.id : a \in asked}
    \/ ExitStatus # 0

\* nget.1, -h: "Force only the given host to be used for subsequent commands",
\* also after a list file that has a -h of its own.
HostHolds == phase # "exited" /\ Top.host # NoServer => force_host = Top.host

\* A server that has a date is asked with NEWGROUPS: what it had by then must
\* be known, in memory and in the file, however updates were cut short.
KnownByDate ==
  \A l \in {listfile} \cup (IF glist = Unloaded THEN {} ELSE {glist}) :
    \A s \in DOMAIN l.date : l.date[s] # NoDate => {s} \X l.date[s] \subseteq Pairs(l)

\* Unless nget was killed, the file has what servers told about their groups,
\* and nothing of a server that was flushed but what it told since.
ListKept ==
  phase = "exited" /\ why # "killed" =>
    /\ learnt \subseteq Pairs(listfile)
    /\ \A p \in Pairs(listfile) : p[1] \in flushed => p \in learnt
=============================================================================
