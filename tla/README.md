# A TLA+ verification of nget

nget (`src/`) is a command line program that fetches binaries and text from
Usenet. This directory keeps TLA+ models of the parts of it in which order,
concurrency and failure decide whether the result is right, TLC runs that check
them on small instances, and TLAPS proofs of most of what the runs check, for every
number of processes, servers, messages, articles and ranges.

`PROJECT.json` lists the components, runs, mutants, theorems and hazards, and
maps every definition to the source lines it was translated from. Comments in the
modules name the functions; "wrong" in a comment marks the variant of a definition
with a plausible bug that some property has to notice (a *mutant*).

## 1. The system

nget is one single-threaded process. What runs concurrently with it is other nget
processes of the same user (they share `~/.nget5`), the NNTP servers, and the user
who edits `ngetrc` between runs.

| component | source | state | operations |
|---|---|---|---|
| lock file | `mylockfile.h` | `FILE.locks`, its fcntl locks, the gate `FILE.locks.locked` | constructor (shared or exclusive), destructor |
| article ranges | `nrange.h/.cc` | a map from the high to the low end of each range | insert, remove, clip_to_max_total, invert, check, get_total |
| header cache | `cache.h/.cc` (`c_nntp_cache`) | files, parts, server articles; per server low, high, num; `saveit`; the cache file | additem, flush, flushlow, getxrange, load, save |
| retrieved-article store | `cache.h/.cc` (`c_mid_info`) | message-id -> date added, date removed; `changed`; the midinfo file | load, check, insert, remove, set_delete, do_delete_fun, save with merge |
| group update | `prot_nntp.cc` (`nntp_dogroup`, `doxover`, `dolistgroup`, `doxpat`, `nntp_group`) | the answers of GROUP and LISTGROUP, the ranges still to ask for | choose what to flush and what to ask for, fetch, retry |
| XOVER streaming | `prot_nntp.cc` (`doxover`) | commands sent and replies read, `maxstreaming` of the server | stream, read, detect dropped ends |
| connection pool | `sockpool.h/.cc`, `server.h/.cc` | a connection per server with last use and `server_ok`; strikes and penalties | connect, release, expire, penalize |
| saving of files | `cache.cc`, `texthandler.cc`, `grouplist.cc`, `file.cc` | FILE, FILE.tmp | write, close, rename |
| retrieval | `prot_nntp.cc` (`nntp_doretrieve`, `nntp_doarticle`), `cache.cc` (`getfiles`) | posts to get, per article the servers that have not failed for good, temp files | choose, fetch, retry, decode, mark, unmark |
| decoding and duplicates | `decode.cc`, `dupe_file.cc` | temp files, decoded files | decode, rename and remove duplicates |
| autopar | `par.cc`, `knapsack.cc` | per directory the par files put aside, what is claimed, finished sets | put aside, fetch volumes until the damage is covered, give up |
| par2 verification | `par2/` (`Par2Repairer::Process` and what it calls) | packets, where each block was found, the window over a file | read packets, match blocks, count what is missing |
| group list | `grouplist.cc`, `prot_nntp.cc` (`nntp_grouplist`, `nntp_xgrouplist`) | per group, which servers have it and describe it how; per server the date of the last update | load, update, flush, replace, search, save |
| command line | `nget.cc` (`main`, `do_args`), `status.cc` | options so far, what -r has put off, `badskip`; the forced host, the loaded group; error bits | each option, list files, the end, signals |
| metagroups | `cache.cc` (`nntp_cache_getfiles`, `c_nntp_cache_reader`) | several cache files read side by side | merge files of the same subject |
| ngetlite | `lite.cc`, `litenntp.cc` | the list written by `nget -w` | fetch what the list names |
| the rest | `etree.cc`, `cfgfile.*`, `misc.*`, ... | expression trees, helpers | parsing, matching, formatting |

Interactions: `nget.cc` works off its options in order and calls `nntp_group`, which
opens the header cache (reading its file) and the midinfo (under a shared lock),
takes a connection from the pool through a `ConnectionHolder`, sends GROUP and
perhaps LISTGROUP, has `c_nrange` compute what is missing, streams XOVER commands
and puts each header into the cache with `additem`. `nntp_retrieve` asks the cache
for matching files, the midinfo for which were retrieved before, and fetches the
articles from the servers that have them; autopar asks `par2/` what is damaged. Cache and midinfo are saved by their
destructors, an mbox by the text handler; midinfo and mbox under `c_lockfile`, the
header cache and the group list without a lock.

Hard to get right, and hard to test: several ngets at once on the same files; a kill
or a full disk between two steps of a save; articles that arrive and expire while an
update is under way, connections that break in the middle of it; counters, windows
and cached files that must agree after long histories; streamed commands whose
replies are shortened or abandoned; strikes, penalties, idle connections and
failing QUITs in the pool; unsigned numbers at both ends of their type; articles that only one server still has,
posts that are incomplete, damaged or posted twice, temp files left by an earlier nget,
and parity files that are themselves damaged; options that fail half way in a command line
that goes on; objects that one command leaves loaded for the next.
`PROJECT.json` lists these hazards with their lines and the properties that cover
them.

What makes each component correct:

* lock file: it is a reader-writer lock; no live lock file is unlinked; nothing is
  left behind; nobody waits for ever because of the protocol.
* ranges: one map per set, every operation is the set operation it is named for.
* header cache: it is a set of articles; counters and windows agree with it.
* midinfo: no update of a concurrent nget is lost; removal dates do not move back.
* group update: what stays on the server arrives, what was gone is flushed, nothing
  is asked for twice, maxheaders is kept.
* streaming: a line is taken for an answer only to its own command; no deadlock.
* pool: at most maxconnections, a penalized server is not used, and a pooled connection
  is in the group it is taken to be in.
* saving: a reader finds a whole file at any moment.
* retrieval and decoding: what is marked was decoded; what could not be had is
  reported; what some server has is obtained in the end, after any failures.
* autopar: it ends; no more volumes than needed; without an error the set can be
  repaired. Knapsack: the least size that suffices.
* par2 verification: a block is found only where its data is; what is intact is found;
  it ends; as many packets are asked for as are needed.
* metagroups: no article is lost, and groups that agree are read as one.
* group list: a date claims no more than was read; what was learnt is kept.
* command line: retrievals go where they were told to, from the groups that were
  selected, and none is dropped silently.

## 2. The modules

    RWLock, NgetProcess <--+-- LockFile          (LockFile implements RWLock)
                           +-- LockUser <--+-- FileSave
                                           +-- MidInfo

    ArticleStore <----- HeaderCache <----- MetaGroup   (HeaderCache implements ArticleStore)
    Knapsack <--------- Autopar <--------- Retrieve
    FileCheckSummer <-- VerificationHashTable <-- Par2Verify
    GroupList <-------- CommandLine
    SockPool <--------- NntpSession
    NRange       GroupUpdate       XoverStream

    GroupUpdateProofs, HeaderCacheProofs, XoverStreamProofs, CommandLineProofs,
    SharedFilesProofs (of LockFile, FileSave and MidInfo), SockPoolProofs (of SockPool and
    NntpSession), RetrieveProofs (of Retrieve, Autopar and Knapsack), Par2Proofs (of
    Par2Verify, VerificationHashTable and FileCheckSummer)

Arrows point from a module to the one it extends or instantiates. An MC module `MCX`
defines the instance of X for TLC; MCSockPool is that of NntpSession, and MCHeaderCache
and MCGroupUpdate also instantiate MetaGroup and NRange for their assumptions.

**RWLock** is what users of `c_lockfile` rely on: `mode[p]` is the lock a process has.
MidInfo and FileSave take and release their locks by its actions; what both have, the
processes and their lock, is **LockUser**; the processes themselves (`Proc`, `pc`), which
LockFile has too, are **NgetProcess**.

**LockFile** has one action per system call of the fcntl variant of `c_lockfile`. `desc` and
`lk` are a process's descriptor and fcntl lock, `locks` the inode that `FILE.locks`
names, `gate` whether `FILE.locks.locked` exists. `Fail` is a system call that fails
for good, `Exit` the end of a process, failed or killed at a point of `CrashPoints`.

**NRange** has the operations of `c_nrange` as operators on the map: `Inserted`,
`Removed`, `Clipped`, `Gaps` are the code's walks over it, and numbers wrap.
`OperationsRight` says of every set and argument which set comes out. `remove` is
called as the code calls it (`AsCalled`).

**ArticleStore** is the abstract header cache: a set of articles in memory and one on
disk. **HeaderCache** has the code's files (sequence, as the multimap keeps the order
within a key), parts with message-id and articles, `have` of each file, `info` (low,
high, num) per server, `totalnum`, `saveit`, `fileread`. Actions: `AddItem`, `FlushLow`,
`FlushMissing` (after LISTGROUP), `FlushServer` (`nget -F`), `Open`, `OpenTruncated`,
`Close`, `Crash`, and `Configure`, by which servers come and go between runs. `cut` is
a history variable.

**MetaGroup** has, on HeaderCache's lists of files, what `mergefile` moves and leaves
(`Merged`, `LeftOver`), one round of the reader's loop (`Round`) and the list of files
that results (`MetaFiles`).

**MidInfo**: several processes, each with its copy `states[p]`, over one `file`; steps of
load and save are separate so that they interleave; `Flush` is what `set_delete` and
`do_delete_fun` do together when a group is flushed.

**GroupUpdate**: a server whose articles come and go (`Post`, `Expire`), and nget: `Group`
(GROUP, flushlow and the choice of ranges), `ListGroup`, `Reply` and `Line` (XOVER),
`Finish`, `Refused`, `Drop`, `FlushServer`, `Close`, `Kill`. The cache is reduced to what
concerns one server: `held`, `low`, `high`, `saveit`. A `style` says how the server
numbers, expires and reports, and with which fullxover and maxheaders it is used.

**XoverStream**: nget and a server with bounded buffers between them; several sessions
on a connection that the pool keeps. `sent`, `done` and `streamed` are the two
iterators and the counter of `doxover`.

**SockPool**: `conns` is the pool, `holder` the connection the `ConnectionHolder` has,
`count`, `penalty` and `last` the penalties. `ExpireFails`, `EvictFails` and
`ReleaseFails` are the three places where a QUIT may throw. **NntpSession** adds what is
said over the connections: `session[s]` has `curgroup` and `freshconnect` of the
connection and the group its server has `selected`. `Open` is `nntp_doopen`, `AskGroup`
`nntp_dogroup` with its three outcomes, `Articles` the commands for which curgroup is
believed, `Lose` a connection that fails; the pool's actions take part unchanged.

**FileSave**: FILE, FILE.tmp and what processes write through descriptors to inodes,
with their own offsets; truncation by another process leaves holes.

**Knapsack** has `knapsack()` (`Most`, by way of the table and the walk back) and
`knapsack_minsize()` (`Fewest`) as operators. **Autopar** has the state of a `ParInfo`
(`set`) and, as operators on it and on the directory, what the classes of `par.cc`
put aside (`PutAside`), queue (`MorePars`) and are left with (`AfterMorePars`). It has no
actions: the code is called from the retrieval loop, and **Retrieve**, which extends it,
makes those calls part of its own actions. Retrieve's actions follow the loop of
`nntp_doretrieve`: `Start` (which posts match, what autopar puts aside), `Pick`, per part
`SkipPart`, `AlreadyHave`, `NoConnect` or `DoArticle` with `Arrive`, `Gone`, `Broken`, `TryAgain`,
`GiveUp`, `Write`, `WriteFails`; per post `KeepTemps`, `NothingToDecode`, `DecodeErrors`, or
`Decode`, `Unlink`, `MarkDecoded`; `NextFile`, where autopar looks at the directory when no
more is to come into it; `Done`, `Kill`. `Mark` and `Unmark` are runs of nget with -M and -U.
`job` is what the user asks for, the posts, and where their articles are; `earned` is a
history variable.

**FileCheckSummer** is the sliding window over a file as a value `c`, with `Start`, `Step`,
`Jump` and `Fill`, the stale bytes behind the end included; `Crc` is any function.
**VerificationHashTable** has its chains as trees and lists of entries, which `EndOf` walks
along, and `FindMatch` with the suggestion where to look first; `Number` orders the hashes.
**Par2Verify** puts them to use: `LoadPacket`, `Consistent`, `Prepare`, `VerifySource`,
`NextExtra` and `Extras` follow `Par2Repairer::Process`; `Match`, `SkipOn` and `FullMatch`
are one turn of the scan; `Decide` counts; `Begin` and `Report` are nget's loop around
it (`Par2Info::maybe_get_pxxs`). `todo` are the files that are left, each with its place in
the order in which they are taken. In the run a byte is one of three values; an MD5 is the
data. `JobsAssumption` says that par2 files tell the truth (`Truthful`): a block's hash that
comes with a file's description is that of the file's block, a description's hash of the first
part is that of the data, and no file is listed twice.

**GroupList** is the list of newsgroups as a value with its operations. **CommandLine** has
`stack` (the `nget_options` of the command line and of a list file), `phase` (which
part of `do_args` is under way), what `c_prot_nntp` keeps between commands
(`force_host`, `group`, `gcache`, `midinfo`, `glist`), and the file of the group list. An
option is an action; `Search`, `Retrieve` and `NothingPending` carry out what was put off before the option
in `cur` is performed; `ListGroups`, `Describe`, `Fail` and their like are an update of the
group list from one server after another. `asked`, `done`, `learnt` and `flushed` are
history variables.

## 3. The runs

All runs are exhaustive for their bounds.

| run | what it asks | bounds and why they are enough |
|---|---|---|
| `lock` | is `c_lockfile` a reader-writer lock, are waiters served | 3 processes: two that share or contend, a third that makes FILE.locks anew meanwhile; 4 inodes (a descriptor each and the next file); all faults, kills everywhere |
| `cache` | do counters, windows and files agree with the articles; is it a set of articles | 2 servers, 2 numbers, 2 articles at a time, of 3 messages: a part on two servers, two parts in one file, two files of one key; one cut of the cache file. Assumption `MetaReaderRight`: three caches of up to 3, 3 and 2 messages, of 4, in every order of arrival |
| `midinfo` | is an update of another nget ever lost | 2 processes, 2 message-ids, 2 times; keeping times 0 |
| `save_mbox` | is an mbox ever partial or does it lose messages | 2 processes, 3 saves, 4 inodes |
| `pool` | bound, penalties, the group a pooled connection is in | 3 servers, room for 2, 2 strikes, idletimeout 2, at most 1 second between connecting and expiring, 3 seconds: a penalty of 1 and one of 2; 2 groups: the one wanted and the one before |
| `xover` | deadlock, replies taken for others, tries used up | 3 sessions of 4 ranges, maxstreaming 2, 2 commands in the buffer: exactly what 3 streamed commands need with one being served |
| `update` | what an update brings, leaves, asks for; does an article that stays arrive at last | 3 articles (4 when they are added anywhere), the four styles below; 3 make two ranges with a gap. Assumption `RangesRight`: numbers of 3 bits, all 256 sets, every argument, both ends of the type |
| `retrieve` | what is marked, reported and obtained; does nget end | 2 servers, 3 or 4 posts of up to 2 parts (posted again, damaged, incomplete), a par set, at most 2 tries, any number of kills and failures; each option that matters |
| `autopar` | are as many volumes fetched as are needed | par: 2 data files, 3 volumes of which 2 are the same; par2: 3 volumes of 1, 2 and 3 packets and a repost; any of the files absent or damaged (up to 3), one of each damaged so that the decoder does not notice; two par2 volumes that have some packets in common |
| `par2` | is what par2/ finds there, does it find what is intact, is enough asked for, does it end | 2 source files of 1 to 3 blocks of 2 bytes, the last one full or not, that share blocks, are equal, or are contained in each other; up to 3 data files, 10 contents each (cut, shifted, joined, damaged); a file whose last block is cut off where the window still has its end; a file with a block that it has twice, which is in another file, too; 11 odd sets of packets; 2 buckets, so that CRCs collide |
| `commands` | are retrievals done, where they were meant to; what does the group list know | 2 servers, 2 groups and a metagroup of them, up to 5 options, one list file inside; directories that exist, can be made or not; 2 ngets after each other for the list, with a group created meanwhile, signals and kills; `fatal_user_errors` on and off |
| `commands_group` | (violated) see section 4 | the first kind of command lines only |

The styles of `update` are those nget.1 makes fullxover for: 0 for articles added and
removed in order, 1 for articles added anywhere and removed in order, 2 for any
order, and fullxover=1 with maxheaders. What a property promises for some styles only
is in the property (`NothingExtra`).

MCRetrieve also has an assumption, `FewestIsFewest`, with which TLC compares the knapsack
with the definition of what it is for (`IsFewest`): up to 3 items, values and sizes up to
3, every target (`WhatIsLeftIsFewest` proves it of any). In `retrieve` a kill leaves no temp file or a whole one (`KilledTemps`); what a
cut one does is in section 4. Liveness is checked with par, not with par2, where
fairness would have TLC compute the knapsack for every state.

Symmetry is used for processes, servers, inodes and the two messages that claim one
part, in runs of safety properties only.

An assumption is evaluated before the run it belongs to starts: `RangesRight`,
`MissingAsCalled`, `UnseenAsCalled` and `ListedAsCalled` say that `c_nrange` is right and
that the set expressions of GroupUpdate are what the calls of the code compute;
`MetaReaderRight` that reading several groups side by side neither loses an article nor
reads one twice, keeps the order of the files, and, for groups that agree on the
message of every part, makes one file per key with the right `have`.

`TypeOK` of the modules other than LockFile holds too (section 5) but is not part of the runs.

Every property of a passing run is shown to be able to fail: `PROJECT.json` lists for
each a mutant of a mapped definition for which TLC finds it violated.

Deadlock is checked except where the system may really stop: LockFile (a stale gate),
FileSave (the bound on saves), NntpSession (the clock's bound, and the terminated
program), XoverStream (after its last session), CommandLine (after the last nget).

### Fairness

* LockFile: weak fairness of each process's constructor steps and destructor steps and
  of the end of a process that failed. The kernel schedules every process, and users of
  the class do bounded file I/O under the lock. Nothing is assumed about who gets
  the gate, where processes only sleep and retry, so nothing is claimed about who
  passes it.
* XoverStream: weak fairness of nget and of the server: each goes on while its reads and
  writes do not block. A blocked write is what the deadlock consists of.
* Retrieve: nget is run again and again and goes on while it can; some time it is no longer
  killed and the disk has room; and servers that are asked again and again for a post
  that they have send parts of it some time. These are assumptions about the user,
  the machine and the network; without any of them nothing can be obtained. `Ends` rests
  on the progress of nget itself only.
* Par2Verify needs none: `Advances` is a measure that every step brings down, so that it
  ends whatever it finds.
* GroupUpdate: the user keeps updating, an update goes on while
  it can, and from some time on connections do not break. The last is an assumption
  about the network; without it nothing can be promised.

## 4. Where code and documents disagree

One is a run, with the expected violation:

* `commands_group`: when one group is selected and a header cache is loaded, that cache and
  its record of retrieved articles are used whichever group they are of: `-g A -G B -r x`
  retrieves from A. prot_nntp.cc:1094 asserts that this cannot be, but the assertion is
  compiled out unless debugging is configured (configure.in:113), and nget.1:66 says that
  -r matches in the "previously selected group(s)".

Others were met while modelling. They can be reproduced by the change given:

* A 4xx answer to one of several streamed XOVERs ends `doxover` with `server_ok` set;
  the pool keeps the connection although replies are outstanding, and the next session on
  it takes those for answers to its own commands (prot_nntp.cc:94, 417;
  `MCXoverStream_reuse.cfg`).
* The header cache is written to one FILE.tmp by all processes without a lock; two ngets
  mix their data (cache.cc:749), where nget.1:597 promises safety by file locking
  (`MCFileSave_cache.cfg`). The list of newsgroups is written in the same way.
* `mergefile` moves parts out of a file without counting down its `have`: when two groups
  have a post whose first part was posted twice, what is left of the second file seems
  complete, and a file with one part is retrieved as well (cache.cc:226; `ReadsAll`
  with `have = CountedParts`).
* A greeting that refuses the connection is read, but `freshconnect` stays set; when the
  connection is kept and taken again, nget waits for a second greeting until the read times
  out (prot_nntp.cc:1335; in NntpSession only `Lose` and `Release` go on from
  greeting = "refused").
* `additem` lowers `low` with the first header below it, so that an interrupted update
  leaves a gap which fullxover=0 never asks for again, although
  test/test_nget.py:2361 expects articles below the lowest to be found (cache.cc:341;
  `Complete` with articles in order and `adds |-> "below"`).
* With -i a post of which no part could be fetched is marked as retrieved: `decode()`
  without parts returns 0, as after success (decode.cc:163; `MarkedDecoded` in place of
  `CompleteMarkedDecoded`). -N -i marks everything that has no temp files.
* A kill while a temp file is written leaves it cut; every later nget says "already have
  article" and fails to decode it (prot_nntp.cc:1226; `Obtained` with "cut" in
  `KilledTemps`). Temp files are not written under another name first.
* With two -r in one command that match the same par file, it is put aside twice and
  fetched twice, for the `continue` after `maybe_add_parfile` goes on to the next -r
  (cache.cc:284). By reading only: the model has one -r.
* `sap.equal_range(sap.rend()->first)` reads what is no element; which servers are moved
  up is then undefined (prot_nntp.cc:838). By reading; Retrieve leaves their order open.
* fullxover=0 with maxheaders, after an absence longer than maxheaders articles: everything
  above `high` is asked for (prot_nntp.cc:613; `NothingExtra` without its
  condition on fullxover, style in order with limits {1}).
* fullxover=0, a low mark that lags, and a server that answers 420 for an empty range:
  every update ends at that range before it reaches the new articles
  (prot_nntp.cc:417; `Arrives` with `emptyFails`).
* A loaded file keeps the `have` that was counted before the parts of unknown servers were
  removed (cache.cc:643), and so `iscomplete()` is true of files that have lost
  parts with a server that left ngetrc.
* An entry that one nget drops from the midinfo is written back by another that loaded it
  before (cache.cc:1074): the merge has no trace of drops.
* `c_nrange::remove(l,h)` with several ranges and an `h` above them all leaves ranges in
  between (nrange.cc:93). No caller does this (`OperationsRight` without `AsCalled`).
* `Fill()` does not blank the window behind the end of a file: the last block of a file that
  was cut off is found whole if the bytes that are still there from the block before happen
  to fit, and a short last block can be missed (filechecksummer.cpp:131; `FoundWhole` of
  Par2Verify, with the data 1,2,1,2 and the file 1,2,1). Such a block is not counted as
  missing, and one recovery packet too few is asked for: that is why `EnoughAsked` speaks of
  the blocks that are not cut off (`CutOff`; the instance `CutFiles` has one).
* Of par2 volumes that have only some packets in common the common ones count for the first
  that is looked at; the volume with the packets 2 and 3, which would do, is passed over for
  the larger one with 1, 2 and 3 (par.cc:371), where nget.1 says "only download as many par
  files as needed" (`AsNeeded` without `Regular`; the instance `OverlapJobs`).
* A block that two source files share is found for one of them only, when the entry of the
  other is the one that is suggested: nget then fetches more packets than it needs, or the
  set is called beyond repair (verificationhashtable.h:338).
* A source file that is intact is not recognised when it has a block twice that was come upon
  in another file before: of several equal entries one that is found already is not returned,
  although it is the one that was suggested, the suggestion is lost with it, and a short last
  block is found only by way of a suggestion. verificationhashtable.h:371 says that a perfect
  match is found "even if some of the blocks had already been found in a different file", which
  is so for entries that have no equals. `IntactIsFound` excludes it (`Disturbed`); the instance
  `TwiceFiles` has a set that is called beyond repair with a file of it intact.
* A source file without a description packet makes `VerifySourceFiles` fail as if a file
  could not be read (par2repairer.cpp:975).
* When no block can be verified, the hash of a file is computed into an inner `hashfull`
  (par2repairer.cpp:1276), but the outer one (1174), which nothing has set, is
  compared with that of the descriptions. The model leaves the outcome open.
* A list file's -h stays in force for the caller, when this had no host of its own
  (nget.cc:908; `HostHolds` without its condition). -X with a host that does not exist
  asks all servers.
* After -X, -a and -F work on the unnamed list of the search, which is never saved.
* A signal, and --help, drop the retrievals that were put off, with the status so far
  (nget.cc:285, 843; `NothingDropped` with "signal" and "help").
* -r's flags and limits are those in force when it is carried out, not when it was read
  (nget.cc:851). By reading: the model leaves them out.
* A metagroup that contains itself makes `dogetgroups` call itself for ever (server.cc:259).
* A server that answers DATE with nonsense has the local clock's date noted as that of the
  last update of the group list (prot_nntp.cc:163).
* `TIME_T_MAX` is `INT_MAX`: dates after 2038 are taken for "not removed" (cache.h:271).
* `ConnectionHolder`'s constructor runs `expire_connections` over the connection it has
  just taken: with idletimeout=1 and a second that passes, it is deleted while in use
  (sockpool.h:126; with MaxStall = IdleTimeout, holder
  is not in `conns`).
* `connection_erase` means to ignore transport errors but catches `FileEx` only; a failing
  QUIT in `release` during another exception terminates the program (sockpool.cc:75;
  `ReleaseFails` reaches pc = "terminated").

## 5. What is proved

All with TLAPS 1.4.5 (Z3, Zenon, LS4). The constants are those of the modules with the
assumptions stated there; where a theorem assumes more, it says so. Each module `XProofs`
defines the inductive invariant `IInv` of X (SharedFilesProofs has three, `LockInv`, `SaveInv`
and `MidInv`), proves `Invariance` (`Spec => []IInv`), and from it what follows. TLC has checked the invariants on the instances of the runs before
they were proved.

| module | theorems (and the property of a run each states) |
|---|---|
| `SharedFilesProofs` | of the lock: `LockTypeCorrect` (`TypeOK`); `Exclusion` (`MutualExclusion`); `NeverUnlinksLive` (`LockIsLive`); `LockRefinement` (`IsRWLock`); `WaiterIsNext`; `StaleGateBlocks`; `NothingLeftBehind`; of the files: `FileIsWhole` (`WholeFile`), `FileIsKept` (`FileStays`) and `SaveUsesLock`, when `Locked`; `MergeJoins`; `MidTypeCorrect`; `WhatIsSaved` (`AllSaved`); `NoneLost` (`NothingLost`); `RemovalNeverUndone` (`RemovalKept`); `MidUsesLock` |
| `SockPoolProofs` | `TypeCorrect`; `NeverTooMany` (`PoolBound`); `PenaltyNotEvaded` (`StruckNotPooled`); `PenaltyLengthens` (`PenaltyRunsOut`); `SessionUsesPool`; `CurgroupIsSelected` (`CurgroupTrue`) |
| `GroupUpdateProofs` | `RangesPartition`; `NeverAskedTwice` (`AsksOnce`); `LowAndHighEnclose`; `UpdateBringsAll` (`Complete`) when `InOrderSettings`; `UpdateBringsNothingElse` (`NothingExtra`) when `LimitedSettings` |
| `HeaderCacheProofs` | `TypeCorrect`; `CountersAreRight` (`CountersRight`); `NoFileGivenUp` (`HaveCovers`); `ImplementsStore` (`IsArticleStore`) |
| `RetrieveProofs` | `TypeCorrect`; `OnlyDecodedMarked` (`CompleteMarkedDecoded`); `FailureIsReported` (`Reported`); `SetIsRepairable` (`Repairable`); `WhatIsLeftIsFewest` (of the knapsack); `NoMoreThanNeeded` (`AsNeeded`) |
| `Par2Proofs` | `WindowFollowsAlways` (`WindowFollows`); `FoundIsThereAlways` (`FoundIsThere`); `EnoughAskedAlways` (`EnoughAsked`); `AdvancesAlways` (`Advances`) |
| `CommandLineProofs` | `TypesAreRight`; `RetrievedAsAsked` (`StoredWhereSaid`); `NothingIsDropped` (`NothingDropped`); `HostIsHeld` (`HostHolds`); `DatesAreKnown` (`KnownByDate`); `ListIsKept` (`ListKept`); `ListedAdds` and `FlushedForgets` |
| `XoverStreamProofs` | `TypeCorrect`; `OneRetryIsEnough` (`NotGivenUp`) when `MaxRetry >= 2`; `InStep` and `NoLineMistaken` (`ReplyAnswers`) when `ErrorsAtEnds` |

### The arguments

*Lock file*, for any set of processes and inodes, whatever fails and whoever is killed.
Mutual exclusion is not inductive: fcntl only compares locks on one inode, so one has to
know that all locks are on one inode although `FILE.locks` is unlinked and made anew. `LockInv`
therefore says that at most one process is behind the gate, which is closed meanwhile
(`OneBehindGate`); that every lock is on the inode that `FILE.locks` names now
(`LocksAreLive`); that the process behind the gate knows that inode, and, when it is about
to unlink it, that nobody has a lock (`GateKnowsFile`); and that locks are compatible
(`LocksCompatible`). Each action preserves each part; a stale gate only makes fewer steps
possible. For `NothingLeftBehind`, which is for no failures and kills, the invariant is
joined by `Tended`: a closed gate has an owner, and a linked `FILE.locks` has a process that
is still to pass the destructor's test. That MidInfo and FileSave use the lock as its class
promises (`MidUsesLock`, `SaveUsesLock`) ties their proofs to this one.

*Saving*, for any number of processes and messages. A whole file says nothing about the
inode a process is still writing. `SaveInv` adds that only the one with the lock works on the
file (`Alone`), that FILE.tmp is another inode than FILE (`Apart`: a rename takes the name
away), and that what has been written is the beginning of what is to be (`Progress`).
`Locked` is the mbox; for the cache and the list of newsgroups, which are saved without a
lock, the theorems are false (section 4).

*Midinfo*, for any processes, messages and dates. `MergeJoins`: merging is the join, message
by message, of what is known, with the later date of removal. `LockWhere` says which lock
belongs to which step, `Progress` that a process which has merged under the exclusive lock
knows no less than the file, until it has written it. Nothing is lost because the file
cannot change between the merge and the rename.

*Pool and sessions*, for any servers and groups. `PoolBound` needs that the pool is finite,
and `StruckNotPooled` that the holder's server is not penalized until `release()` judges it
(`HolderFit`): `connect()` asks `check_penalized()` first. `SessionUsesPool` shows that
every step of NntpSession is one of SockPool or leaves the pool alone, and so all of this
holds of sessions. The invariant of `CurgroupIsSelected` is that of every pooled session, in
use or not.

*Group update*, for any number of articles and any set of styles. `IInv` relates the cache
in memory and in the file to the server: what is held has existed and lies in low .. high
(`Sound`, of both), removed articles lie below the others when the server removes the lowest
(`RemovedBelow`), and what is still to be asked for is disjoint from what is held, range by
range (`Asking`); what flushing leaves is alive (`Leaving`). `UpdateBringsAll` needs in
addition that nothing up to `high` is missing with fullxover=0 (`Ordered`), and that is true
only when articles are numbered in order and maxheaders is not used with it:
`InOrderSettings` (nget.1 advises fullxover=0 for servers that number in order).
`UpdateBringsNothingElse` needs that what is held and what is asked for fit together in
maxheaders numbers (`Within`), and assumes `LimitedSettings`: a server that reports an empty
group as 0 0 0 gets nothing flushed with fullxover=1, so that maxheaders is exceeded by the
headers that stay. The styles of the run satisfy both.

*Header cache*, for any servers, messages and articles. The counters are right only together
with the files: `Counts` says of memory, and `DiskCounts` of the cache file, that `num` of a
server is the number of its articles, `totalnum` that of the parts, and that every article
lies in its server's window; a file that was cut short has numbers that are too high, hence
the two forms of it. `Unsaved` says that with `saveit` clear memory and file have the same
articles. `ImplementsStore` maps every action to one of ArticleStore or a stutter.

*Retrieval with autopar*, for any posts, servers, faults and kills. `CompleteMarkedDecoded`
is inductive with `Accounted` (every part of the post in hand is had, or still to come, or
there was an error), `Working` and `Decoded` (at the marking the post has been decoded).
`Reported` needs `Pending`: as long as there was no error, every post that is wanted is
settled or in the queue. It rests on each file having a part (`Post`), for `decode()` takes
a post without parts for a success; the cache has no such file (`TypeCorrect` of
HeaderCacheProofs).

*What autopar fetches*. `SetIsRepairable` rests on files only being added (`ParInv`): what can
be repaired stays so, `finished` is "ok" only when nothing is needed, and "failed" goes with a
status. `NoMoreThanNeeded` is in four parts. The knapsack: the folds and the recursive functions of
`Most` are first shown to exist, by a least counterexample, and then each entry of the table
is the most that fits among the items so far, the way back through it picks a set of that
value, and what is left out of it is the least that suffices (`WhatIsLeftIsFewest`, for any
items). The volumes by the packets they have: for volumes of which no two have only some
packets in common (`Regular`) the packets of several are as many as the sum of what
each brings. The order in which volumes are put aside: what was queued is
not among what is put aside (`SetInv`), so that a volume is counted once. And par volumes,
which have one packet each, are taken in order until there are enough.

*par2 verification*, for any par2 files and directories, block sizes, numbers of buckets and
CRCs. The invariant of the window (`CheckSummerInv`) says that `buffer` holds the file from
`at - out` on, as far as `tail`, and that `tail` is either at the end of the buffer or at the
end of the file; what lies behind `tail` is anything. Of the table it says only what `FindMatch`
relies on: links lead to later entries, so that every walk ends, and each entry is a block
of a file that is known (`LoadedTables`). The order of the search trees is not needed for
`FoundIsThere`: `FindMatch` compares CRC and hash with those of the window, and so what
it returns, in whichever way it was come upon, is in the window (`MatchShows`), as much of it
as the file has (`FoundInWindow`). `EnoughAsked` counts: a block that is in no file was not
found, unless it was cut off, and so what is lost is missing (`LostIsMissing`), and `Decide`
asks for what is missing. `Advances` compares stages, the files that are left, and the offset in the
file, which `Step` and `Jump` only increase. `FoundIsThere` and `EnoughAsked` are about files whose
blocks have checksums, or that are short enough for their first hash (`Trusted`): for others
an uninitialized hash decides (section 4).

*Command line*, for any options in any order, list files, servers and groups, and any number
of ngets one after another. `Inv` is `Typed`, `StackInv` and `ListInv` together, and none of
the five invariants of the run is inductive without the others. `StackInv` says of each
frame of the stack that its paths are what the options before them said, or that there was an
error, and that what is pending in it was asked for (`FrameInv`); that only the innermost
frame has anything pending, as `-@` carries it out first (`FramesInv`); that a header cache in
memory belongs to the record that is in memory with it (`LoadedTogether`), without which
`StoredWhereSaid` is lost at the next option; and that, while there was no error, what was
asked for is done or pending (`Pending`). `ListInv` follows the list of groups through
loading, asking several servers, failing half-way and saving: the list in memory goes with the
file (`GoesWith`: unless it has to be saved, it has the same groups for the servers
that are configured), what was learnt since is in it and what was flushed is not
(`ListHeld`), the date that is being asked for covers groups that are there (`JobInv`), and
dates are those of groups that are known, in memory and in the file (`DatesKnown`). `Idle`
says that no answer is left over from one listing to the next. That names stand for groups is
an assumption (`NamesAssumption`): no metagroup is part of itself, which `dogetgroups`
(server.cc:249) would not come to the end of.

*Streaming*, for any number of ranges, sessions, buffers and any `maxstreaming`. `Once` ties
`sent`, `done`, `streamed` and `redone` together: with streaming off at most one reply is
outstanding, and so no other can begin inside it. `Conversation` says what is on the
connection, in lines and commands together: the lines to come are of this session, follow
each other as a server writes them up to the last command it has taken up, and begin where
nget reads; a connection that is kept is quiet. `ErrorsAtEnds` (only GROUP and the last
range are answered with 4xx, or nothing is streamed) is what makes it so: without it
`ReplyAnswers` is false (section 4, `MCXoverStream_reuse.cfg`). Which replies lose their
ends does not matter.

### What stays with TLC

Liveness under fairness (`SetlkServed`, `SessionsEnd`, `Arrives`, `Ends`, `Obtained`) and
ENABLED are beyond the prover. The library's induction over data cannot be used, as its
theorems take operators; where a fold or a recursive function had to be reasoned about (sums,
the knapsack, the group list, the hash table) the proofs take a least counterexample instead.
That has not been done for `RangesRight` (the walks of `c_nrange`, with numbers that wrap),
`MetaReaderRight` (several lists of files read side by side), nor for `IntactIsFound`: that a
block is found if it is there needs the order of the search trees (`TableRight`, which TLC
checks with it), and which of several equal entries is suggested next, over a whole scan.

## 6. What is not modelled

ngetlite is planned (below). Parsing (subjects, dates, ngetrc,
regular expressions), matching, formatting and terminal output are left out: they
have no state that survives them. uulib is other people's code, and so are the hashes and
the Par1 classes of `par2/`, which nget does not use. Of the command line, options that
set a flag or a number for a retrieval are left out, and so are `meta_mid_info`, which
passes marks on to the stores of a file's groups, and the text of messages. The
liblockfile and Windows branches of `c_lockfile` are not built here.

Abstractions that matter: in GroupUpdate the cache is the set of numbers of one
server; in XoverStream timeouts of reads are left out, and the server refuses only
ranges before which no reply lost its end; in HeaderCache the cache file is cut at
most once, in the last session; penalties are integers. In Retrieve there is one directory, one parity set and one -r
that matches everything; the order in which servers are tried is open; `GROUP` and the
current group are in NntpSession only; a part is one byte, and all incomplete or damaged copies of
a post have the same content; of a par2 set the best copy of a file counts, and
only the packets in undamaged par files; text posts, the status line and nget -w are
left out. In NntpSession a server forgets its group only when it is asked for one that it does
not have. In CommandLine a retrieval is an entry in `done`, patterns are
good or bad, and every directory is one whose last parts may be missing. In Par2Verify
two different data never have one MD5, all files are recoverable ones, and nothing changes
in the directory while it is looked at.

## 7. Plan

Order of importance; each new module gets its run by merging runs that ask the same
question.

1. *Cache and midinfo together*: `bamid()` as the name of a file while its lowest part comes
   and goes; HeaderCache with GroupUpdate's choice of ranges after a truncated load.
2. *Retrieval over sessions*: Retrieve over NntpSession: an article that a server has is not
   lost to a penalty.
3. *ngetlite*: the list of `nget -w` worked off with restarts.
4. *Proofs*: `IntactIsFound` of Par2Verify, by way of the order of the search trees; `RangesRight`
   of NRange.
