---------------------------- MODULE ArticleStore ----------------------------
(***************************************************************************)
(* What a group's header cache (c_nntp_cache) is to the rest of nget: a    *)
(* set of articles, each a server, the number the article has there and    *)
(* the message it is.  While nget works on the group a copy is in memory;  *)
(* between runs only the cache file exists.  HeaderCache shows that the    *)
(* files, parts and server articles the code keeps do implement this.      *)
(***************************************************************************)
CONSTANTS Server, Number, Msg

VARIABLES
  open,    \* whether a cache object exists
  mem,     \* the articles in it
  disk,    \* the articles in the cache file
  cfg,     \* the servers that are configured
  cut      \* whether the cache file was once found cut short

ASInit == open = FALSE /\ mem = {} /\ disk = {} /\ cfg = Server /\ cut = FALSE

Article == [server : Server, num : Number, msg : Msg]

Of(arts, servers) == {a \in arts : a.server \in servers}

\* Opening the cache drops the articles of servers that are not configured,
\* and those that a cut has taken.
ASOpen ==
  /\ ~open
  /\ open' = TRUE
  /\ \/ mem' = Of(disk, cfg) /\ UNCHANGED cut
     \/ mem' \in SUBSET Of(disk, cfg) /\ cut' = TRUE
  /\ UNCHANGED <<disk, cfg>>

ASAdd ==
  /\ open
  /\ \E a \in Article : mem' = mem \cup {a}
  /\ UNCHANGED <<open, disk, cfg, cut>>

\* Flushing removes articles of one server, all that it has of their numbers.
ASFlush ==
  /\ open
  /\ mem' \subseteq mem
  /\ \E s \in Server : \A a \in mem \ mem' : a.server = s
  /\ \A a \in mem \ mem', b \in mem' : a.server # b.server \/ a.num # b.num
  /\ UNCHANGED <<open, disk, cfg, cut>>

\* Closing writes what is in memory, or nothing when nothing would be lost.
ASClose ==
  /\ open
  /\ open' = FALSE /\ mem' = {}
  /\ \/ disk' = mem
     \/ disk' = disk /\ (cut \/ mem = Of(disk, cfg))
  /\ UNCHANGED <<cfg, cut>>

ASCrash ==
  /\ open
  /\ open' = FALSE /\ mem' = {}
  /\ UNCHANGED <<disk, cfg, cut>>

ASConfigure ==
  /\ ~open
  /\ cfg' \in SUBSET Server
  /\ UNCHANGED <<open, mem, disk, cut>>

ASNext == ASOpen \/ ASAdd \/ ASFlush \/ ASClose \/ ASCrash \/ ASConfigure

ASSpec == ASInit /\ [][ASNext]_<<open, mem, disk, cfg, cut>>
=============================================================================
