---------------------------- MODULE GroupUpdate ----------------------------
(***************************************************************************)
(* Updating the headers of one group from one server (prot_nntp.cc:        *)
(* nntp_dogroup, dolistgroup, doxover; cache.cc: additem, getxrange,       *)
(* flushlow, flush).  GROUP tells the lowest and the highest article       *)
(* number of the group; together with what the cache has from this server  *)
(* they give the numbers to ask XOVER for.  How much is asked for depends  *)
(* on the fullxover setting.                                               *)
(*                                                                         *)
(* A header is its article number here.  How the cache files headers is    *)
(* HeaderCache's matter, ranges as a data structure are NRange's, and the  *)
(* streaming of the XOVER commands is XoverStream's.                       *)
(***************************************************************************)
EXTENDS Integers, FiniteSetsExt

CONSTANTS
  MaxArticle,    \* bound on the article numbers
  NoLimit,       \* maxheaders=-1
  Styles,        \* servers and the settings they are used with
  Crashes        \* whether nget may be killed

Article == 1 .. MaxArticle
ULongMax == MaxArticle + 1

\* A style of server and of use.
Style ==
  [last       : Article,                          \* bound: the highest number it gives
   adds       : {"above", "below", "any"},        \* where articles are added: above the highest, also below the lowest, or anywhere
   expires    : {"lowest", "any"},                \* which article is removed
   lowLags    : BOOLEAN,                          \* the low number reported may be too low
   zeros      : BOOLEAN,                          \* a group without articles may be reported as 0 0 0
   emptyFails : BOOLEAN,                          \* XOVER of a range without articles is an error (RFC 2980: 420)
   modes      : SUBSET (0 .. 2),                  \* the values fullxover takes
   limits     : SUBSET (0 .. MaxArticle \cup {NoLimit})]   \* the values maxheaders takes

ASSUME GroupUpdateAssumption ==
  /\ MaxArticle \in Nat \ {0} /\ NoLimit = -1
  /\ Styles \subseteq Style /\ Crashes \in BOOLEAN

VARIABLES
  style,   \* the server's and the user's
  arts,    \* server: the articles it has
  used,    \* server: the numbers it has given to articles
  cache,   \* the server's headers in the cache, its low and high, and whether to save (saveit)
  saved,   \* the same in the cache file
  phase,   \* "idle", "list" (LISTGROUP was sent) or "fetch" (in doxover)
  limit,   \* maxheaders
  marks,   \* the low and high GROUP reported
  asked,   \* the ranges <<low, high>> whose XOVER reply is still to be read
  lines,   \* the articles the reply that is being read has yet to list
  offer,   \* history: the articles this update is to bring
  alive    \* history: the articles there have been since this update began

server == <<style, arts, used>>
update == <<phase, limit, marks, asked, lines, offer, alive>>
vars == <<server, cache, saved, update>>

NoCache == [held |-> {}, low |-> ULongMax, high |-> 0, saveit |-> FALSE]

Init ==
  /\ style \in Styles
  /\ arts = {} /\ used = {}
  /\ cache = NoCache /\ saved = NoCache
  /\ phase = "idle" /\ limit = NoLimit /\ marks = <<0, 0>>
  /\ asked = {} /\ lines = {} /\ offer = {} /\ alive = {}

-----------------------------------------------------------------------------
(* The server. *)

Lowest(S) == Min(S \cup {ULongMax})
Highest(S) == Max(S \cup {0})

Post(n) ==
  /\ n \notin used /\ n <= style.last
  /\ style.adds = "above" => n > Highest(used)
  /\ style.adds = "below" => n > Highest(used) \/ n < Lowest(used)
  /\ style.expires = "lowest" => n > Highest(used \ arts)
  /\ arts' = arts \cup {n} /\ used' = used \cup {n}
  /\ alive' = alive \cup {n}
  /\ UNCHANGED <<style, cache, saved, phase, limit, marks, asked, lines, offer>>

Expire(n) ==
  /\ n \in arts
  /\ style.expires = "lowest" => n = Lowest(arts)
  /\ arts' = arts \ {n}
  /\ UNCHANGED <<style, used, cache, saved, update>>

\* What GROUP may report.  A group without articles has a low that is one
\* above its high, or zeros (RFC 3977, 6.1.1.2).
Marks ==
  LET high == Highest(used)
      low == IF arts = {} THEN high + 1 ELSE Lowest(arts)
  IN {<<l, high>> : l \in IF style.lowLags THEN 1 .. low ELSE {low}}
     \cup IF arts = {} /\ style.zeros THEN {<<0, 0>>} ELSE {}

-----------------------------------------------------------------------------
(* The cache. *)

\* flush(): the headers numbered in gone go, but only between low and high;
\* low - 1 wraps, and then nothing goes.
Flushed(c, gone) ==
  LET left == c.held \ (IF c.low = 0 THEN {} ELSE gone \cap (c.low .. c.high))
  IN [c EXCEPT !.held = left, !.saveit = @ \/ left # c.held]

\* flushlow().
FlushedLow(c, newlow) == [Flushed(c, 0 .. newlow - 1) EXCEPT !.low = newlow]

\* Wrong: high stays.
WithItemHighStays(c, n) ==
  [c EXCEPT !.held = @ \cup {n}, !.saveit = TRUE, !.low = IF n < @ THEN n ELSE @]

\* additem().
WithItem(c, n) ==
  [c EXCEPT !.held = @ \cup {n}, !.saveit = TRUE,
            !.high = IF n > @ THEN n ELSE @,
            !.low = IF n < @ THEN n ELSE @]

-----------------------------------------------------------------------------
(* What to ask for. *)

\* The ranges of a set of numbers.
Ranges(S) ==
  {r \in S \X S : r[1] <= r[2] /\ r[1] .. r[2] \subseteq S /\ r[1] - 1 \notin S /\ r[2] + 1 \notin S}

\* c_nrange::insert(low, high) into an empty object.  When low is above high
\* the object gets this one range, which has no numbers in it.
RangesOf(low, high) == IF low > high THEN {<<low, high>>} ELSE Ranges(low .. high)

\* getxrange(newlow, newhigh): everything from newlow, or low if that is lower,
\* that the cache does not have.
Missing(c, newlow, newhigh) ==
  LET low == IF newlow < c.low THEN newlow ELSE c.low
  IN IF low > newhigh THEN RangesOf(low, newhigh) ELSE Ranges((low .. newhigh) \ c.held)

\* fullxover=0: what is above high, and what is below low.
Unseen(c, newlow, newhigh) ==
  IF c.high = 0 THEN RangesOf(newlow, newhigh)
  ELSE Ranges((IF c.high < newhigh THEN c.high + 1 .. newhigh ELSE {})
              \cup (IF c.low > newlow THEN newlow .. c.low - 1 ELSE {}))

\* The low that maxheaders leaves.
ClipMark(m, max) ==
  IF max # NoLimit /\ m[2] >= max /\ m[1] < m[2] - max + 1 THEN m[2] - max + 1 ELSE m[1]

\* clip_to_max_total() on what LISTGROUP gave.
Clip(S, max) ==
  IF max = NoLimit THEN S ELSE {n \in S : Cardinality({m \in S : m > n}) < max}

-----------------------------------------------------------------------------
(* An update. *)

\* Wrong: high is moved before the headers are there.
FetchMovesHigh(c, ranges) ==
  /\ cache' = [c EXCEPT !.high = Max({@} \cup {r[2] : r \in ranges})]
  /\ asked' = ranges /\ lines' = {} /\ phase' = "fetch"

Fetch(c, ranges) == cache' = c /\ asked' = ranges /\ lines' = {} /\ phase' = "fetch"

\* LISTGROUP is not used on the first update nor when all of the cache's
\* headers are older than what the server has.
UsesListgroup(mode, m) == mode = 2 /\ cache.high # 0 /\ cache.high >= m[1]

\* GROUP, its reply, and the choice of what to do.
Group(mode, max) ==
  /\ phase = "idle"
  /\ \E m \in Marks :
       /\ marks' = m /\ limit' = max /\ alive' = arts
       /\ IF UsesListgroup(mode, m)
          THEN phase' = "list" /\ UNCHANGED <<cache, asked, lines, offer>>
          ELSE LET low == ClipMark(m, max)
                   c == IF low > cache.low THEN FlushedLow(cache, low) ELSE cache
               IN /\ Fetch(c, IF mode = 0 THEN Unseen(c, low, m[2]) ELSE Missing(c, low, m[2]))
                  /\ offer' = {n \in arts : low <= n /\ n <= m[2]}
  /\ UNCHANGED <<server, saved>>

\* Wrong: what is no longer listed stays in the cache.
ListGroupKeeps ==
  /\ phase = "list"
  /\ LET existing == Clip(arts, limit)
         c == [cache EXCEPT !.low = Min(existing \cup {cache.low})]
     IN Fetch(c, Ranges(existing \ c.held)) /\ offer' = existing
  /\ UNCHANGED <<server, saved, limit, marks, alive>>

\* The reply to LISTGROUP: everything it does not list is flushed.
ListGroup ==
  /\ phase = "list"
  /\ LET existing == Clip(arts, limit)
         c == [Flushed(cache, Article \ existing) EXCEPT !.low = IF existing = {} THEN marks[1] ELSE Min(existing)]
     IN Fetch(c, Ranges(existing \ c.held)) /\ offer' = existing
  /\ UNCHANGED <<server, saved, limit, marks, alive>>

\* Ranges are asked for and answered in the order of the map.
First == CHOOSE r \in asked : \A q \in asked : r[2] <= q[2]
Holds(r) == {n \in arts : r[1] <= n /\ n <= r[2]}

\* The reply to the next XOVER begins.
Reply ==
  /\ phase = "fetch" /\ asked # {} /\ lines = {}
  /\ style.emptyFails => Holds(First) # {}
  /\ lines' = Holds(First) /\ asked' = asked \ {First}
  /\ UNCHANGED <<server, cache, saved, phase, limit, marks, offer, alive>>

\* A line of the reply.
Line ==
  /\ phase = "fetch" /\ lines # {}
  /\ cache' = WithItem(cache, Min(lines)) /\ lines' = lines \ {Min(lines)}
  /\ UNCHANGED <<server, saved, phase, limit, marks, asked, offer, alive>>

\* doxover() returns.
Finish ==
  /\ phase = "fetch" /\ asked = {} /\ lines = {}
  /\ phase' = "idle"
  /\ UNCHANGED <<server, cache, saved, limit, marks, asked, lines, offer, alive>>

GiveUp == phase' = "idle" /\ asked' = {} /\ lines' = {}

\* An error reply to XOVER.
Refused ==
  /\ phase = "fetch" /\ asked # {} /\ lines = {}
  /\ style.emptyFails /\ Holds(First) = {}
  /\ GiveUp
  /\ UNCHANGED <<server, cache, saved, limit, marks, offer, alive>>

\* The connection breaks.
Drop ==
  /\ phase # "idle"
  /\ GiveUp
  /\ UNCHANGED <<server, cache, saved, limit, marks, offer, alive>>

\* Wrong: low and high are kept.
FlushServerKeepsMarks ==
  /\ phase = "idle"
  /\ cache' = Flushed(cache, Article)
  /\ UNCHANGED <<server, saved, update>>

\* nget -F: the server's headers are flushed and its low and high forgotten.
FlushServer ==
  /\ phase = "idle"
  /\ cache' = [Flushed(cache, Article) EXCEPT !.low = ULongMax, !.high = 0]
  /\ UNCHANGED <<server, saved, update>>

\* The cache is closed, which saves it if there is something to save, and is
\* read again for the next update.  A file is not begun for an empty cache.
Close ==
  /\ phase = "idle"
  /\ \/ cache.saveit /\ saved' = [cache EXCEPT !.saveit = FALSE]
     \/ ~cache.saveit /\ saved' = saved
     \/ cache.held = {} /\ saved = NoCache /\ saved' = saved
  /\ cache' = saved'
  /\ UNCHANGED <<server, update>>

\* nget is killed, and started again.
Kill ==
  /\ Crashes
  /\ cache' = saved
  /\ GiveUp
  /\ UNCHANGED <<server, saved, limit, marks, offer, alive>>

Step == ListGroup \/ Reply \/ Line \/ Finish \/ Refused

Next ==
  \/ \E n \in Article : Post(n) \/ Expire(n)
  \/ \E mode \in style.modes, max \in style.limits : Group(mode, max)
  \/ ListGroup \/ Reply \/ Line \/ Finish \/ Refused
  \/ Drop \/ FlushServer \/ Close \/ Kill

Spec == Init /\ [][Next]_vars

\* The user goes on updating the group, the server answers, and a time comes
\* when the connection does not break and nget is not killed any more.
Fairness ==
  /\ WF_vars(\E mode \in style.modes, max \in style.limits : Group(mode, max))
  /\ WF_vars(Step)
  /\ <>[][Drop \/ Kill => Finish \/ Refused \/ Close]_vars   \* these may leave the same state

FairSpec == Spec /\ Fairness

-----------------------------------------------------------------------------
(* Properties. *)

Caches == [held : SUBSET Article, low : 0 .. ULongMax, high : 0 .. MaxArticle, saveit : BOOLEAN]

\* Types; the cache file has nothing to save.
TypeOK ==
  /\ style \in Styles /\ used \subseteq 1 .. style.last /\ arts \subseteq used
  /\ cache \in Caches /\ saved \in Caches /\ ~saved.saveit
  /\ phase \in {"idle", "list", "fetch"} /\ limit \in style.limits \cup {NoLimit}
  /\ marks \in (0 .. ULongMax) \X (0 .. MaxArticle)
  /\ asked \subseteq (0 .. ULongMax) \X (0 .. MaxArticle) /\ lines \subseteq Article
  /\ offer \subseteq Article /\ alive \subseteq Article
  /\ phase = "idle" => asked = {} /\ lines = {}

\* Headers are between the low and the high of their server: flush() looks
\* nowhere else, and fullxover=0 asks for nothing in between.
HeldInside == \A n \in cache.held : cache.low <= n /\ n <= cache.high

\* nget never asks for a header it has: additem() would count it twice.
AsksOnce ==
  /\ \A r \in asked : \A n \in r[1] .. r[2] : n \notin cache.held
  /\ lines \cap cache.held = {}

\* After an update the cache has every article that the server had when it
\* began and still has (and that maxheaders allows), however many updates
\* before it were cut short.  This is for fullxover=0 only when articles are
\* added in order.
Complete == [][Finish => offer \cap arts \subseteq cache.held]_vars

\* After an update nothing is in the cache that was gone before it began: with
\* LISTGROUP always, without it when articles are removed in order and the low
\* mark follows.  And when fullxover is not 0 there are at most maxheaders.
NothingExtra ==
  [][Finish =>
       /\ \/ style.modes = {2}
          \/ style.expires = "lowest" /\ ~style.lowLags /\ ~style.zeros
          => cache.held \subseteq alive
       /\ limit # NoLimit /\ 0 \notin style.modes => Cardinality(cache.held) <= limit]_vars

\* An article that stays on the server gets into the cache, and again after
\* nget -F, unless maxheaders keeps it out or a refused range ends every update.
Arrives ==
  ~style.emptyFails /\ style.limits = {NoLimit} =>
    \A n \in Article : <>[](n \in arts) => []<>(n \in cache.held)
=============================================================================
