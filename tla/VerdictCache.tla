---------------------------- MODULE VerdictCache ----------------------------
(***************************************************************************)
(* The cache of online verdicts (platform/domain_cache.py; ip_cache.py has *)
(* the same code), the detection threads that fill it and the edits of the *)
(* threat-intelligence configuration that clear it (query_threatintel_     *)
(* domain, query_threatintel_ip, app/routers/threatintel.py).              *)
(*                                                                         *)
(* Not what a verdict says is modelled but how old the configuration is it *)
(* was reached under.  A thread reads the table of sources when it starts  *)
(* and the fusion strategy seconds later, when the sources have answered;  *)
(* an edit in between outdates its conclusion.  "outdated" is Current, or  *)
(* the seconds since the first edit of something the conclusion rests on,  *)
(* counted up to Horizon.  An entry whose time-to-live has run out (left   *)
(* = 0) keeps its place until a lookup deletes it.                         *)
(***************************************************************************)
EXTENDS Integers, Sequences

CONSTANTS
    Domains,        \* normalized cache keys
    Workers,        \* threads of the detection pool
    Editors,        \* requests that edit the configuration
    Edits,          \* the kinds of edits made
    MaxSize,        \* _maxsize()
    TTL,            \* _ttl(), in seconds
    QueryBound      \* longest time from reading the sources to put

ASSUME SizeAssumption == MaxSize \in Nat \ {0}
ASSUME TimeAssumption == TTL \in Nat \ {0} /\ QueryBound \in Nat
ASSUME EditsAssumption == Edits \subseteq {"sources", "unlisted", "strategy"}

VARIABLES
    cache,          \* _CACHE: the entry of each domain, or Absent
    order,          \* keys of the OrderedDict, least recently used first
    work,           \* phase of each worker
    asked,          \* the domain each worker was last asked about
    editing         \* the edit each editor has committed and not cleared for

cacheVars == <<cache, order, work, asked, editing>>

Current == -1
Horizon == QueryBound + TTL + 1
Outdatings == Current..Horizon

Absent == [left |-> -1, outdated |-> Current]
Idle == [phase |-> "idle", age |-> 0, outdated |-> Current]

CacheTypeOK ==
    /\ cache \in [Domains -> [left : 0..TTL, outdated : Outdatings] \union {Absent}]
    /\ order \in Seq(Domains)
    /\ Len(order) <= MaxSize
    /\ work \in [Workers -> [phase : {"idle", "querying", "fused"},
                             age : 0..QueryBound, outdated : Outdatings]]
    /\ asked \in [Workers -> Domains]
    /\ editing \in [Editors -> Edits \union {"none"}]

CacheInit ==
    /\ cache = [d \in Domains |-> Absent]
    /\ order = << >>
    /\ work = [w \in Workers |-> Idle]
    /\ asked \in [Workers -> Domains]
    /\ editing = [e \in Editors |-> "none"]

Live(d) == cache[d].left > 0

Without(d) == SelectSeq(order, LAMBDA e : e # d)

-----------------------------------------------------------------------------
(* Lookups and conclusions.                                                *)

\* get on a live entry: it is served and moved to the end of the order.
Hit(d) ==
    /\ Live(d)
    /\ order' = Append(Without(d), d)
    /\ UNCHANGED <<cache, work, asked, editing>>

\* get otherwise: an expired entry is deleted, and the worker reads the
\* enabled sources and queries them.
Miss(w, d) ==
    /\ work[w].phase = "idle"
    /\ ~Live(d)
    /\ cache' = [cache EXCEPT ![d] = Absent]
    /\ order' = Without(d)
    /\ work' = [work EXCEPT ![w] = [Idle EXCEPT !.phase = "querying"]]
    /\ asked' = [asked EXCEPT ![w] = d]
    /\ UNCHANGED editing

\* No source to ask, the path degraded, or no source concluded: the answer
\* is given and nothing is cached.
Abandon(w) ==
    /\ work[w].phase = "querying"
    /\ work' = [work EXCEPT ![w] = Idle]
    /\ UNCHANGED <<cache, order, asked, editing>>

\* run_fusion with the strategy of this moment.
Fuse(w) ==
    /\ work[w].phase = "querying"
    /\ work' = [work EXCEPT ![w].phase = "fused"]
    /\ UNCHANGED <<cache, order, asked, editing>>

\* The key removed by put, if any: the least recently used one.
Evicted(keys) == IF Len(keys) > MaxSize THEN {Head(keys)} ELSE {}

\* put.
Store(w) ==
    LET d == asked[w]
        keys == Append(Without(d), d)
    IN  /\ work[w].phase = "fused"
        /\ order' = IF Len(keys) > MaxSize THEN Tail(keys) ELSE keys
        /\ cache' = [e \in Domains |->
                       IF e \in Evicted(keys) THEN Absent
                       ELSE IF e = d THEN [left |-> TTL, outdated |-> work[w].outdated]
                       ELSE cache[e]]
        /\ work' = [work EXCEPT ![w] = Idle]
        /\ UNCHANGED <<asked, editing>>

-----------------------------------------------------------------------------
(* Edits of the configuration.                                             *)

Outdate(x) == IF x.outdated = Current THEN [x EXCEPT !.outdated = 0] ELSE x

\* What a worker has read so far, and so what an edit of k outdates.
RestsOn(w, k) ==
    \/ work[w].phase = "fused"
    \/ work[w].phase = "querying" /\ k # "strategy"

\* The transaction of create, update or delete, or set_config.
Commit(e, k) ==
    /\ editing[e] = "none"
    /\ editing' = [editing EXCEPT ![e] = k]
    /\ cache' = [d \in Domains |-> IF cache[d] = Absent THEN Absent ELSE Outdate(cache[d])]
    /\ work' = [w \in Workers |-> IF RestsOn(w, k) THEN Outdate(work[w]) ELSE work[w]]
    /\ UNCHANGED <<order, asked>>

\* threatintel_invalidate, by the route, or by the poll of another process.
Clear(e) ==
    /\ editing[e] \in {"sources", "strategy"}
    /\ editing' = [editing EXCEPT ![e] = "none"]
    /\ cache' = [d \in Domains |-> Absent]
    /\ order' = << >>
    /\ UNCHANGED <<work, asked>>

\* update_threatintel when only the name or the key differ: "changes" does
\* not list these two, and the handler returns without clearing.
ReturnUncleared(e) ==
    /\ editing[e] = "unlisted"
    /\ editing' = [editing EXCEPT ![e] = "none"]
    /\ UNCHANGED <<cache, order, work, asked>>

-----------------------------------------------------------------------------
Older(o) == IF o = Current \/ o = Horizon THEN o ELSE o + 1

BugNoExpiry(x) ==   \* entries do not age
    IF x = Absent THEN x ELSE [left |-> x.left, outdated |-> Older(x.outdated)]

AgeEntry(x) ==
    IF x = Absent THEN x
    ELSE [left |-> IF x.left > 0 THEN x.left - 1 ELSE 0,
          outdated |-> Older(x.outdated)]

\* A second passes; no query outlives QueryBound.
Tick ==
    /\ \A w \in Workers : work[w].phase # "idle" => work[w].age < QueryBound
    /\ cache' = [d \in Domains |-> AgeEntry(cache[d])]
    /\ work' = [w \in Workers |->
                  IF work[w].phase = "idle" THEN work[w]
                  ELSE [phase |-> work[w].phase, age |-> work[w].age + 1,
                        outdated |-> Older(work[w].outdated)]]
    /\ UNCHANGED <<order, asked, editing>>

CacheNext ==
    \/ \E d \in Domains : Hit(d) \/ \E w \in Workers : Miss(w, d)
    \/ \E w \in Workers : Abandon(w) \/ Fuse(w) \/ Store(w)
    \/ \E e \in Editors : (\E k \in Edits : Commit(e, k)) \/ Clear(e) \/ ReturnUncleared(e)
    \/ Tick

CacheSpec == CacheInit /\ [][CacheNext]_cacheVars

-----------------------------------------------------------------------------
(* Properties.                                                             *)

\* Whatever the races of queries with edits and clears, an entry that can
\* still be served ends its life at most QueryBound + TTL seconds after the
\* first edit that outdated it (put, domain_cache.py line 82).
BoundedStaleness ==
    \A d \in Domains :
        Live(d) /\ cache[d].outdated # Current =>
            cache[d].outdated + cache[d].left <= QueryBound + TTL

\* The documented clear (domain_cache.py lines 18-19): when no edit waits for
\* its clear, what the cache serves rests on the configuration in force.
ServedAreCurrent ==
    (\A e \in Editors : editing[e] = "none") =>
        \A d \in Domains : Live(d) => cache[d].outdated = Current

\* The same, of the handlers alone: none of them returns with the entries
\* its edit outdated still in the cache.
HandlersClear ==
    [][\A e \in Editors : editing[e] # "none" /\ editing'[e] = "none" =>
           \A d \in Domains : cache'[d] = Absent]_cacheVars

=============================================================================
