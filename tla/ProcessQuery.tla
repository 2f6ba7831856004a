---------------------------- MODULE ProcessQuery ----------------------------
(***************************************************************************)
(* One query on its way through the detection (process_query,              *)
(* _process_ptr and ip_postfilter of platform/detectors.py), while the     *)
(* administrators change lists and settings.  The layers read the lists    *)
(* and the settings one after the other and wait for vendors and upstream  *)
(* servers in between, so that one query may see parts of several settings.*)
(*                                                                         *)
(* The name of the query is fixed: a list holds it or not.  The caches,    *)
(* breakers and pools that a detection goes through have modules of their  *)
(* own; here they are the outcomes that they allow.  worlds is not in the  *)
(* program: it holds the settings that were in force since the arrival.    *)
(***************************************************************************)
EXTENDS Verdicts

CONSTANTS
    Ips,            \* addresses that an upstream answer may hold
    AskedOfName, AskedOfIp,     \* sets of sources that may be enabled
    MaxChanges,     \* bound: changes of lists and settings
    Faults          \* what may raise: "list", "sources", "log"

ASSUME QueryAssumption == Ips # {} /\ MaxChanges \in Nat

PtrIp == CHOOSE i \in Ips : TRUE        \* the address a PTR query asks about

VARIABLES
    type,           \* what is asked: "A", "AAAA", "PTR", a PTR name that holds
                    \* no address ("badPTR"), or "other"
    world, worlds, changes,
    known,          \* what the query has learned
    pc,             \* the layer it has reached
    counted,        \* its calls of query_stats.record
    rows,           \* the actions of its rows in the filter log
    answer

queryVars == <<type, world, worlds, changes, known, pc, counted, rows, answer>>

Types == {"A", "AAAA", "PTR", "badPTR", "other"}
Modes == {"off", "observe", "intercept"}

\* Lists (white, black, offline: of the name; the others of addresses) and
\* settings.  nrdOffline joins the switch and the mode of its layer, which are
\* read together; the mode of the other is read seconds after its switch.
Worlds ==
    [enabled : BOOLEAN, white : BOOLEAN, black : BOOLEAN,
     offline : {"none", "plain", "nrd"}, nrdOffline : Modes,
     nrd : BOOLEAN, nrdMode : Modes \ {"off"},
     whiteIp : BOOLEAN, offlineIp : BOOLEAN, blackIps : SUBSET Ips,
     strategy : Strategies, failsafe : {"intercept", "degrade"}]

Usual ==
    [enabled |-> TRUE, white |-> FALSE, black |-> FALSE, offline |-> "none",
     nrdOffline |-> "observe", nrd |-> FALSE, nrdMode |-> "intercept",
     whiteIp |-> FALSE, offlineIp |-> FALSE, blackIps |-> {}, strategy |-> "any",
     failsafe |-> "intercept"]

\* The settings that one change makes of w.
Changed(w) ==
   ({[w EXCEPT !.enabled = b] : b \in BOOLEAN}
    \union {[w EXCEPT !.white = b] : b \in BOOLEAN}
    \union {[w EXCEPT !.black = b] : b \in BOOLEAN}
    \union {[w EXCEPT !.whiteIp = b] : b \in BOOLEAN}
    \union {[w EXCEPT !.offlineIp = b] : b \in BOOLEAN}
    \union {[w EXCEPT !.nrd = b] : b \in BOOLEAN}
    \union {[w EXCEPT !.offline = o] : o \in {"none", "plain", "nrd"}}
    \union {[w EXCEPT !.nrdOffline = m] : m \in Modes}
    \union {[w EXCEPT !.nrdMode = m] : m \in Modes \ {"off"}}
    \union {[w EXCEPT !.blackIps = SymDiff(@, {i})] : i \in Ips}
    \union {[w EXCEPT !.strategy = s] : s \in Strategies}
    \union {[w EXCEPT !.failsafe = f] : f \in {"intercept", "degrade"}}) \ {w}

\* What is found out of a name or an address, and from whom.  From "nobody":
\* no enabled source supports the question, or a degradation window (names
\* only).  From "sources": how many of those whose breaker is not open have a
\* conclusion and how many find it malicious (results).  From "cache": the
\* verdict of an earlier query, fused by the strategy of its time.
Votes(c) == [all |-> Cardinality({v \in DOMAIN c : c[v] # "none"}),
             bad |-> Cardinality({v \in DOMAIN c : c[v] = "malicious"})]

NoVotes == [all |-> 0, bad |-> 0]
Unasked == [from |-> "nobody", results |-> NoVotes, verdict |-> FALSE]
Asked(results) == [Unasked EXCEPT !.from = "sources", !.results = results]

\* A hit returns before a source or the strategy is looked at.  It may hold
\* either verdict, whatever is in force now: what was put rests on other
\* sources and on another strategy (how old it may be: VerdictCache).
Cached == {[Unasked EXCEPT !.from = "cache", !.verdict = bad] : bad \in BOOLEAN}

Fused(on) ==
    LET Answers == {r \in [on -> UNION {Replies(v) : v \in on}] :
                       \A v \in on : r[v] \in Replies(v)}
    IN  {Asked(NoVotes)}
        \union {Asked(Votes([v \in on |-> Conclude(v, TRUE, r[v])])) : r \in Answers}

NameOutcomes ==
    {Unasked} \union Cached \union UNION {Fused(on \intersect DomainSources) : on \in AskedOfName}
IpOutcomes ==
    {Unasked} \union Cached \union UNION {Fused(on \intersect IpSources) : on \in AskedOfIp}

Nothing == [new |-> FALSE, name |-> Unasked,
            ip |-> [i \in Ips |-> Unasked], ips |-> {}, readable |-> TRUE,
            pending |-> {}, bad |-> {}]

NoAnswer == [kind |-> "none", ips |-> {}]

TypeOK ==
    /\ type \in Types
    /\ world \in Worlds /\ worlds \subseteq Worlds
    /\ changes \in 0..MaxChanges
    /\ known.pending \subseteq known.ips /\ known.bad \subseteq known.ips
    /\ Len(counted) <= 1

Init ==
    /\ type \in Types
    /\ world = Usual /\ worlds = {Usual} /\ changes = 0
    /\ known = Nothing
    /\ pc = "coming"
    /\ counted = <<>> /\ rows = <<>>
    /\ answer = NoAnswer

-----------------------------------------------------------------------------
(* The end of a query.                                                     *)

\* query_stats.record, then the row if there is one, then the answer.  In
\* the mode without a queue the row may fail: the query is counted, and the
\* DNS server answers SERVFAIL.  A query on a whitelist may have a row too, in
\* the log of those let through, which is left out of rows.
Logged(row) == row # <<>> \/ pc \in {"white", "ptrWhite"}

Finish(count, row, reply) ==
    /\ counted' = Append(counted, count)
    /\ \/ /\ rows' = rows \o row
          /\ answer' = reply
          /\ pc' = "done"
       \/ /\ "log" \in Faults /\ Logged(row)
          /\ answer' = [NoAnswer EXCEPT !.kind = "SERVFAIL"]
          /\ pc' = "failed"
          /\ UNCHANGED rows
    /\ UNCHANGED <<type, world, worlds, changes>>

Forwarded == [kind |-> "upstream", ips |-> {}]
Alert == [kind |-> IF type = "A" THEN "alert" ELSE "empty", ips |-> {}]

Forward == Finish("allow", <<>>, Forwarded) /\ UNCHANGED known
Intercept == Finish("intercept", <<"intercept">>, Alert)

Go(layer) ==
    /\ pc' = layer
    /\ UNCHANGED <<type, world, worlds, changes, counted, answer>>

\* A layer in the mode "observe" adds a row and lets the query go on.
Observe(layer) ==
    /\ rows' = Append(rows, "observe")
    /\ Go(layer)

At(layer) == pc = layer

-----------------------------------------------------------------------------
(* Layers that look at the name.                                           *)

Arrive ==
    /\ At("coming")
    /\ worlds' = {world}
    /\ pc' = "switch"
    /\ UNCHANGED <<type, world, changes, known, counted, rows, answer>>

Dispatch ==
    /\ At("switch")
    /\ IF ~world.enabled \/ type \in {"other", "badPTR"} THEN Forward
       ELSE Go(IF type = "PTR" THEN "ptrWhite" ELSE "white") /\ UNCHANGED <<known, rows>>

Whitelist ==
    /\ At("white")
    /\ IF world.white THEN Forward ELSE Go("black") /\ UNCHANGED <<known, rows>>

Blacklist ==
    /\ At("black")
    /\ IF world.black THEN Intercept /\ UNCHANGED known
       ELSE Go("offline") /\ UNCHANGED <<known, rows>>

\* find_domain
Offline ==
    /\ At("offline")
    /\ CASE world.offline = "plain" -> Intercept
         [] world.offline = "nrd" -> Go("nrdOffline") /\ UNCHANGED rows
         [] OTHER -> Go("nrd") /\ UNCHANGED rows
    /\ UNCHANGED known

NrdOffline ==
    /\ At("nrdOffline")
    /\ CASE world.nrdOffline = "intercept" -> Intercept
         [] world.nrdOffline = "observe" -> Observe("nrd")
         [] OTHER -> Go("nrd") /\ UNCHANGED rows
    /\ UNCHANGED known

\* is_new_registration may take seconds; the mode is read after it.
Nrd ==
    /\ At("nrd")
    /\ IF ~world.nrd THEN Go("online") /\ UNCHANGED known
       ELSE \E new \in BOOLEAN :
               /\ known' = [known EXCEPT !.new = new]
               /\ Go(IF new THEN "nrdMode" ELSE "online")
    /\ UNCHANGED rows

NrdMode ==
    /\ At("nrdMode")
    /\ IF world.nrdMode = "intercept" THEN Intercept ELSE Observe("online")
    /\ UNCHANGED known

\* query_threatintel_domain, query_threatintel_ip: the strategy and the mode
\* of the fail-safe are read when the sources have answered, and not at all
\* on a hit of the cache.
Malicious(o) ==
    \/ o.from = "cache" /\ o.verdict
    \/ /\ o.from = "sources"
       /\ IF o.results.all = 0 THEN world.failsafe = "intercept"
          ELSE run_fusion(o.results, world.strategy)

Online ==
    /\ At("online")
    /\ \E o \in NameOutcomes :
          /\ known' = [known EXCEPT !.name = o]
          /\ IF Malicious(o) THEN Intercept ELSE Go("upstream") /\ UNCHANGED rows

-----------------------------------------------------------------------------
(* The upstream answer and its addresses.                                  *)

\* query_upstream_reply: an error; an answer with addresses; or one that
\* dnslib cannot read, which _rebuild_passthrough hands on as it came.
Upstream ==
    /\ At("upstream")
    /\ \/ Forward
       \/ \E ips \in SUBSET Ips, readable \in BOOLEAN :
             /\ ips # {}
             /\ known' = [known EXCEPT !.ips = ips, !.readable = readable,
                                       !.pending = ips]
             /\ IF readable THEN Go("listed") /\ UNCHANGED rows
                ELSE Finish("allow", <<>>, [kind |-> "upstream", ips |-> ips])

\* ip_postfilter reads the blacklist once for each address.
Listed(i) ==
    /\ At("listed") /\ i \in known.pending
    /\ known' = [known EXCEPT !.pending = @ \ {i},
                              !.bad = IF i \in world.blackIps THEN @ \union {i} ELSE @]
    /\ Go(IF known.pending = {i} THEN "verdicts" ELSE "listed")
    /\ UNCHANGED rows

StartChecks ==
    /\ At("verdicts")
    /\ known' = [known EXCEPT !.pending = known.ips \ known.bad]
    /\ Go("checks")
    /\ UNCHANGED rows

CheckIp(i) ==
    /\ At("checks") /\ i \in known.pending
    /\ \E o \in IpOutcomes :
          known' = [known EXCEPT !.pending = @ \ {i}, !.ip[i] = o,
                                 !.bad = IF Malicious(o) THEN @ \union {i} ELSE @]
    /\ Go("checks")
    /\ UNCHANGED rows

BugReplyAsItCame ==     \* the answer is only counted and logged
    /\ At("checks") /\ known.pending = {}
    /\ LET kept == known.ips \ known.bad
       IN  IF kept = {} THEN Intercept
           ELSE IF known.bad # {}
           THEN Finish("remove_ip", <<"remove_ip">>, [kind |-> "remaining", ips |-> known.ips])
           ELSE Finish("allow", <<>>, [kind |-> "upstream", ips |-> kept])
    /\ UNCHANGED known

BugAllBadIsRemoval ==
    /\ At("checks") /\ known.pending = {}
    /\ LET kept == known.ips \ known.bad
       IN  IF kept = {} THEN Finish("remove_ip", <<"intercept">>, Alert)
           ELSE IF known.bad # {}
           THEN Finish("remove_ip", <<"remove_ip">>, [kind |-> "remaining", ips |-> kept])
           ELSE Finish("allow", <<>>, [kind |-> "upstream", ips |-> kept])
    /\ UNCHANGED known

Filter ==
    /\ At("checks") /\ known.pending = {}
    /\ LET kept == known.ips \ known.bad
       IN  IF kept = {} THEN Intercept
           ELSE IF known.bad # {}
           THEN Finish("remove_ip", <<"remove_ip">>, [kind |-> "remaining", ips |-> kept])
           ELSE Finish("allow", <<>>, [kind |-> "upstream", ips |-> kept])
    /\ UNCHANGED known

-----------------------------------------------------------------------------
(* A PTR query is filtered by the address it asks about.                   *)

PtrWhitelist ==
    /\ At("ptrWhite")
    /\ IF world.whiteIp THEN Forward ELSE Go("ptrBlack") /\ UNCHANGED <<known, rows>>

PtrLists ==
    /\ \/ At("ptrBlack") /\ IF PtrIp \in world.blackIps THEN Intercept
                            ELSE Go("ptrOffline") /\ UNCHANGED rows
       \/ At("ptrOffline") /\ IF world.offlineIp THEN Intercept
                              ELSE Go("ptrOnline") /\ UNCHANGED rows
    /\ UNCHANGED known

PtrOnline ==
    /\ At("ptrOnline")
    /\ \E o \in IpOutcomes :
          /\ known' = [known EXCEPT !.ip[PtrIp] = o]
          /\ IF Malicious(o) THEN Intercept ELSE Finish("allow", <<>>, Forwarded)

-----------------------------------------------------------------------------
(* Faults and administrators.                                              *)

Running == pc \notin {"coming", "done", "failed"}

ReadsList == pc \in {"white", "black", "offline", "listed", "ptrWhite", "ptrBlack",
                     "ptrOffline"}
ReadsSources == pc \in {"online", "checks", "ptrOnline"}
WritesRow == pc \in {"nrdOffline", "nrdMode"}

\* The database cannot be read, an adapter cannot be built from its
\* configuration, an observation cannot be written: handle_request catches.
Raise ==
    /\ \/ "list" \in Faults /\ ReadsList
       \/ "sources" \in Faults /\ ReadsSources
       \/ "log" \in Faults /\ WritesRow
    /\ pc' = "failed"
    /\ answer' = [NoAnswer EXCEPT !.kind = "SERVFAIL"]
    /\ UNCHANGED <<type, world, worlds, changes, known, counted, rows>>

Change ==
    /\ changes < MaxChanges
    /\ pc = "coming" \/ Running
    /\ \E w \in Changed(world) :
          /\ world' = w
          /\ worlds' = IF Running THEN worlds \union {w} ELSE worlds
    /\ changes' = changes + 1
    /\ UNCHANGED <<type, known, pc, counted, rows, answer>>

Layers ==
    \/ Arrive \/ Dispatch \/ Whitelist \/ Blacklist \/ Offline \/ NrdOffline
    \/ Nrd \/ NrdMode \/ Online \/ Upstream \/ StartChecks \/ Filter
    \/ PtrWhitelist \/ PtrLists \/ PtrOnline
    \/ \E i \in Ips : Listed(i) \/ CheckIp(i)

Next == Layers \/ Raise \/ Change

Spec == Init /\ [][Next]_queryVars

-----------------------------------------------------------------------------
(* Properties.                                                             *)

Ended == pc = "done"
Blocked == answer.kind \in {"alert", "empty"}
CountOf(kind) ==
    CASE kind \in {"alert", "empty"} -> "intercept"
      [] kind = "remaining" -> "remove_ip"
      [] OTHER -> "allow"

\* What process_query promises ("every path is counted", lines 684-689): an
\* answered query is counted once, as what its client got, and a block or a
\* removal has exactly one row, with the same action, besides those of
\* observation.  A query that raises is counted once or not at all.
OneOutcome ==
    /\ Len(counted) <= 1
    /\ Ended =>
          /\ counted = <<CountOf(answer.kind)>>
          /\ LET deeds == {n \in DOMAIN rows : rows[n] # "observe"}
             IN  IF counted = <<"allow">> THEN deeds = {}
                 ELSE \E n \in deeds : deeds = {n} /\ rows[n] = counted[1]

\* The documented order of the layers, as one formula over one setting.  A
\* verdict of the cache stands whatever the setting.
Convicts(w, o) ==
    \/ o.from = "cache" /\ o.verdict
    \/ /\ o.from = "sources"
       /\ IF o.results.all = 0 THEN w.failsafe = "intercept"
          ELSE CASE w.strategy = "any" -> o.results.bad >= 1
                 [] w.strategy = "majority" -> o.results.bad > o.results.all - o.results.bad
                 [] w.strategy = "all" -> o.results.bad = o.results.all

NameIsBad(w) ==
    \/ w.black \/ w.offline = "plain"
    \/ w.offline = "nrd" /\ w.nrdOffline = "intercept"
    \/ known.new /\ w.nrd /\ w.nrdMode = "intercept"
    \/ Convicts(w, known.name)

Good(w, i) == i \notin w.blackIps /\ ~Convicts(w, known.ip[i])

\* What the setting w answers if the addresses in good are good.
Promise(w, good) ==
    IF ~w.enabled \/ type \in {"other", "badPTR"} THEN Forwarded
    ELSE IF type = "PTR"
    THEN IF ~w.whiteIp /\ (w.offlineIp \/ ~Good(w, PtrIp)) THEN Alert ELSE Forwarded
    ELSE IF w.white THEN Forwarded
    ELSE IF NameIsBad(w) THEN Alert
    ELSE IF known.ips = {} \/ ~known.readable THEN [kind |-> "upstream", ips |-> known.ips]
    ELSE IF good = {} THEN Alert
    ELSE [kind |-> IF good = known.ips THEN "upstream" ELSE "remaining", ips |-> good]

\* A change that falls into a query takes effect for all of it or for none,
\* each address of the answer counted for itself: the answer is the one that
\* the settings before or after it promise, although the layers read them
\* one by one.  (Of two changes a query may see the later one and miss the
\* earlier.)  What comes from a cache counts as the verdict it is, also if
\* neither setting would fuse it so: the strategy is then that of an earlier
\* query.
SomeSettingExplains ==
    Ended /\ Cardinality(worlds) <= 2 =>
        \E w \in worlds, good \in SUBSET known.ips :
            /\ \A i \in known.ips : \E v \in worlds : i \in good <=> Good(v, i)
            /\ answer = Promise(w, good)

Always(P(_)) == \A w \in worlds : P(w)

\* Whatever changes meanwhile: a name that stays on the whitelist is not
\* blocked, one that stays on the blacklist is, and an address that stays on
\* the blacklist is in no answer that the address filter can read.
ListsAreKept ==
    Ended /\ type \in {"A", "AAAA"} /\ Always(LAMBDA w : w.enabled) =>
        /\ Always(LAMBDA w : w.white) => answer.kind = "upstream"
        /\ Always(LAMBDA w : ~w.white) =>
              /\ Always(LAMBDA w : w.black) => Blocked
              /\ known.readable =>
                    \A i \in answer.ips : ~Always(LAMBDA w : i \in w.blackIps)

\* The requirements (docs, lines 37 and 98): an entry of the whitelist, of a
\* name or of an address, is let through and skips every check.
WhitelistedAddressKept ==
    Ended /\ type \in {"A", "AAAA"} /\ ~Blocked /\ PtrIp \in known.ips
        /\ Always(LAMBDA w : w.whiteIp) => PtrIp \in answer.ips

=============================================================================
