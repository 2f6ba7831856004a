----------------------------- MODULE NewDomains ----------------------------
(***************************************************************************)
(* The check of a domain's age against the registries                      *)
(* (platform/rdap_nrd.py).  Threads of the detection look in memory, which *)
(* the first of them loads from nrd_cache, and ask the registry for what   *)
(* is not there.  The library that asks has a routing table and a time-out *)
(* that belong to all threads: a thread that loads the table, the round    *)
(* that renews it and every question save the time-out, set their own and  *)
(* put the old one back.                                                   *)
(*                                                                         *)
(* The date of a domain does not change, so that the caches are sets.  The *)
(* number of retries, saved and restored in the same way, is left out, and *)
(* so are the proxy, which start sets once, and the counters.              *)
(***************************************************************************)
EXTENDS Naturals, FiniteSets

CONSTANTS
    Checkers,       \* threads of the detection
    NrdDomains,     \* domains whose top level is in nrd_tlds
    Dated,          \* those of them that their registry gives a date for
    NrdFaults       \* "load": the table cannot be read; "insert": it cannot be
                    \* written; "fetch": IANA does not answer; "file": the
                    \* file can be neither read nor written

Warmer == "nrd-warmup"
Refresher == "nrd-bootstrap-refresh"
NrdThreads == Checkers \union {Warmer, Refresher}
Default == 10               \* http_timeout of the library
QueryTimeout == 5           \* _QUERY_TIMEOUT_S
BootstrapTimeout == 30      \* _BOOTSTRAP_TIMEOUT_S
NoDomain == "none"

ASSUME ThreadsAssumption == {Warmer, Refresher} \cap Checkers = {}

VARIABLES
    loaded, memory,     \* _LOADED, _MEM_CACHE
    nrdRows,            \* nrd_cache; kept by restarts
    ready,              \* _BOOTSTRAP_READY
    routes,             \* the library has a routing table
    file,               \* _BOOTSTRAP_FILE: "none", "fresh", "stale"
    timeout,            \* wi_utils.http_timeout
    nrd,                \* where each thread is
    old,                \* the time-out it has saved
    domain,             \* what each checker asks about
    snapshot,           \* the rows it has read
    backup              \* of the last refresh: "untried", "taken", "failed"

nrdVars == <<loaded, memory, nrdRows, ready, routes, file, timeout, nrd, old, domain,
             snapshot, backup>>
library == <<ready, routes, file, timeout, old, backup>>
caches == <<loaded, memory, nrdRows, snapshot>>

StartOf(t) == IF t = Warmer THEN "warm" ELSE IF t = Refresher THEN "sleep" ELSE "idle"

NrdInit ==
    /\ loaded = FALSE /\ memory = {} /\ nrdRows = {}
    /\ ready = FALSE /\ routes = FALSE /\ file = "none"
    /\ timeout = Default
    /\ nrd = [t \in NrdThreads |-> StartOf(t)]
    /\ old = [t \in NrdThreads |-> Default]
    /\ domain = [c \in Checkers |-> NoDomain]
    /\ snapshot = [c \in Checkers |-> {}]
    /\ backup = "untried"

Goto(t, place) == nrd' = [nrd EXCEPT ![t] = place]

-----------------------------------------------------------------------------
(* is_new_registration.                                                    *)

BugLoadedFirst(c, d, ok) ==     \* the flag is set before the rows are there
    /\ nrd[c] = "idle" /\ (ok \/ "load" \in NrdFaults)
    /\ domain' = [domain EXCEPT ![c] = d]
    /\ snapshot' = [snapshot EXCEPT ![c] = IF loaded THEN {} ELSE nrdRows]
    /\ Goto(c, IF loaded \/ ~ok THEN "lookup" ELSE "merge")
    /\ loaded' = TRUE
    /\ UNCHANGED <<memory, nrdRows, library>>

\* The rows are read in a transaction of the thread, without the lock.
Check(c, d, ok) ==
    /\ nrd[c] = "idle" /\ (ok \/ "load" \in NrdFaults)
    /\ domain' = [domain EXCEPT ![c] = d]
    /\ snapshot' = [snapshot EXCEPT ![c] = IF loaded THEN {} ELSE nrdRows]
    /\ Goto(c, IF loaded \/ ~ok THEN "lookup" ELSE "merge")
    /\ UNCHANGED <<loaded, memory, nrdRows, library>>

Merge(c) ==
    /\ nrd[c] = "merge"
    /\ memory' = memory \union snapshot[c]
    /\ loaded' = TRUE
    /\ snapshot' = [snapshot EXCEPT ![c] = {}]
    /\ Goto(c, "lookup")
    /\ UNCHANGED <<nrdRows, domain, library>>

\* What is in memory is the answer; otherwise the registry is asked, after
\* the routing table if it is not there.
Lookup(c) ==
    /\ nrd[c] = "lookup"
    /\ IF domain[c] \in memory
       THEN Goto(c, "idle") /\ domain' = [domain EXCEPT ![c] = NoDomain]
       ELSE Goto(c, IF ready THEN "ask" ELSE "warm") /\ UNCHANGED domain
    /\ UNCHANGED <<caches, library>>

SaveTimeout(t, value) ==
    /\ old' = [old EXCEPT ![t] = timeout]
    /\ timeout' = value

RestoreTimeout(t) ==
    /\ timeout' = old[t]
    /\ old' = [old EXCEPT ![t] = Default]

\* The question goes out under a short time-out, ...
Ask(c) ==
    /\ nrd[c] = "ask"
    /\ SaveTimeout(c, QueryTimeout)
    /\ Goto(c, "call")
    /\ UNCHANGED <<caches, domain, ready, routes, file, backup>>

\* ... which is put back whatever comes.  A date goes to memory; without one
\* (no service, no such domain, an error, no routing table) there is no answer.
Answer(c, dated) ==
    /\ nrd[c] = "call"
    /\ dated => routes /\ domain[c] \in Dated
    /\ RestoreTimeout(c)
    /\ memory' = IF dated THEN memory \union {domain[c]} ELSE memory
    /\ Goto(c, IF dated THEN "insert" ELSE "idle")
    /\ domain' = IF dated THEN domain ELSE [domain EXCEPT ![c] = NoDomain]
    /\ UNCHANGED <<loaded, nrdRows, snapshot, ready, routes, file, backup>>

\* INSERT OR IGNORE; an error leaves the date in memory only.
StoreDate(c, ok) ==
    /\ nrd[c] = "insert" /\ (ok \/ "insert" \in NrdFaults)
    /\ nrdRows' = IF ok THEN nrdRows \union {domain[c]} ELSE nrdRows
    /\ domain' = [domain EXCEPT ![c] = NoDomain]
    /\ Goto(c, "idle")
    /\ UNCHANGED <<loaded, memory, snapshot, library>>

-----------------------------------------------------------------------------
(* The routing table.                                                      *)

Leave(t) == IF t \in Checkers THEN "ask" ELSE "end"

\* warm_bootstrap: nothing to do, a fresh file, or the network: also when the
\* file is fresh and cannot be loaded.
Warm(t, ok) ==
    /\ nrd[t] = "warm" /\ (ok \/ "file" \in NrdFaults)
    /\ CASE ready -> Goto(t, Leave(t)) /\ UNCHANGED routes
         [] ~ready /\ file = "fresh" /\ ok -> routes' = TRUE /\ Goto(t, "ready")
         [] OTHER -> Goto(t, "fetch") /\ UNCHANGED routes
    /\ UNCHANGED <<caches, domain, ready, file, timeout, old, backup>>

SetReady(t) ==
    /\ nrd[t] = "ready"
    /\ ready' = TRUE
    /\ Goto(t, Leave(t))
    /\ UNCHANGED <<caches, domain, routes, file, timeout, old, backup>>

\* _bootstrap_fetch_and_save, of whoever warms up and of the refresh.
Fetch(t) ==
    /\ nrd[t] = "fetch"
    /\ SaveTimeout(t, BootstrapTimeout)
    /\ Goto(t, "fetching")
    /\ UNCHANGED <<caches, domain, ready, routes, file, backup>>

Fetched(t, ok) ==
    /\ nrd[t] = "fetching" /\ (ok \/ "fetch" \in NrdFaults)
    /\ RestoreTimeout(t)
    /\ routes' = IF ok THEN TRUE ELSE routes
    /\ Goto(t, IF ok THEN "save" ELSE IF t = Refresher THEN "restore" ELSE Leave(t))
    /\ UNCHANGED <<caches, domain, ready, file, backup>>

\* save_bootstrap_data raises if the refresh has cleared the table again.
SaveFile(t, ok) ==
    /\ nrd[t] = "save" /\ (ok => routes)
    /\ ok \/ "file" \in NrdFaults \/ ~routes
    /\ file' = IF ok THEN "fresh" ELSE file
    /\ Goto(t, IF t = Refresher THEN IF ok THEN "sleep" ELSE "restore"
               ELSE IF ok THEN "ready" ELSE Leave(t))
    /\ UNCHANGED <<caches, domain, ready, routes, timeout, old, backup>>

-----------------------------------------------------------------------------
(* _bootstrap_refresher, once in 24 hours: by then the file is old.        *)

Backup ==
    /\ nrd[Refresher] = "sleep"
    /\ backup' = IF routes THEN "taken" ELSE "failed"
    /\ file' = IF file = "fresh" THEN "stale" ELSE file
    /\ Goto(Refresher, "clear")
    /\ UNCHANGED <<caches, domain, ready, routes, timeout, old>>

ClearRoutes ==
    /\ nrd[Refresher] = "clear"
    /\ routes' = FALSE
    /\ Goto(Refresher, "fetch")
    /\ UNCHANGED <<caches, domain, ready, file, timeout, old, backup>>

BugNoRestore ==     \* the state before the protection was added
    /\ nrd[Refresher] = "restore"
    /\ Goto(Refresher, "sleep")
    /\ UNCHANGED <<caches, domain, library>>

\* A refresh that failed loads what it had saved.
RestoreRoutes ==
    /\ nrd[Refresher] = "restore"
    /\ routes' = IF backup = "taken" THEN TRUE ELSE routes
    /\ Goto(Refresher, "sleep")
    /\ UNCHANGED <<caches, domain, ready, file, timeout, old, backup>>

\* The rows and the file outlive the process.
Restart ==
    /\ loaded' = FALSE /\ memory' = {}
    /\ ready' = FALSE /\ routes' = FALSE
    /\ timeout' = Default
    /\ nrd' = [t \in NrdThreads |-> StartOf(t)]
    /\ old' = [t \in NrdThreads |-> Default]
    /\ domain' = [c \in Checkers |-> NoDomain]
    /\ snapshot' = [c \in Checkers |-> {}]
    /\ backup' = "untried"
    /\ UNCHANGED <<nrdRows, file>>

NrdNext ==
    \/ \E c \in Checkers :
        \/ \E d \in NrdDomains, ok \in BOOLEAN : Check(c, d, ok)
        \/ Merge(c) \/ Lookup(c) \/ Ask(c)
        \/ \E ok \in BOOLEAN : Answer(c, ok) \/ StoreDate(c, ok)
    \/ \E t \in NrdThreads :
        \/ SetReady(t) \/ Fetch(t)
        \/ \E ok \in BOOLEAN : Warm(t, ok) \/ Fetched(t, ok) \/ SaveFile(t, ok)
    \/ Backup \/ ClearRoutes \/ RestoreRoutes
    \/ Restart

NrdSpec == NrdInit /\ [][NrdNext]_nrdVars

-----------------------------------------------------------------------------
(* Properties.                                                             *)

NrdTypeOK ==
    /\ loaded \in BOOLEAN /\ ready \in BOOLEAN /\ routes \in BOOLEAN
    /\ memory \subseteq NrdDomains /\ nrdRows \subseteq NrdDomains
    /\ file \in {"none", "fresh", "stale"}
    /\ timeout \in {Default, QueryTimeout, BootstrapTimeout}
    /\ nrd \in [NrdThreads -> {"idle", "merge", "lookup", "ask", "call", "insert", "warm",
            "ready", "fetch", "fetching", "save", "sleep", "clear", "restore", "end"}]
    /\ old \in [NrdThreads -> {Default, QueryTimeout, BootstrapTimeout}]
    /\ domain \in [Checkers -> NrdDomains \union {NoDomain}]
    /\ snapshot \in [Checkers -> SUBSET NrdDomains]
    /\ backup \in {"untried", "taken", "failed"}

\* A registry is not asked again about a domain that has a row, in this life
\* of the process or a later one (rdap_nrd.py:29).
KnownNotAsked ==
    [][\A c \in Checkers :
        nrd[c] = "lookup" /\ nrd'[c] \in {"ask", "warm"} => domain[c] \notin nrdRows]_nrdVars

\* A refresh that has a backup leaves no process that is ready without a
\* routing table (line 267).
RoutesSurvive == ready /\ nrd[Refresher] = "sleep" /\ backup # "failed" => routes

\* The same without the condition on the backup.
RoutesAlwaysSurvive == ready /\ nrd[Refresher] = "sleep" => routes

\* Lines 240 and 380: the time-outs of questions and of the routing table do
\* not affect each other, and the library's own comes back.
TimeoutsApart ==
    /\ \A c \in Checkers : nrd[c] = "call" => timeout = QueryTimeout
    /\ (\A t \in NrdThreads : nrd[t] \notin {"call", "fetching"}) => timeout = Default

=============================================================================
