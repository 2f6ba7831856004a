--------------------------- MODULE ThreatListCache ---------------------------
(***************************************************************************)
(* The in-memory copy of the offline lists (platform/app/threat_list.py):  *)
(* two dictionaries, of domains and of addresses, that lookups load from   *)
(* the table when there are none (_load_cache, find_domain, find_ip) and   *)
(* that every change of the table drops (invalidate).                      *)
(*                                                                         *)
(* The loader works under _CACHE_LOCK.  invalidate does not take the lock, *)
(* and find_domain and find_ip read the dictionaries again after the load: *)
(* each assignment and each read is a step.  A dictionary is represented   *)
(* by the version of the table it was loaded from.                         *)
(***************************************************************************)
EXTENDS Naturals

CONSTANTS
    Readers,        \* threads looking up domains or addresses
    Writers,        \* threads changing the table
    MaxVersion      \* bound: number of changes

NoReader == "nobody"
ASSUME MaxVersionAssumption == MaxVersion \in Nat
ASSUME NoReaderAssumption == NoReader \notin Readers

VARIABLES
    version,          \* version of the enabled rows of threat_list
    domains,        \* _DOMAIN_CACHE
    ips,            \* _IP_CACHE
    holder,         \* the reader holding _CACHE_LOCK, or NoReader
    at,             \* where each reader is
    rows,           \* what the loader has read
    clearing        \* the assignments of invalidate left to each writer

cacheVars == <<version, domains, ips, holder, at, rows, clearing>>

None == MaxVersion + 1      \* the None of the two dictionaries
Kinds == {"domain", "ip"}

CacheTypeOK ==
    /\ version \in 0..MaxVersion
    /\ domains \in 0..None /\ ips \in 0..None
    /\ holder \in Readers \union {NoReader}
    /\ at \in [Readers -> {"idle", "wait", "check", "read", "domains", "ips",
                           "match", "failed"} \X Kinds]
    /\ rows \in [Readers -> 0..MaxVersion]
    /\ clearing \in [Writers -> 0..2]

CacheInit ==
    /\ version = 0
    /\ domains = None /\ ips = None
    /\ holder = NoReader
    /\ at = [r \in Readers |-> <<"idle", "domain">>]
    /\ rows = [r \in Readers |-> 0]
    /\ clearing = [w \in Writers |-> 0]

-----------------------------------------------------------------------------
(* Readers.                                                                *)

Is(r, place) == at[r][1] = place
GoTo(r, place) == at' = [at EXCEPT ![r] = <<place, @[2]>>]

\* find_domain or find_ip, and the first test of _load_cache: it looks at
\* the domains, whichever dictionary is wanted.
Start(r, kind) ==
    /\ Is(r, "idle") \/ Is(r, "failed")
    /\ at' = [at EXCEPT ![r] = <<IF domains # None THEN "match" ELSE "wait", kind>>]
    /\ UNCHANGED <<version, domains, ips, holder, rows, clearing>>

Acquire(r) ==
    /\ Is(r, "wait") /\ holder = NoReader
    /\ holder' = r
    /\ GoTo(r, "check")
    /\ UNCHANGED <<version, domains, ips, rows, clearing>>

BugNoRecheck(r) ==
    /\ Is(r, "check")
    /\ GoTo(r, "read")
    /\ UNCHANGED <<version, domains, ips, holder, rows, clearing>>

\* The second test: somebody else has loaded meanwhile, or the rows are read.
Recheck(r) ==
    /\ Is(r, "check")
    /\ IF domains # None
         THEN GoTo(r, "match") /\ holder' = NoReader
         ELSE GoTo(r, "read") /\ UNCHANGED holder
    /\ UNCHANGED <<version, domains, ips, rows, clearing>>

ReadRows(r) ==
    /\ Is(r, "read")
    /\ rows' = [rows EXCEPT ![r] = version]
    /\ GoTo(r, "domains")
    /\ UNCHANGED <<version, domains, ips, holder, clearing>>

\* The statement of the table raises: the lock is released, the lookup fails.
ReadFails(r) ==
    /\ Is(r, "read")
    /\ holder' = NoReader
    /\ GoTo(r, "failed")
    /\ UNCHANGED <<version, domains, ips, rows, clearing>>

\* The two assignments of line 793.
StoreDomains(r) ==
    /\ Is(r, "domains")
    /\ domains' = rows[r]
    /\ GoTo(r, "ips")
    /\ UNCHANGED <<version, ips, holder, rows, clearing>>

BugTwoSelects(r) ==     \* the addresses come from a statement of their own
    /\ Is(r, "ips")
    /\ ips' = version
    /\ holder' = NoReader
    /\ GoTo(r, "match")
    /\ UNCHANGED <<version, domains, rows, clearing>>

StoreIps(r) ==
    /\ Is(r, "ips")
    /\ ips' = rows[r]
    /\ holder' = NoReader
    /\ GoTo(r, "match")
    /\ UNCHANGED <<version, domains, rows, clearing>>

\* The lookup proper: on None there is no get, and the lookup raises.
Match(r) ==
    LET dictionary == IF at[r][2] = "domain" THEN domains ELSE ips
    IN  /\ Is(r, "match")
        /\ GoTo(r, IF dictionary = None THEN "failed" ELSE "idle")
        /\ UNCHANGED <<version, domains, ips, holder, rows, clearing>>

-----------------------------------------------------------------------------
(* Writers: a committed change of the table, then the two assignments of   *)
(* invalidate.                                                             *)

Change(w) ==
    /\ clearing[w] = 0 /\ version < MaxVersion
    /\ version' = version + 1
    /\ clearing' = [clearing EXCEPT ![w] = 2]
    /\ UNCHANGED <<domains, ips, holder, at, rows>>

DropDomains(w) ==
    /\ clearing[w] = 2
    /\ domains' = None
    /\ clearing' = [clearing EXCEPT ![w] = 1]
    /\ UNCHANGED <<version, ips, holder, at, rows>>

DropIps(w) ==
    /\ clearing[w] = 1
    /\ ips' = None
    /\ clearing' = [clearing EXCEPT ![w] = 0]
    /\ UNCHANGED <<version, domains, holder, at, rows>>

Loading(r) ==
    Acquire(r) \/ Recheck(r) \/ ReadRows(r) \/ StoreDomains(r) \/ StoreIps(r)

CacheNext ==
    \/ \E r \in Readers :
          (\E k \in Kinds : Start(r, k)) \/ Loading(r) \/ ReadFails(r) \/ Match(r)
    \/ \E w \in Writers : Change(w) \/ DropDomains(w) \/ DropIps(w)

CacheSpec == CacheInit /\ [][CacheNext]_cacheVars

-----------------------------------------------------------------------------
(* Properties.                                                             *)

\* The reason for the lock and its second test (line 767): the table, of
\* millions of rows, is not loaded by several threads at once, nor again
\* when it has been loaded.  A loader finds no domains in place until its own.
LoadedOnce ==
    \A r \in Readers :
        Is(r, "read") \/ Is(r, "domains") => domains = None /\ holder = r

\* A lookup of a domain and one of an address are answered from the same
\* version of the lists, whatever loads and drops have interleaved: outside
\* a load, two dictionaries in place come from one load (line 793).
SameVersion ==
    holder = NoReader /\ domains # None /\ ips # None => domains = ips

\* What find_domain and find_ip promise (line 819): an answer.  A lookup
\* under which the table can be read does not raise.
LookupsAnswer ==
    [][\A r \in Readers : Is(r, "match") => at'[r][1] # "failed"]_cacheVars

\* What invalidate promises (line 771): when no change is under way and no
\* load either, the domains are as the table says, or are to be loaded.
Reloads ==
    (\A w \in Writers : clearing[w] = 0) /\ holder = NoReader =>
        domains = None \/ domains = version

\* The same of the addresses: they are not missing when nothing will load
\* them, since _load_cache looks at the domains only.
NotHalfDropped ==
    (\A w \in Writers : clearing[w] = 0) /\ holder = NoReader =>
        (domains # None => ips # None)

=============================================================================
