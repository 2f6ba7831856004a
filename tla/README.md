# TLA+ models of the DNS security filter

This directory holds TLA+ models of the filtering platform in `platform/`, the
TLC configurations that check them, and proofs checked by TLAPS. Every
definition is translated from the source; `PROJECT.json` ("map") names the lines
each one stands for.

## The system

Two Python processes share one SQLite database in WAL mode.

* The **DNS process** (`platform/dns_server.py`) reads queries by UDP and TCP on an
  event loop and gives each to a thread pool, where `process_query`
  (`platform/detectors.py`) decides: white list, black list, offline lists, age of
  the domain, online threat-intelligence sources, the upstream resolver, and the
  sources again for each address of the answer. What it did it counts and records.
* The **Web process** (`platform/app/main.py`) serves the administration API, imports
  offline lists and analyses the logs. It tells the DNS process nothing: that process
  polls four tables for their newest time stamp (`platform/cross_sync.py`).
* The **MCP server** (`platform/mcp_server.py`) gives agents tools that call the
  routes of the Web process.
* A Go **proxy** (`proxy/`) in front of the Windows DNS server forwards client
  queries and adds the client subnet.

### Inventory

| component | state | operations | interacts with | what is hard | what makes it correct |
|---|---|---|---|---|---|
| source breaker (`circuit_breaker.py`) | state, failures, opening time per source | `allows_source`, `record_success`, `record_failure`, `reset_all` | detection threads, which call the source between asking and reporting | late reports of calls let through in an earlier state | one probe decides; a source that works is used again |
| upstream breaker (`circuit_breaker.py`, `detectors.py`) | the same for the upstream, two counters | `upstream_*`, the loop of `query_upstream_reply` | every forwarded query | one worker per forwarding; targets that fail one after the other | the semantics of the other breaker; one good target is enough |
| degradation (`circuit_breaker.py`, `detectors.py`) | count of fail-safes, end of a window, mode | `is_degraded`, `record_failsafe`, `record_verdict` | breakers, administrator | window and breakers feed each other | windows end, detection comes back |
| query pipeline (`detectors.py`) | none that outlives a query | `process_query`, `_process_ptr`, `ip_postfilter` | lists, settings, sources, upstream, recorders | layers read lists and settings one by one, seconds apart; exceptions on the way | one outcome, counted as what the client got, that some setting explains |
| vendors and fusion (`adapters/`) | none | `query`, `run_fusion` | pipeline | a missing conclusion is not a vote | the documented strategies |
| list matching (`domain_level.py`, `detectors.py`) | none | `classify_entry`, `_match_domain` | pipeline, list routes | capitals, wildcards, suffixes of several labels | no entry covers the names of several owners by accident |
| verdict caches (`domain_cache.py`, `ip_cache.py`) | LRU of verdicts with a time to live | `get`, `put`, `threatintel_invalidate` | detection threads, routes that edit sources | a verdict computed before an edit is stored after its clear | outdated verdicts are served for a bounded time |
| age of domains (`rdap_nrd.py`) | two caches, a library's routing table and global time-out | `is_new_registration`, `warm_bootstrap`, refresher | detection threads, registries | clearing and refilling what others use; save and restore of a global by several threads | known domains are not asked again; the routing table survives a failed refresh |
| synchronisation (`cross_sync.py`) | last version of each table | `poll_once` | both processes | versions that do not change when the table does | bounded lag |
| offline lists in memory (`threat_list.py`) | two dictionaries | `_load_cache`, `find_domain`, `find_ip`, `invalidate` | detection threads, imports | assignments of a load and of a drop interleave | one load, both dictionaries of one version |
| list imports (`threat_list.py`, `routers/threatlist.py`, `auto_update.py`) | rows, staging table, task status | manual import, automatic round, switch, delete | routes, the write lock, crashes | several transactions make one import; decisions age while a list downloads | the rows of a source are one whole list |
| thread pools (`detectors.py`) | queues and threads of three pools | `map()` of three kinds | every detection | threads that wait for tasks of pools | no circle of waiting |
| query queue (`dns_server.py`, `queue_stats.py`) | pending and inflight counters, the limit | two handlers, `submitted` ... `ended` | event loop, executor | the executor's queue has no bound, the counters keep it | the counters are true |
| query statistics (`query_stats.py`) | count of the day in memory, a row per day | `record`, `flush_once`, day turn | detection threads, flusher, crashes | midnight, restarts, failed statements | a crash costs one interval |
| log writer, first-seen collector (`log_writer.py`, `ai_collector.py`) | a queue each, a set of seen domains | `enqueue`, `record_domain_seen`, flush, `stop` | detection threads, database, exit | rows taken out of a queue and lost | an accepted row is stored once or lost for a named reason |
| retention (`log_retention.py`) | two tables | a pass in each process | recorders, settings | two purgers, a changing setting, failed statements | expired rows go |
| manual lists (`routers/list.py`, `routers/ai.py`, `mcp_server.py`) | `filter_list` | create, update, delete, import, two tools, `confirm_whitelist` | pipeline, agents, AI analysis | look first, write in another transaction | no illegal entry, no double one |
| AI analysis (`ai_batch.py`, `routers/ai.py`, `ai_analysis.py`) | findings | rounds, judgement, confirmation | logs, reviewers | a round prunes what people judge | one finding to judge; judgements stay |
| accounts (`login_guard.py`, `routers/auth.py`, `auth.py`) | two guards, users | login, change of password | routes | the guard is asked before the password is compared, told after | a lock runs its time |
| configuration and start-up (`app/config.py`, `runtime.py`, `seed.py`, `main.py`) | settings | `set_config`, `update_config`, load | all | a setting is stored and then assigned | values in their ranges |
| audit trail (`app/audit.py`) | a table | one insert per request | routes | a transaction after the change | nothing reads it back |
| HTTP client, vendor lists (`http_util.py`, parsers) | none | download, parse | imports, adapters | time-outs | out of scope: the outcome is a choice |
| proxy (`proxy/`) | none that outlives a query | one exchange, one retry by TCP | DNS process | its time-out against the platform's | see "Not modelled" |
| console, deployment, tools | none of the running system | | | | |

The hazards, with the line where each bites and the properties that watch it,
are in `PROJECT.json`.

## Modules

Each module is one component. Its variables are the component's state with the
program counters of the threads that work on it; each action is what a thread
does between two points where another can come in (under a lock: one
acquisition; without: one assignment or read; in the database: one transaction).

Breakers and detection
* **`CircuitBreaker`** is the breaker of one source and, at the same time, the
  abstract specification of a breaker. A caller is *idle*, *normal* or *probe*;
  asking and reporting are steps, the call lies between them. Time is kept as
  ages; a call ends within `CallBound`.
* **`UpstreamResolver`** is the upstream breaker with the loop over the targets.
  `Contract == INSTANCE CircuitBreaker WITH state <- upState, ..., CallBound <-
  NumTargets * AttemptBound` is what it implements: the comment at
  `circuit_breaker.py:34` says that the two have the same semantics. `reliable` is
  the set of targets that always answer, chosen at the start.
* **`DegradedDetection`** puts all breakers and the degradation window together:
  a thread selects the sources its breakers allow, asks them all, records each
  outcome, and ends with a verdict or a fail-safe.

Queries
* **`Verdicts`** holds the pure part of a detection: one operator per vendor that
  turns a reply into *malicious*, *clean* or *none*, and the fusion strategies.
  The replies are those on which the adapters' branches differ; whether a branch
  does justice to what the vendor means is not a question the models can answer.
* **`ProcessQuery`** is one query on its way through `process_query`,
  `_process_ptr` and `ip_postfilter`. A step is a layer; `world` is what the lists
  and settings are at the moment and may change between steps (`MaxChanges`
  times), `known` what the query has learned; what sources answer comes from
  `Verdicts`. A hit of a verdict cache is an answer too (from *cache*): it is
  returned before sources and strategy are read, and may be either verdict,
  whatever the strategy is now. Lists, sources and the log may raise (`Faults`).
* **`DomainMatching`** has the levels of `domain_level.py` and the comparison of
  names with entries. A label is a word and the way it is written.
* **`VerdictCache`** models both caches (their code is the same): entries with
  the seconds left, and with how long ago an edit outdated what they rest on.
* **`NewDomains`** has the two caches of registration dates, the routing table with
  its file, warm-up and daily refresh, and the time-out that all threads share.

Service
* **`DnsQueue`** has the two handlers, the executor and the counters.
* **`DetectionPools`** has the three pools with their queues;
  the tasks of a `map()` are submitted one by one, in any order.
* **`CrossSync`** models the four tables through the version the poll sees, what
  the DNS process keeps of each, and the fills that race with the polls.
  `happens` is chosen from `Scenarios` at the start and says which events beside
  well-stamped writes a behaviour has.

Lists
* **`ThreatListCache`** has a step per assignment of `_load_cache` and
  `invalidate`; a dictionary is the version of the table it was loaded from.
* **`ThreatListImport`** has a step per transaction of an import. A list is
  its number and its batches; what a download brings, and whether an automatic
  update is due, are choices.
* **`ListAdmin`** has the routes and tools that edit the manual lists, and
  `confirm_whitelist` of the AI routes, which adds to them without their check
  (`Confirmed`: the domains it is called with). Updates, imports, tools and
  confirmations read in one step and write in another.

Recorders and the rest of the Web process
* **`QueryStats`** has a step per statement under the lock, midnight and crashes.
* **`RecordQueue`** serves the log writer and the first-seen collector, which
  copies it: `kind` says which. Threads record, a flusher and the exit handler take
  batches and write them; writes fail, the process is killed.
* **`LogRetention`** has a purger per process, rows by the day they are of, and a
  retention that is set anew at any time.
* **`AiFindings`** has the rounds of the analysis and the people who judge; a
  round's reads before its first write are steps of their own.
* **`LoginGuard`** has the guards of account and address and the logins that pass.

The modules `MC...` extend these for TLC. Most of them put several modules
*side by side*: `part` is chosen in the initial state and says which module a
behaviour is of, and the variables of the others rest in one state. The modules
of one `MC` module exchange nothing but what the one that calls already has as a
choice (a query knows of the verdict cache and the registry check what they
return), so that interleaving them would add states and no behaviour of either.
Since they extend the components, what a run checks is the definition that the
theorem is about, under the same name.

The modules `...Proofs` hold the theorems, one module for what belongs together:
`CircuitBreakerProofs`, `DetectionProofs` (`UpstreamResolver`,
`DegradedDetection`), `QueryProofs` (`Verdicts`, `ProcessQuery`, `VerdictCache`,
`NewDomains`), `ServiceProofs` (`DnsQueue`, `DetectionPools`), `CrossSyncProofs`,
`ThreatListProofs` (`ThreatListCache`, `ThreatListImport`), `RecorderProofs`
(`QueryStats`, `RecordQueue`) and `AdminProofs` (`ListAdmin`, `AiFindings`,
`LoginGuard`). Operators named `Bug...` are mutations of the definition that
follows them; `PROJECT.json` says which property notices each. They are used by no
specification.

### Abstractions to know about

* A breaker that does not exist yet is a closed one. A threshold of 0, which
  switches a breaker or a guard off, is excluded, and thresholds do not change.
* `now` is read before the lock is taken; the models read it under the lock.
* `Reset` is the reset route. It reaches the process that serves it only.
* The order in which a query selects and records its sources is left open; in
  the code it is the order of a dictionary.
* Of the counters of `queue_stats`, those that only grow are left out; of a day's
  statistics, the total stands for its three parts.
* `CrossSync` has a clock that does not go back, and polls that are not late.
* `ProcessQuery` follows one name: a list holds it or not. Its addresses are two,
  one of them also what a PTR query asks about.
* In `RecordQueue` the table is how often each row is stored in it; ids are left out,
  and a row carries the number of its record instead.
* What a file of `ListAdmin` adds is a set, written in some order.
* A text of an entry has one blank at most, the one at the end that
  `confirm_whitelist` leaves (`blank`); the other entrances strip it.
* A verdict that `ProcessQuery` gets from a cache may be any: how old it can be is
  what `VerdictCache` and `CrossSync` say.
* The scores of the analysis, the texts of verdicts and rows, and the checks of
  the ranges of values are left out.
* Some variables belong to no code and only observe: `outdated` in
  `VerdictCache`, `lag` in `CrossSync`, `kept`, `since` and `failed` in `QueryStats`,
  `worlds` in `ProcessQuery`, `accepted` and `lost` in `RecordQueue`, `by` and `mixed` in `ListAdmin`.

## Runs

| run | module | what it shows |
|---|---|---|
| `breakers` | `MCBreakers` | three callers, late reports, resets: at most one probe, alone while half-open; a source that works again is used again; the upstream breaker implements `CircuitBreaker` with its fairness, leaves no worker waiting beside the probe, and stays closed while one target answers |
| `degraded` | `DegradedDetection` | a half-open breaker has a thread that will record it; windows are not lengthened; detection recovers for good when the sources do and queries go on |
| `queries` | `MCQueries` | a query that ends is counted once, as what its client got; one change that falls into a query takes effect for all of it or none, where a cached verdict stands as it was fused; entries that stay on the lists win over everything else; an outdated verdict is served for `QueryBound + TTL` seconds at most; a known domain is not asked again, in this life of the process or the next; a failed refresh keeps the routing table |
| `sync` | `MCCrossSync` | well-stamped writes are seen within one interval; missed ones are made good by the next version that differs |
| `lists` | `MCLists` | the rows of a source are one whole list or none, after any crash; other sources are untouched; tasks end; the lists are loaded by one thread at a time and once; both dictionaries are of one version |
| `service` | `MCService` | counters agree with the queries; the limit applies to what is unfinished; the pools never wait for each other in a circle; all queries end |
| `recorders` | `MCRecorders` | a crash costs what was counted since the last round and no more, rows do not fall and catch up; a recorded row is stored once; an orderly exit stores all; the row of a domain is its first sight; the queue drains although batches fail; expired rows go although another table fails |
| `admin` | `MCAdmin` | the entrances that check store no refused entry but by two overlapping updates; an import covers one owner's names per entry; imports and tools add once; one finding to judge, judgements stay; a lock runs its time |
| `sync_delete` | `MCCrossSync` | *violation*: a deletion that leaves the newest row is never seen by the DNS process |
| `list_memory_half` | `ThreatListCache` | *violation*: a load between the two assignments of a drop leaves the addresses missing, and nothing loads them again |
| `white_address` | `MCQueries` | *violation*: an address on the white list is taken out of the answer of an A query |
| `import_case` | `MCAdmin` | *violation*: of two entries that differ in capitals the import keeps the first, which need not match the names of the second |

### Bounds

* Two or three threads: the races are between an early and a late one, and a
  third so that a victim and two culprits differ. `breakers` has three callers
  because a probe, a late report and a refused query meet; `admin` has three
  logins because two close the account and a third was let in before.
* `Threshold = 2`, `WindowThreshold = 2`, `LockThreshold = 2`: one failure must not
  be enough, two must be. `OpenTimeout = 3` and `CallBound = 2` keep the order that
  the defaults have (a call ends before the breaker cools down). `ProbeAlone`,
  `SingleProbe` and `OneWorkerWaits` need that order, and the theorems have it as
  their hypothesis.
* `queries`: two changes of the settings, so that a query may see the later and
  not the earlier; each vendor alone, and three together, because fusion cannot
  tell four conclusions from three (a tie, a majority, a missing one). Three cached
  domains for two places, so that entries are evicted. Two threads beside the
  warm-up and the refresher of the routing table.
* `sync`: five seconds of writes are two intervals and the round between them;
  afterwards time goes on without writes. Settings have two keys, so that a
  change of one can hide a missed change of the other.
* `lists`: three versions for two writers, so that a load can be overtaken twice;
  two sources, one of them by API; two batches; a manual and the automatic job.
* `service`: the limits 0 (none), 1 and 2 against four clients, changed at any
  time; one thread in each lower pool, which is the tightest case.
* `recorders`: three days with four queries each; queue and batch of two for four
  rows; `SeenMax = 1`, so that the set of seen domains is emptied; four days of logs
  and retentions of at most two, 0 among them (out of range, read as 1).
* `admin`: two public suffixes, one above the other, entries with and without
  star, scheme-free, in capitals and not; two rows and two requests at a time;
  one domain to confirm, which the others refuse. `import_case` has none, so that
  its counterexample is about the import.
* A bound on how much happens (`MaxRows`, `MaxFindings`, `MaxRecords`, `MaxChanges`)
  may stop a behaviour: the cfgs of `admin` and `queries` do not ask for deadlocks.

### Fairness

* Time passes (`Tick`), and a call, a download or a question to a source ends:
  each has a time-out in the code.
* A thread that can go on does. A lock is taken in the end by who waits for it
  (strong fairness of `Acquire`, `Lock`, `Enter(Flusher)`): the locks are held for
  short times, and Python's locks do not pass over a waiter for ever.
* The flusher wakes (`Wake`: its wait has a time-out), and each purger begins a pass
  again (`Begin`: every six hours).
* Clients need not ask. Where a property needs queries it says so
  (`TrafficContinues`), and so for an outage that ends (`SourceRecovers`,
  `SourcesRecover`, `WritesRecover`).

## Known divergences

Places where the code does something else than its comments or documents say. The
first four are runs. Where another name stands in the last column, the module holds the
promise as a definition, which TLC refutes when it is added to a cfg of the module
with the constants named here; the others were met while modelling, and the model
has the behaviour.

| # | what the code does | promise | how to see it |
|---|---|---|---|
| 1 | a deletion stamps nothing (`app/routers/list.py:201`) | `cross_sync.py:17`: at most 60 s | run `sync_delete` |
| 2 | a half-finished drop hides missing addresses (`app/threat_list.py:774`) | `app/threat_list.py:771`: the next lookup reloads | run `list_memory_half` |
| 3 | the filter of an answer's addresses does not ask the white list (`detectors.py:562`) | requirements, lines 37 and 98 | run `white_address` |
| 4 | names in capitals are one entry for the import, two for the matching (`detectors.py:138`) | `app/routers/list.py:231` | run `import_case` |
| 5 | the success of an old call closes an open breaker (`circuit_breaker.py:116`) | lines 8-11: it cools down and probes | `OpenLeavesByProbe` |
| 6 | a slow call's failure reopens a half-open breaker, and a second probe leaves (line 127) | line 94: one probe | `SingleProbe` with `CallBound = 5` |
| 7 | in degrade mode every fail-safe is released, window or not (`detectors.py:283`) | `circuit_breaker.py:22` | `ReleasedOnlyInWindow` |
| 8 | addresses are released too (`detectors.py:346`) | `circuit_breaker.py:23-25` | `IpNeverReleased` |
| 9 | an open window goes on after a switch to intercept (`circuit_breaker.py:174`) | `detectors.py:221` | `InterceptNeverSkips` |
| 10 | fail-safes count during a window (`circuit_breaker.py:191`) | line 19: the count starts anew | `CountsAnewAfterWindow` |
| 11 | a verdict from before an edit is stored after the clear (`detectors.py:272`) | `domain_cache.py:18` | `ServedAreCurrent` |
| 12 | an edit of name or key clears nothing (`app/routers/threatintel.py:184`) | `domain_cache.py:18` | `HandlersClear` |
| 13 | switching a list stamps nothing (`app/threat_list.py:497`) | `cross_sync.py:17` | `PromisedLag`, `Scenarios = {{"toggle"}}`, table `threat_list` |
| 14 | a failed read forgets the version seen last (`cross_sync.py:71`) | line 40: the round is skipped | `FailedReadSkips`, `{{"read_error"}}` |
| 15 | rows read before a drop are stored after it (`app/db.py:165`) | `cross_sync.py:17` | `PromisedLag`, `{{"slow_fill"}}` |
| 16 | a change between the start and the first poll is part of the baseline (`cross_sync.py:64`) | line 54: nothing is cached by then | `PromisedLag`, `{{"early_edit"}}`, table `system_config` |
| 17 | a new fusion strategy leaves the verdicts of the DNS process (`cross_sync.py:62`) | `domain_cache.py:18` | `PromisedLag`, `{{}}`, tables `system_config` and `threatintel_api` |
| 18 | a lookup raises when a drop falls into it (`app/threat_list.py:825`) | line 819: an answer | `LookupsAnswer` |
| 19 | rows read before a change stay after its drop (`app/threat_list.py:773`) | line 771 | `Reloads` |
| 20 | a download without entries empties its source (`app/threat_list.py:416`) | lines 407-409 | `ImportsKeepSomething` |
| 21 | an automatic update switches on again what was switched off while it downloaded (`app/threat_list.py:639`) | line 596: enabled sources only | `StaysSwitchedOff` |
| 22 | two requests begin the import of one source (`app/threat_list.py:541`) | line 539: the second is refused | `OneManualImport`, two `ManualJobs` |
| 23 | jobs are queued before they are counted (`dns_server.py:129`) | lines 147-148: the queue is bounded | `QueueBounded` |
| 24 | queries by TCP are not in inflight (`dns_server.py:197`) | `queue_stats.py:41` | `InflightAgrees` |
| 25 | a failed read at the start counts from 0, and the row is replaced (`query_stats.py:71`) | line 16 | `RowsGrow`, `Failures = {"read"}` |
| 26 | a failed write at midnight is not tried again (`query_stats.py:58`) | line 109 | `OldDaysComplete`, `Failures = {"turn"}` |
| 27 | a refresh that began before the routing table was there has no backup; it clears, fails, and the process stays ready without routes (`rdap_nrd.py:280`) | line 267 | `RoutesAlwaysSurvive` |
| 28 | threads restore each other's time-outs (`rdap_nrd.py:374`) | lines 240 and 380 | `TimeoutsApart` |
| 29 | the exit waits 10 s for the flusher and then loses its batch; a batch of the exit that fails is lost, with what is still queued left there (`log_writer.py:142`) | lines 15 and 174 | `ExitStoresAll`, `Faults = {"join"}` or `{"exit"}` |
| 30 | the flusher waits for the interval also when a batch is full (`log_writer.py:112`) | line 12 | `Wake` has no other guard |
| 31 | a domain whose row was dropped or lost is not collected again before a restart or a full set (`ai_collector.py:68`) | line 14 | `Notice`, `Restart` |
| 32 | a query that raises is not counted (`detectors.py:769`); by TCP it also gets no SERVFAIL | `detectors.py:684-689`: every path is counted | `OneOutcome` speaks of ended queries |
| 33 | an answer that cannot be parsed is passed on unfiltered (`detectors.py:538`) | | `known.readable` in `ListsAreKept` |
| 34 | a 404 of VirusTotal and xforce is no conclusion, and counts as a failure of the source | | `Verdicts` has the code's reading, and no property judges it |
| 35 | of several return codes of a blocklist the first counts (`adapters/dnsbl.py:110`) | | likewise |
| 36 | two updates of an entry that overlap may store a combination that would be refused (`app/routers/list.py:178`) | lines 8 and 43: at every entrance | `RowsAreLegal` without `mixed` |
| 37 | a tool takes an error of the platform for "not there" and adds a second entry (`mcp_server.py:268`) | | `AddedOnce`, `ToolFaults = {"api"}` |
| 38 | a round without hits prunes by what it read before its transaction and may delete what has been judged since (`ai_batch.py:75`) | lines 75-76: always kept | `JudgedKept` without its first condition |
| 39 | the right password opens a locked account if the login was let in before the lock | `login_guard.py:4` | `LockHolds` without its last line |
| 40 | `confirm_whitelist` inserts without `_validate`: `*. .` becomes `*. ` with a blank, a wildcard without a suffix (`app/routers/ai.py:180`). Two confirmations that overlap add an entry twice | `app/routers/list.py:8`: refused at every entrance | `RefusedEverywhere`, with the constants of `MCAdmin.cfg` |
| 41 | a thread that cannot be started after `begin_import` leaves the task *running*: the source is refused until a restart (`app/routers/threatlist.py:138`) | | not modelled: `BeginMark` stands for both |

## Proofs

`tlapm` checks every theorem to the last leaf, for every value of the constants
that satisfies the named assumptions. Every safety invariant and every action
property of the passing runs is the statement of a theorem.

### Assumptions on constants

They are named, stand in the module that declares the constants, and TLC
evaluates them on every run. Most say that a size, a threshold or a time is a
number (positive where 0 switches the mechanism off). The others:
* threads of different kinds are different threads (`ThreadsAssumption` of
  `QueryStats` and `NewDomains`, `ThreadAssumption` of `ListAdmin`, `JobsAssumption`),
  and "nobody" and "no name" are none of them (`NobodyAssumption`,
  `NoReaderAssumption`, `NoNameAssumption`);
* what is counted or written down in a sequence is finite (`ClientsAssumption`,
  `HitsAssumption`);
* there is an address for a PTR query to be about (`QueryAssumption`);
* typed entries are entries and names are sequences of labels (`TypedAssumption`),
  and a domain to confirm is a text without a scheme, which a part of a path
  cannot hold (`ConfirmedAssumption`).

### Theorems

Hypotheses stand in the second column, with the number of the divergence that
shows why they are needed. The constants of the runs satisfy them all.

| theorem | statement | argument |
|---|---|---|
| **`CircuitBreakerProofs`** | | |
| `TypeCorrect` | `TypeOK` | `failures` stays below the threshold while closed |
| `ProbeDecides` | `ProbeAlone`, if `CallBound < OpenTimeout` (6) | `ProbeInv`: while open, every call in flight is at least as old as the opening, so that none is left when the breaker has cooled down; half-open has its probe alone |
| `OneProbeAtATime` | `SingleProbe`, likewise | the probe of an earlier half-open period has ended when the next begins |
| **`DetectionProofs`** | | |
| `ImplementsBreaker` | `UpstreamSpec => Contract!Spec` | `CallInv`: a call at its t-th target is at most `(t-1) * AttemptBound + attemptAge` old; each action maps to one of the breaker or to a stutter |
| `ProbeWaitsAlone` | `OneWorkerWaits`, if `NumTargets * AttemptBound < UpOpenTimeout` | the refinement carries `ProbeDecides` over to the upstream |
| `OneTargetIsEnough` | `BackupKeepsServing` | no forwarding gets past a reliable target, so that none fails |
| `TypeCorrect`, `ProbesAreRecorded`, `WindowRunsDown` | `TypeOK`, `HalfOpenIsAsked`, `WindowNotExtended` | what a thread asks is within its sources; the thread that turned a breaker half-open still has it in `asked` |
| **`QueryProofs`** | | |
| `QueriesCountOnce` | `OneOutcome`: an answered query is counted once, one that raises at most once (32) | until it ends, a query has counted nothing and no row but of observation: `Finish` is the only place that does, and nothing comes after it |
| `FusionIsDocumented` | for any finite set of sources and whatever they conclude, `run_fusion` decides as `adapters/__init__.py:121-124` says | the conclusions are the disjoint union of the malicious and the clean, so that more than half of them are malicious exactly if these are more than the clean ones |
| `QueryTypeCorrect`, `NrdTypeCorrect` | `TypeOK`, `NrdTypeOK` | a change of the settings gives settings again; who is not idle has a domain |
| `ChangesAreSeenWhole` | `SomeSettingExplains` | `ExplainInv`: of the two settings that were in force one explains the way so far. Two settings one change apart differ in one key (`Near`), and each layer reads a key that no earlier one has read: if the layer's key is the one that changed, the setting of the moment explains all, else both decide alike. A cached verdict is read by no key: it is the same under both |
| `ListsKept` | `ListsAreKept` | `KeptInv`: who is past a list was, by some setting, not on it |
| `StalenessBounded` | `BoundedStaleness` | a query that rests on an outdated reading is no older than the outdating plus what is left to it |
| `KnownAreNotAsked` | `KnownNotAsked`, if `"load" \notin NrdFaults` | `MemoryInv`: once loaded, memory has what the table has; what a merge has read, and what memory gained since, cover the table together |
| `RoutesAreKept` | `RoutesSurvive` (see 27) | `RoutesInv`: only a refresh clears, it has a backup then or none was to be had, and the restore comes before it sleeps |
| **`ServiceProofs`** | | |
| `CountersAreTrue`, `LimitIsKept` | `CountersAgree`, `LimitKept` | the counter is the cardinality of the clients between acceptance and completion, and each step moves one client in or out |
| `PoolsNeverStop` | `NotStuck` | `PoolInv`: who is waited for is in the queue of its pool or has a thread, and is of a lower pool. If a thread of a pool waits and the pool below has tasks, that pool has a free thread or threads that wait for the next one, and the lowest waits for nobody |
| **`CrossSyncProofs`** | | |
| `LagIsBounded` | `BoundedLag`, if not both `system_config` and `threatintel_api` are among the tables (17) | `ChangeShows`: as long as the version is the one seen last, what is kept is what is in the table, and what has been out of date for a second has another version. A write of a later second raises the newest time stamp; that there is a newest is shown by well-foundedness |
| **`ThreatListProofs`** | | |
| `ListsAreWhole` | `WholeLists` | the staging table is the first `done` batches of the writer's list, and of nobody else, whenever a writer is inserting |
| `ImportsKeepApart` | `OthersUntouched` | by the same invariant, what is swapped in has rows of the job's own source only |
| `LoadsAreSingle`, `OneVersion` | `LoadedOnce`, `SameVersion` | who is past `Acquire` holds the lock; only the holder assigns; the domains a loader has just stored are its rows or dropped |
| **`RecorderProofs`** | | |
| `CrashCosts`, `RowsNeverFall` | `NothingElseLost`, `RowsGrow`, if only the writes of rounds fail (25, 26) | `count = row + since` on the day in memory, and the day in memory is not in the future |
| `RowsAreStoredOnce` | `StoredOnce` | `RowsInv`: queue and hands share no row and hold none twice; what was accepted is in one of them, lost or stored; rows get new numbers. A take cuts the queue in two |
| `ExitLeavesNothing` | `ExitStoresAll`, if `Faults` has neither `"exit"` nor `"join"` (29) | `ExitInv`: the handler takes when the thread is gone, and ends with the queue empty |
| `FirstSightsAreKept` | `FirstSightKept`, if `"join" \notin Faults` | `OrderInv`: queue and hand have the rows of a name in the order of their numbers, the hand before the queue; by `ExitInv` one taker has rows at a time |
| **`AdminProofs`** | | |
| `ListsAreLegal` | `RowsAreLegal`: of the rows that create, update, import and the tools write, not of those of `confirm_whitelist` (see 36 and 40) | `ListInv`: what a request or an import carries from its first step to its second has passed the check, and a row that has not changed in between is the one it was checked against |
| `AddsOnce` | `AddedOnce`, if `"api" \notin ToolFaults` (37) and there is one session of the tools | `AddInv`: between look and write no other import, and no other tool, adds the entry |
| `ImportsAreNarrow` | `ImportIsNarrow`, if `SuffixesClosed` | the names below an entry that is no public suffix end in the same suffix and one label more: a longer suffix of such a name would have the entry as a tail. `SuffixesClosed` says that tails of two labels or more of a suffix are suffixes; the built-in table has none longer than two, a Public Suffix List in its place need not have it |
| `OneToJudge`, `JudgementsStay` | `OnePending`, `JudgedKept` (see 38) | `SeenInv`: what the first SELECT of a round did not see is not there when its transaction begins, since only rounds insert; what is inserted differs from what is pending and from itself |
| `LocksHold` | `LockHolds` (see 39) | while the account is locked, nobody is under way who was let in after that |

The strengthened invariants are needed because none of these properties is
inductive: each speaks of the moment of a step, and what makes it true was
arranged several steps, and often another thread, earlier. Where an invariant is
long, a theorem rests on one lemma per action or group of actions, and these on
lemmas about the operators: `SetToSeq`, sequences cut in two, cardinalities of a
set that gains or loses one, the endings of a name, products of targets and
time-outs. They are stated once and cited.

`SomeSettingExplains` speaks of queries into which at most one change falls, `SomeSettingExplains` speaks of queries into which at most one change falls, as
its definition does: with two, a query may see the later and not the earlier. It
takes the verdicts of the caches as they are: that these may have been fused
by a strategy of an earlier time is divergence 17, and for how long an edit of
the sources can be missing from them is `BoundedStaleness`.
 a query may see the later and not the earlier.
`BoundedLag` speaks of writes with a second of their own; what happens else is in
divergences 1 and 13 to 17.

### Model-checked only

Liveness: fairness and ENABLED are beyond the prover. These are
`ReturnsToService`, `DetectionRecovers`, `NextVersionHeals`, `TasksEnd`,
`AllQueriesEnd`, `RowsCatchUp`, `QueueDrains` and `ExpiredGo`, and the fairness that
`SameSemantics` adds to `ImplementsBreaker`. `DomainMatching`, whose longest
suffix is found by comparing all tails, has no theorem that says what it
computes beside what the theorems above use of it. The adapters of `Verdicts`
are translated and used by the runs; nothing is claimed about what a vendor
means by a reply.

## Not modelled

* **Proxy.** It keeps nothing from one query to the next: one exchange by UDP with
  `ForwardTimeout`, SERVFAIL if that fails, one retry by TCP if the answer is cut off.
  What matters about it is a number: the platform allows up to four upstream targets
  of up to 10 s each, and the proxy gives up after 3 or 8 s, so that the comment at
  `app/routers/config.py:232` (the retries together stay below the proxy's
  time-out) holds for the defaults only.
* **Scores, reports and language model** of the analysis (`ai_analysis.py`): pure
  functions of counts in the logs, with thresholds that are their definition.
* **Configuration routes and start-up.** `update_config` stores each key in a
  transaction of its own and then assigns it: a reader may see some of the keys.
  `ProcessQuery` covers that by changing settings one at a time. Ranges of values,
  seeding and loading are straight-line code.
* **Reading tools of the MCP server, audit trail, tokens and hashing, HTTP client,
  parsing of vendor lists and DNS messages, console, deployment and load tests**:
  presentation, library calls and formats, without state that a property could be
  about. `PROJECT.json` has a component for each, with the reason.

What is left to do, in this order: a service model in which the queue of `DnsQueue`
is the query pool of `DetectionPools`, with `NotStuck` for the whole; the
configuration routes with their keys, and then `BoundedLag` for the verdicts with a
fusion strategy that does not change.
