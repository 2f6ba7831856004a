------------------------------ MODULE CrossSync ------------------------------
(***************************************************************************)
(* How the DNS process learns of what the Web process writes               *)
(* (platform/cross_sync.py).  Both share the SQLite file and nothing else: *)
(* every Interval seconds a thread of the DNS process compares MAX(updated *)
(* _at) of four tables with the value seen last, and refreshes or drops    *)
(* what the process keeps of a table when it differs.                      *)
(*                                                                         *)
(* A row is a value and the second it was stamped at; what the DNS process *)
(* keeps of a table (CONFIG, the caches of the two lists, the verdicts) is *)
(* the contents it was made from.  "happens" is what a behaviour may have  *)
(* beside well-stamped writes: events that the polling has to live with,   *)
(* most of which are enough to defeat it.                                  *)
(***************************************************************************)
EXTENDS Integers, FiniteSetsExt

CONSTANTS
    Tables,         \* the polled tables considered
    Keys,           \* keys of the rows of each table
    Values,         \* what a row of each table may say
    Interval,       \* POLL_INTERVAL_S
    MaxClock,       \* bound: no write after this second
    Scenarios       \* sets of events that are considered

Events == {"same_second", "delete", "delete_newest", "toggle", "read_error", "slow_fill", "early_edit"}

ASSUME TablesAssumption ==
    Tables \subseteq {"system_config", "filter_list", "threatintel_api", "threat_list"}
ASSUME BoundsAssumption == Interval \in Nat \ {0} /\ MaxClock \in Nat \ {0}
ASSUME ScenariosAssumption == Scenarios \subseteq SUBSET Events

VARIABLES
    rows,           \* the tables
    clock,          \* datetime('now','localtime'), in seconds
    baseline,       \* _last
    seen,           \* the version poll_once has just read, or Nothing
    kept,           \* what the DNS process keeps, by table
    filling,        \* rows read and not yet stored in a cache
    sincePoll,      \* seconds since the table was last polled
    lag,            \* seconds for which "kept" has been out of date
    booting,        \* the first poll_once is still to come
    happens         \* the scenario of this behaviour

vars == <<rows, clock, baseline, seen, kept, filling, sincePoll, lag, booting, happens>>

Nothing == -1       \* None: no baseline, no version, nothing kept
Failed == -2        \* _table_version could not read
Absent == [value |-> Nothing, at |-> Nothing]
Unloaded == [s \in {} |-> Nothing]     \* a cache that keeps nothing

\* The tables that what is kept of t was made from: verdicts also rest on the
\* fusion strategy in CONFIG.
Sources(t) ==
    IF t = "threatintel_api" THEN {t, "system_config"} \intersect Tables ELSE {t}

View(t) == [k \in Keys[t] |-> rows[t][k].value]
InForce(t) == [s \in Sources(t) |-> View(s)]
OutOfDate(t) == kept[t] # Unloaded /\ kept[t] # InForce(t)

\* What a fill reads: the rows, and CONFIG for the strategy.
Read(t) ==
    [s \in Sources(t) |-> IF s = "system_config" THEN kept[s][s] ELSE View(s)]

\* _table_version: 0 stands for the '' of an empty table.
Version(t) == Max({0} \union {rows[t][k].at : k \in Keys[t]})

TypeOK ==
    /\ DOMAIN rows = Tables
    /\ \A t \in Tables :
          rows[t] \in [Keys[t] -> [value : Values[t], at : 1..MaxClock] \union {Absent}]
    /\ clock \in 1..MaxClock
    /\ baseline \in [Tables -> {Nothing, Failed} \union 0..MaxClock]
    /\ seen \in [Tables -> {Nothing, Failed} \union 0..MaxClock]
    /\ \A t \in Tables : kept[t] # Unloaded =>
          /\ DOMAIN kept[t] = Sources(t)
          /\ \A s \in Sources(t) : kept[t][s] \in [Keys[s] -> Values[s] \union {Nothing}]
    /\ "system_config" \in Tables => kept["system_config"] # Unloaded
    /\ sincePoll \in [Tables -> 0..Interval]
    /\ lag \in [Tables -> 0..Interval + 1]
    /\ happens \in Scenarios

\* Start-up: sync_config_from_db has run; every other cache is empty.
Init ==
    /\ clock = 1
    /\ rows = [t \in Tables |-> [k \in Keys[t] |-> Absent]]
    /\ baseline = [t \in Tables |-> Nothing]
    /\ seen = [t \in Tables |-> Nothing]
    /\ kept = [t \in Tables |->
                 IF t = "system_config" THEN [s \in {t} |-> [k \in Keys[t] |-> Nothing]] ELSE Unloaded]
    /\ filling = [t \in Tables |-> Unloaded]
    /\ sincePoll = [t \in Tables |-> Interval]
    /\ lag = [t \in Tables |-> 0]
    /\ booting = TRUE
    /\ happens \in Scenarios

-----------------------------------------------------------------------------
(* The Web process.                                                        *)

Write(t, k, row) ==
    /\ clock < MaxClock
    /\ booting => "early_edit" \in happens
    /\ "same_second" \in happens \/ clock \notin {baseline[t], seen[t]}
    /\ rows' = [rows EXCEPT ![t][k] = row]
    /\ UNCHANGED <<clock, baseline, seen, kept, filling, sincePoll, lag, booting, happens>>

\* INSERT or UPDATE with a new stamp: create and update of the routes,
\* set_config, _replace_source_rows.
Put(t, k, v) ==
    /\ rows[t][k].value # v
    /\ Write(t, k, [value |-> v, at |-> clock])

\* The row whose stamp alone is the version that was seen last.
Newest(t, k) ==
    /\ rows[t][k].at = baseline[t] /\ seen[t] = Nothing
    /\ \A j \in Keys[t] \ {k} : rows[t][j].at < baseline[t]

\* DELETE: routes of the list, of the sources, and delete_source.
Delete(t, k) ==
    /\ t # "system_config"
    /\ rows[t][k] # Absent
    /\ "delete" \in happens \/ ("delete_newest" \in happens /\ Newest(t, k))
    /\ Write(t, k, Absent)

\* enable_source updates the rows and leaves their stamps alone.
Toggle(t, k, v) ==
    /\ "toggle" \in happens /\ t = "threat_list"
    /\ rows[t][k] # Absent /\ rows[t][k].value # v
    /\ Write(t, k, [rows[t][k] EXCEPT !.value = v])

-----------------------------------------------------------------------------
(* The DNS process: lookups fill the caches.                               *)

FillRead(t) ==
    /\ t # "system_config"
    /\ kept[t] = Unloaded /\ filling[t] = Unloaded
    /\ filling' = [filling EXCEPT ![t] = Read(t)]
    /\ UNCHANGED <<rows, clock, baseline, seen, kept, sincePoll, lag, booting, happens>>

FillStore(t) ==
    /\ filling[t] # Unloaded
    /\ kept' = [kept EXCEPT ![t] = filling[t]]
    /\ filling' = [filling EXCEPT ![t] = Unloaded]
    /\ UNCHANGED <<rows, clock, baseline, seen, sincePoll, lag, booting, happens>>

-----------------------------------------------------------------------------
(* The DNS process: one table of poll_once.                                *)

\* The tables are polled one by one, always in this order.
Turn == [system_config |-> 1, filter_list |-> 2, threatintel_api |-> 3, threat_list |-> 4]

PollRead(t, v) ==
    /\ sincePoll[t] = Interval /\ seen[t] = Nothing
    /\ \A s \in Tables : Turn[s] < Turn[t] => sincePoll[s] < Interval
    /\ seen' = [seen EXCEPT ![t] = v]
    /\ UNCHANGED <<rows, clock, baseline, kept, filling, sincePoll, lag, booting, happens>>

PollVersion(t) == PollRead(t, Version(t))

\* The query raises; _table_version returns None.
PollError(t) == "read_error" \in happens /\ PollRead(t, Failed)

BugRefreshesNewer(t) ==     \* only the settings stamped after the last version
    IF t = "system_config"
      THEN [s \in {t} |-> [k \in Keys[t] |->
               IF rows[t][k].at > baseline[t] THEN rows[t][k].value ELSE kept[t][t][k]]]
      ELSE Unloaded

\* sync_config_from_db reads all the settings; the caches are dropped.
Refresh(t) == IF t = "system_config" THEN [s \in {t} |-> View(s)] ELSE Unloaded

Changed(t) ==
    /\ baseline[t] \notin {Nothing, Failed} /\ seen[t] # Failed
    /\ seen[t] # baseline[t]

BugBaselineReread(t) ==     \* _last takes the version of after the action
    /\ seen[t] # Nothing
    /\ filling[t] # Unloaded => "slow_fill" \in happens
    /\ kept' = IF Changed(t) THEN [kept EXCEPT ![t] = Refresh(t)] ELSE kept
    /\ lag' = IF Changed(t) THEN [lag EXCEPT ![t] = 0] ELSE lag
    /\ baseline' = [baseline EXCEPT ![t] = Version(t)]
    /\ seen' = [seen EXCEPT ![t] = Nothing]
    /\ sincePoll' = [sincePoll EXCEPT ![t] = 0]
    /\ booting' = (booting /\ \E s \in Tables \ {t} : sincePoll[s] = Interval)
    /\ UNCHANGED <<rows, clock, filling, happens>>

\* What a failed read leaves in _last is None, as before the first poll.
PollAct(t) ==
    /\ seen[t] # Nothing
    /\ filling[t] # Unloaded => "slow_fill" \in happens
    /\ kept' = IF Changed(t) THEN [kept EXCEPT ![t] = Refresh(t)] ELSE kept
    /\ lag' = IF Changed(t) THEN [lag EXCEPT ![t] = 0] ELSE lag
    /\ baseline' = [baseline EXCEPT ![t] = seen[t]]
    /\ seen' = [seen EXCEPT ![t] = Nothing]
    /\ sincePoll' = [sincePoll EXCEPT ![t] = 0]
    /\ booting' = (booting /\ \E s \in Tables \ {t} : sincePoll[s] = Interval)
    /\ UNCHANGED <<rows, clock, filling, happens>>

-----------------------------------------------------------------------------
\* A second passes; the rounds are not late.
Tick ==
    /\ \A t \in Tables : sincePoll[t] < Interval
    /\ clock' = IF clock < MaxClock THEN clock + 1 ELSE clock
    /\ sincePoll' = [t \in Tables |-> sincePoll[t] + 1]
    /\ lag' = [t \in Tables |->
                 IF ~OutOfDate(t) THEN 0
                 ELSE IF lag[t] <= Interval THEN lag[t] + 1 ELSE lag[t]]
    /\ UNCHANGED <<rows, baseline, seen, kept, filling, booting, happens>>

Next ==
    \/ \E t \in Tables :
          \/ \E k \in Keys[t], v \in Values[t] : Put(t, k, v) \/ Toggle(t, k, v)
          \/ \E k \in Keys[t] : Delete(t, k)
          \/ FillRead(t) \/ FillStore(t)
          \/ PollVersion(t) \/ PollError(t) \/ PollAct(t)
    \/ Tick

Spec == Init /\ [][Next]_vars

\* The polling thread and time go on; a lookup under way ends.
FairSpec ==
    /\ Spec
    /\ WF_vars(Tick)
    /\ \A t \in Tables : WF_vars(PollVersion(t)) /\ WF_vars(PollAct(t)) /\ WF_vars(FillStore(t))

-----------------------------------------------------------------------------
(* Properties.                                                             *)

\* "At most 60 s": what the DNS process works with is out of date for one
\* interval at most (cross_sync.py line 17).  It is kept where every write is
\* stamped in a second of its own, and rows are deleted only when newest.
BoundedLag ==
    happens \subseteq {"delete_newest"} => \A t \in Tables : lag[t] <= Interval

\* The promise for writes that the stamps do not show (line 16): the next
\* version that differs brings everything up to date, earlier misses too,
\* unless its read fails.  (Of writes and switches: a deletion can take the
\* differing version away again.)
NextVersionHeals ==
    \A t \in Tables :
        (/\ happens \intersect {"delete", "delete_newest"} = {}
         /\ OutOfDate(t) /\ baseline[t] \in Nat /\ Version(t) # baseline[t])
            ~> (~OutOfDate(t) \/ seen[t] = Failed)

-----------------------------------------------------------------------------
(* What the comments say and the code does not do.                         *)

\* "At most 60 s" (line 17) without a condition.
PromisedLag == \A t \in Tables : lag[t] <= Interval

\* A round whose read fails is skipped (line 40): it does not touch the
\* version seen last, against which the next round compares.
FailedReadSkips ==
    [][\A t \in Tables : seen[t] = Failed => baseline'[t] = baseline[t]]_vars

=============================================================================
