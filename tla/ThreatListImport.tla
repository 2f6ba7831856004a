-------------------------- MODULE ThreatListImport --------------------------
(***************************************************************************)
(* The imports of offline lists (platform/app/threat_list.py, app/routers/ *)
(* threatlist.py, app/auto_update.py).  A job downloads the list of a      *)
(* source, fills a staging table in batches of one transaction each, and   *)
(* replaces the rows of the source in a last transaction.  Jobs are the    *)
(* threads of the requests of operators and the round of the automatic     *)
(* update; they download side by side and import one after the other under *)
(* _IMPORT_WRITE_LOCK.  The process may stop between any two transactions: *)
(* the tables stay as they are and everything else is forgotten.           *)
(*                                                                         *)
(* A list is a number (which download it is) and its batches.              *)
(***************************************************************************)
EXTENDS Naturals, FiniteSets

CONSTANTS
    Sources,        \* built-in sources
    ApiSources,     \* those of them fetched by API: an empty result is refused
    Lists,          \* what a download may bring, EmptyList apart
    Batches,        \* number of batches of a list
    ManualJobs,     \* threads of _run_import_task
    AutoJob         \* the thread of auto_update_once

ASSUME SourcesAssumption == ApiSources \subseteq Sources
ASSUME BatchesAssumption == Batches \in Nat \ {0}
ASSUME JobsAssumption == AutoJob \notin ManualJobs

VARIABLES
    table,          \* threat_list: rows
    staging,        \* threat_list_staging: rows; kept across crashes
    writer,         \* the job that holds _IMPORT_WRITE_LOCK, or Nobody
    job,            \* what each job is doing
    keys,           \* sources left in the round of the automatic update
    task            \* _IMPORT_TASKS: status by source

vars == <<table, staging, writer, job, keys, task>>

Jobs == ManualJobs \union {AutoJob}
Nobody == "nobody"
EmptyList == "empty"
Rows == [source : Sources, list : Lists, batch : 1..Batches, on : BOOLEAN]
Idle == [step |-> "idle"]
Imports ==
    [step : {"begin", "download", "wait", "insert", "finish"}, source : Sources,
     list : Lists \union {EmptyList}, done : 0..Batches, on : BOOLEAN]

ASSUME NamesAssumption == Nobody \notin Jobs /\ EmptyList \notin Lists

TypeOK ==
    /\ table \subseteq Rows
    /\ staging \subseteq Rows
    /\ writer \in Jobs \union {Nobody}
    /\ job \in [Jobs -> Imports \union {Idle}]
    /\ keys \subseteq Sources
    /\ task \in [Sources -> {"idle", "running", "done", "error"}]

Init ==
    /\ table = {}
    /\ staging = {}
    /\ writer = Nobody
    /\ job = [j \in Jobs |-> Idle]
    /\ keys = {}
    /\ task = [s \in Sources |-> "idle"]

Row(s, list, n, on) == [source |-> s, list |-> list, batch |-> n, on |-> on]
RowsOf(rows, s) == {r \in rows : r.source = s}
EnabledSources == {r.source : r \in {q \in table : q.on}}

Doing(j, step) == job[j].step = step
Go(j, step) == job' = [job EXCEPT ![j] = [job[j] EXCEPT !.step = step]]

\* The end of a job: an operator's task takes its status from it.
Leave(j, status) ==
    /\ job' = [job EXCEPT ![j] = Idle]
    /\ task' = IF j \in ManualJobs THEN [task EXCEPT ![job[j].source] = status] ELSE task

-----------------------------------------------------------------------------
(* Starting an import.                                                     *)

Order(s, on, step) == [step |-> step, source |-> s, list |-> EmptyList, done |-> 0, on |-> on]

\* POST /import: begin_import looks at the status, and then sets it.
BeginCheck(j, s, on) ==
    /\ j \in ManualJobs /\ Doing(j, "idle")
    /\ task[s] # "running"
    /\ job' = [job EXCEPT ![j] = Order(s, on, "begin")]
    /\ UNCHANGED <<table, staging, writer, keys, task>>

BeginMark(j) ==
    /\ Doing(j, "begin")
    /\ task' = [task EXCEPT ![job[j].source] = "running"]
    /\ Go(j, "download")
    /\ UNCHANGED <<table, staging, writer, keys>>

\* A round of the automatic update: the sources enabled at its beginning.
AutoRound ==
    /\ Doing(AutoJob, "idle") /\ keys = {}
    /\ keys' = EnabledSources
    /\ UNCHANGED <<table, staging, writer, job, task>>

\* The next source of the round: skipped when a manual import of it runs or
\* when it is not due, else downloaded, to be imported as enabled.
AutoSkip(s) ==
    /\ Doing(AutoJob, "idle") /\ s \in keys
    /\ keys' = keys \ {s}
    /\ UNCHANGED <<table, staging, writer, job, task>>

AutoUpdate(s) ==
    /\ Doing(AutoJob, "idle") /\ s \in keys
    /\ task[s] # "running"
    /\ keys' = keys \ {s}
    /\ job' = [job EXCEPT ![AutoJob] = Order(s, TRUE, "download")]
    /\ UNCHANGED <<table, staging, writer, task>>

-----------------------------------------------------------------------------
(* The import.                                                             *)

\* download and parse_content.  What is refused (a download cut short, the
\* empty result of an API) ends the job; an empty text list does not.
Download(j, list) ==
    /\ Doing(j, "download")
    /\ list = EmptyList => job[j].source \notin ApiSources
    /\ job' = [job EXCEPT ![j] = [job[j] EXCEPT !.step = "wait", !.list = list]]
    /\ UNCHANGED <<table, staging, writer, keys, task>>

BugErrorNotMarked(j) ==     \* the status is left as it was
    /\ ~Doing(j, "idle") /\ ~Doing(j, "begin") /\ ~Doing(j, "finish")
    /\ writer' = IF writer = j THEN Nobody ELSE writer
    /\ job' = [job EXCEPT ![j] = Idle]
    /\ UNCHANGED <<table, staging, keys, task>>

\* Any exception on the way: the lock is released, the staging table stays.
Fails(j) ==
    /\ ~Doing(j, "idle") /\ ~Doing(j, "begin") /\ ~Doing(j, "finish")
    /\ writer' = IF writer = j THEN Nobody ELSE writer
    /\ Leave(j, "error")
    /\ UNCHANGED <<table, staging, keys>>

BugKeepsStaging(j) ==   \* CREATE TABLE IF NOT EXISTS, without the DROP
    /\ Doing(j, "wait") /\ writer = Nobody
    /\ writer' = j
    /\ Go(j, "insert")
    /\ UNCHANGED <<table, staging, keys, task>>

\* First part of _replace_source_rows: the lock, and a new staging table.
Lock(j) ==
    /\ Doing(j, "wait") /\ writer = Nobody
    /\ writer' = j
    /\ staging' = {}
    /\ Go(j, "insert")
    /\ UNCHANGED <<table, keys, task>>

\* Second part: a batch, in a transaction of its own.
InsertBatch(j) ==
    LET n == job[j].done + 1
    IN  /\ Doing(j, "insert") /\ job[j].list # EmptyList /\ n <= Batches
        /\ staging' = staging \union {Row(job[j].source, job[j].list, n, job[j].on)}
        /\ job' = [job EXCEPT ![j] = [job[j] EXCEPT !.done = n]]
        /\ UNCHANGED <<table, writer, keys, task>>

AllInserted(j) == job[j].list = EmptyList \/ job[j].done = Batches

BugDeletesAll(j) ==     \* DELETE without its WHERE
    /\ Doing(j, "insert") /\ AllInserted(j)
    /\ table' = staging
    /\ staging' = {}
    /\ writer' = Nobody
    /\ Go(j, "finish")
    /\ UNCHANGED <<keys, task>>

\* Third part: DELETE the source, INSERT ... SELECT of the whole staging
\* table, DROP it, in one transaction; then the lock is released.
Swap(j) ==
    /\ Doing(j, "insert") /\ AllInserted(j)
    /\ table' = (table \ RowsOf(table, job[j].source)) \union staging
    /\ staging' = {}
    /\ writer' = Nobody
    /\ Go(j, "finish")
    /\ UNCHANGED <<keys, task>>

\* After the import: no rows at all is an error for the operator's task.
Finish(j) ==
    /\ Doing(j, "finish")
    /\ Leave(j, IF job[j].list = EmptyList THEN "error" ELSE "done")
    /\ UNCHANGED <<table, staging, writer, keys>>

-----------------------------------------------------------------------------
(* The operator's other means, and crashes.                                *)

\* enable_source.
Switch(s, on) ==
    /\ RowsOf(table, s) # {}
    /\ table' = {IF r.source = s THEN [r EXCEPT !.on = on] ELSE r : r \in table}
    /\ UNCHANGED <<staging, writer, job, keys, task>>

\* delete_source.
Delete(s) ==
    /\ table' = table \ RowsOf(table, s)
    /\ UNCHANGED <<staging, writer, job, keys, task>>

Crash ==
    /\ writer' = Nobody
    /\ job' = [j \in Jobs |-> Idle]
    /\ keys' = {}
    /\ task' = [s \in Sources |-> "idle"]
    /\ UNCHANGED <<table, staging>>

Import(j) ==
    \/ BeginMark(j)
    \/ \E list \in Lists \union {EmptyList} : Download(j, list)
    \/ Fails(j) \/ Lock(j) \/ InsertBatch(j) \/ Swap(j) \/ Finish(j)

Next ==
    \/ \E s \in Sources, on \in BOOLEAN :
          (\E j \in Jobs : BeginCheck(j, s, on)) \/ Switch(s, on)
    \/ AutoRound
    \/ \E s \in Sources : AutoSkip(s) \/ AutoUpdate(s) \/ Delete(s)
    \/ \E j \in Jobs : Import(j)
    \/ Crash

Spec == Init /\ [][Next]_vars

\* Threads run, every download ends (time-outs), and the lock is handed on.
FairSpec == Spec /\ \A j \in Jobs : SF_vars(Lock(j)) /\ WF_vars(Import(j))

-----------------------------------------------------------------------------
(* Properties.                                                             *)

\* What is matched against is always a whole list: whatever jobs, failures
\* and crashes, the rows of a source are all the batches of one download,
\* switched on or off as one, or there are none (lines 447-460).
WholeLists ==
    \A s \in Sources :
        \/ RowsOf(table, s) = {}
        \/ \E list \in Lists, on \in BOOLEAN :
              RowsOf(table, s) = {Row(s, list, n, on) : n \in 1..Batches}

\* A step of an import of one source leaves the rows of the others alone.
OthersUntouched ==
    [][\A s, t \in Sources :
           s # t /\ RowsOf(table, s)' # RowsOf(table, s) => RowsOf(table, t)' = RowsOf(table, t)]_vars

\* The page that shows the progress of an import does not wait for ever.
TasksEnd == \A s \in Sources : task[s] = "running" ~> task[s] # "running"

\* The comments on lines 407-409: a source is not emptied by an import that
\* brings nothing.
ImportsKeepSomething ==
    [][\A j \in Jobs : Swap(j) =>
           (RowsOf(table, job[j].source) # {} => RowsOf(table, job[j].source)' # {})]_vars

\* auto_update_once concerns enabled sources only (line 596): it does not
\* switch on what the operator has switched off.
StaysSwitchedOff ==
    [][Swap(AutoJob) => EnabledSources' \subseteq EnabledSources]_vars

\* begin_import refuses a second import of a source (line 539).
OneManualImport ==
    \A j, k \in ManualJobs :
        /\ job[j].step \notin {"idle", "begin"} /\ job[k].step \notin {"idle", "begin"}
        /\ job[j].source = job[k].source
        => j = k

=============================================================================
