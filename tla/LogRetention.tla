---------------------------- MODULE LogRetention ---------------------------
(***************************************************************************)
(* The removal of old rows from the two logs (platform/log_retention.py).  *)
(* Each process has a thread that makes a pass every six hours: it fixes a *)
(* cutoff, and takes one table after the other, deleting batches until one *)
(* is not full.  Rows keep coming, the retention may be set anew, and a    *)
(* statement may fail, which ends the pass over its table.                 *)
(*                                                                         *)
(* A row is the day of its time stamp, and a number to tell it from the    *)
(* others of that day.                                                     *)
(***************************************************************************)
EXTENDS Integers, Sequences, FiniteSetsExt

CONSTANTS
    Purgers,        \* the thread of each process
    Settings,       \* values of log_retention_days
    MaxDays,        \* the largest retention, 3650
    MaxRows,        \* bound on the rows of a day
    PurgeBatch,     \* BATCH_SIZE
    LastDay,        \* bound on the calendar
    FailingTables   \* tables whose statements may fail

Tables == <<"filter_log", "audit_log">>     \* _TABLES, in their order
Done == Len(Tables) + 1
LogRows == (0..LastDay) \X (1..MaxRows)

VARIABLES
    clock,          \* the day
    retention,      \* CONFIG.log_retention_days
    logs,           \* rows of each table
    pass,           \* the table each purger is at: its index, or Done
    cutoff          \* rows of earlier days are deleted

retentionVars == <<clock, retention, logs, pass, cutoff>>

PurgeInit ==
    /\ clock = 0
    /\ retention \in Settings
    /\ logs = [t \in DOMAIN Tables |-> {}]
    /\ pass = [p \in Purgers |-> Done]
    /\ cutoff = [p \in Purgers |-> 0]

-----------------------------------------------------------------------------

\* _retention_days: from 1 to 3650.
RetentionDays == Max({1, Min({retention, MaxDays})})

Expired(t, limit) == {r \in logs[t] : r[1] < limit}

\* purge_once begins: the setting and the time are read once.
Begin(p) ==
    /\ pass[p] = Done
    /\ pass' = [pass EXCEPT ![p] = 1]
    /\ cutoff' = [cutoff EXCEPT ![p] = IF clock > RetentionDays THEN clock - RetentionDays ELSE 0]
    /\ UNCHANGED <<clock, retention, logs>>

\* The rows one DELETE takes: as many of the expired as a batch has place for.
Batches(t, limit) ==
    kSubset(Min({PurgeBatch, Cardinality(Expired(t, limit))}), Expired(t, limit))

\* The table is done with a batch that is not full.
DeleteBatch(p) ==
    LET t == pass[p]
        full == Cardinality(Expired(t, cutoff[p])) >= PurgeBatch
    IN
    /\ pass[p] # Done
    /\ \E batch \in Batches(t, cutoff[p]) : logs' = [logs EXCEPT ![t] = @ \ batch]
    /\ pass' = [pass EXCEPT ![p] = IF full THEN t ELSE t + 1]
    /\ UNCHANGED <<clock, retention, cutoff>>

BugErrorEndsPass(p) ==      \* the exception leaves the loop over the tables
    /\ pass[p] # Done /\ Tables[pass[p]] \in FailingTables
    /\ pass' = [pass EXCEPT ![p] = Done]
    /\ UNCHANGED <<clock, retention, logs, cutoff>>

\* An error is logged, and the next table is next.
FailBatch(p) ==
    /\ pass[p] # Done /\ Tables[pass[p]] \in FailingTables
    /\ pass' = [pass EXCEPT ![p] = @ + 1]
    /\ UNCHANGED <<clock, retention, logs, cutoff>>

\* The writers of the logs.
Log(t) ==
    /\ \E r \in LogRows \ logs[t] : r[1] = clock /\ logs' = [logs EXCEPT ![t] = @ \union {r}]
    /\ UNCHANGED <<clock, retention, pass, cutoff>>

SetRetention ==
    /\ retention' \in Settings
    /\ UNCHANGED <<clock, logs, pass, cutoff>>

NextDay ==
    /\ clock < LastDay
    /\ clock' = clock + 1
    /\ UNCHANGED <<retention, logs, pass, cutoff>>

PurgeNext ==
    \/ \E p \in Purgers : Begin(p) \/ DeleteBatch(p) \/ FailBatch(p)
    \/ \E t \in DOMAIN Tables : Log(t)
    \/ SetRetention \/ NextDay

PurgeSpec == PurgeInit /\ [][PurgeNext]_retentionVars

\* The rounds go on, and so does a pass.
PurgeFairSpec ==
    /\ PurgeSpec
    /\ \A p \in Purgers :
        /\ WF_retentionVars(Begin(p))
        /\ WF_retentionVars(DeleteBatch(p) \/ FailBatch(p))

-----------------------------------------------------------------------------
(* Properties.                                                             *)

\* An error of one table does not keep the rows of another: again and again
\* none of them is older than any retention (log_retention.py:74).
ExpiredGo ==
    \A t \in {i \in DOMAIN Tables : Tables[i] \notin FailingTables} :
        []<>(\A r \in logs[t] : clock - r[1] <= MaxDays)

=============================================================================
