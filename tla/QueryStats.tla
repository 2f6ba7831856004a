----------------------------- MODULE QueryStats -----------------------------
(***************************************************************************)
(* The count of the queries of a day (platform/query_stats.py).  Threads   *)
(* of the detection count in memory; a thread writes the count to the row  *)
(* of the day every few seconds; whoever finds that a new day has begun    *)
(* writes the old day, and starts from the row of the new one.  All under  *)
(* _LOCK.  The process may stop between any two statements, and any        *)
(* statement of the database may fail.                                     *)
(*                                                                         *)
(* The total and its three parts are written and read together: one count  *)
(* stands for them.  kept, since and failed are not in the program: they   *)
(* say what a row should hold and how the last round went.                 *)
(***************************************************************************)
EXTENDS Naturals

CONSTANTS
    Recorders,      \* threads that call record
    Flusher,        \* the thread of _loop
    Days,           \* number of days
    MaxQueries,     \* bound on the queries of a day
    Failures        \* statements that may fail: "read", "write" in the rounds
                    \* of the flusher, "turn" is the write when the day turns

ASSUME ThreadsAssumption == Flusher \notin Recorders
ASSUME DaysAssumption == Days \in Nat \ {0} /\ MaxQueries \in Nat
ASSUME FailuresAssumption == Failures \subseteq {"read", "write", "turn"}

Threads == Recorders \union {Flusher}
Nobody == "nobody"
None == 0
ASSUME NobodyAssumption == Nobody \notin Threads

VARIABLES
    today,          \* the calendar
    date, count,    \* _LOCAL; the date is None before the first load
    row,            \* dns_query_stats, a missing row is 0; kept by crashes
    holder,         \* the thread that holds _LOCK
    at, day,        \* its step, and the day its _ensure_loaded has seen
    kept,           \* queries counted on each day, without those lost in a crash
    since,          \* queries counted since the row was last written
    failed          \* the last round of this process could not write

vars == <<today, date, count, row, holder, at, day, kept, since, failed>>

TypeOK ==
    /\ today \in 1..Days
    /\ date \in 0..Days /\ count \in Nat
    /\ row \in [1..Days -> Nat]
    /\ holder \in Threads \union {Nobody}
    /\ at \in {"out", "old", "load", "work"}
    /\ day \in 1..Days
    /\ kept \in [1..Days -> Nat] /\ since \in Nat
    /\ failed \in BOOLEAN

Init ==
    /\ today = 1 /\ day = 1
    /\ date = None /\ count = 0
    /\ row = [d \in 1..Days |-> 0]
    /\ holder = Nobody /\ at = "out"
    /\ kept = [d \in 1..Days |-> 0] /\ since = 0
    /\ failed = FALSE

Release == holder' = Nobody /\ at' = "out"

-----------------------------------------------------------------------------

\* record and flush_once take the lock; _ensure_loaded looks at the date.
Enter(t) ==
    /\ holder = Nobody
    /\ t \in Recorders => kept[today] < MaxQueries
    /\ holder' = t
    /\ day' = today
    /\ at' = IF date = today THEN "work" ELSE IF date = None THEN "load" ELSE "old"
    /\ UNCHANGED <<today, date, count, row, kept, since, failed>>

BugOldUnderNewDate(ok) ==   \* the old count goes to the row of the new day
    /\ at = "old" /\ (ok \/ "turn" \in Failures)
    /\ at' = "load"
    /\ row' = IF ok THEN [row EXCEPT ![day] = count] ELSE row
    /\ since' = IF ok THEN 0 ELSE since
    /\ UNCHANGED <<today, date, count, holder, day, kept, failed>>

\* A day has turned: the count goes to the row of its day, if it can.
FlushOld(ok) ==
    /\ at = "old" /\ (ok \/ "turn" \in Failures)
    /\ at' = "load"
    /\ row' = IF ok THEN [row EXCEPT ![date] = count] ELSE row
    /\ since' = IF ok THEN 0 ELSE since
    /\ UNCHANGED <<today, date, count, holder, day, kept, failed>>

BugStartsAtZero(ok) ==      \* a restart forgets what the row holds
    /\ at = "load" /\ (ok \/ "read" \in Failures)
    /\ at' = "work"
    /\ date' = day
    /\ count' = 0
    /\ since' = 0
    /\ UNCHANGED <<today, row, holder, day, kept, failed>>

\* The count starts from the row of the day, or from 0 if it is not there or
\* cannot be read.
Load(ok) ==
    /\ at = "load" /\ (ok \/ "read" \in Failures)
    /\ at' = "work"
    /\ date' = day
    /\ count' = IF ok THEN row[day] ELSE 0
    /\ since' = 0
    /\ UNCHANGED <<today, row, holder, day, kept, failed>>

Record ==
    /\ at = "work" /\ holder \in Recorders
    /\ count' = count + 1
    /\ kept' = [kept EXCEPT ![date] = @ + 1]
    /\ since' = since + 1
    /\ Release
    /\ UNCHANGED <<today, date, row, day, failed>>

BugWritesOnce(ok) ==        \* ON CONFLICT DO NOTHING: a row that is there stays
    /\ at = "work" /\ holder = Flusher /\ (ok \/ "write" \in Failures)
    /\ LET inserted == ok /\ row[date] = 0
       IN  /\ row' = IF inserted THEN [row EXCEPT ![date] = count] ELSE row
           /\ since' = IF inserted THEN 0 ELSE since
    /\ failed' = ~ok
    /\ Release
    /\ UNCHANGED <<today, date, count, day, kept>>

\* flush_once of a round: the row of the day is replaced.
Flush(ok) ==
    /\ at = "work" /\ holder = Flusher /\ (ok \/ "write" \in Failures)
    /\ row' = IF ok THEN [row EXCEPT ![date] = count] ELSE row
    /\ since' = IF ok THEN 0 ELSE since
    /\ failed' = ~ok
    /\ Release
    /\ UNCHANGED <<today, date, count, day, kept>>

Midnight ==
    /\ today < Days
    /\ today' = today + 1
    /\ UNCHANGED <<date, count, row, holder, at, day, kept, since, failed>>

\* The process stops, at any point, and starts again.
Crash ==
    /\ date' = None /\ count' = 0
    /\ Release
    /\ kept' = IF date = None THEN kept ELSE [kept EXCEPT ![date] = @ - since]
    /\ since' = 0 /\ failed' = FALSE
    /\ UNCHANGED <<today, row, day>>

Inside == \E ok \in BOOLEAN : FlushOld(ok) \/ Load(ok) \/ Flush(ok)

Next ==
    \/ \E t \in Threads : Enter(t)
    \/ Inside \/ Record
    \/ Midnight \/ Crash

Spec == Init /\ [][Next]_vars

\* Whoever holds the lock goes on, and the flusher gets the lock in time.
FairSpec ==
    /\ Spec
    /\ WF_vars(Inside) /\ WF_vars(Record)
    /\ SF_vars(Enter(Flusher))

-----------------------------------------------------------------------------
(* Properties.                                                             *)

\* A crash costs what was counted since the last round and nothing else, and
\* the row of a past day is complete (lines 16 and 57).
NothingElseLost ==
    \A d \in 1..Days : row[d] + (IF d = date THEN since ELSE 0) = kept[d]

\* What the page of a day shows does not fall again, whatever restarts.
RowsGrow == [][\A d \in 1..Days : row'[d] >= row[d]]_vars

\* The page catches up with what has been counted (line 16: within 5 s), if
\* from some time on the rounds can write.  A round that finds nothing new
\* writes too.
WritesRecover == <>[]~failed

RowsCatchUp == WritesRecover => (since > 0 ~> since = 0)

\* Line 109: the flush that fails is tried again, and nothing is lost.  The
\* row of a day that is over holds all that was counted on it.
OldDaysComplete == \A d \in 1..Days : d # date /\ date # None => row[d] = kept[d]

=============================================================================
