---------------------------- MODULE RecordQueue ----------------------------
(***************************************************************************)
(* The two recorders of the DNS process that write behind a queue: rows of *)
(* the filter log (platform/log_writer.py) and domains that are seen for   *)
(* the first time (platform/ai_collector.py).  The second copies the first *)
(* and puts a set of known domains before the queue, so that one module    *)
(* serves both; kind says which of them a behaviour is about.  Threads of  *)
(* the detection record; a thread moves what is queued to a table in       *)
(* batches; the exit handler does the same once more.                      *)
(*                                                                         *)
(* A row is a name and a number: the n-th record of that name.  What the   *)
(* rows say, and the counters that only grow, are left out.  accepted and  *)
(* lost are not in the program.                                            *)
(***************************************************************************)
EXTENDS Naturals, SequencesExt

CONSTANTS
    Workers,        \* threads of the detection
    Names,          \* queries (log) or domains (seen)
    MaxRecords,     \* bound: how often a name is recorded
    QueueSize,      \* maxsize of _QUEUE
    BatchSize,      \* log_batch_size, _BATCH_SIZE
    SeenMax,        \* _SEEN_MAX
    Faults          \* "write": a transaction fails; "exit": one of the exit
                    \* handler does; "join": it waits no longer for the thread

ASSUME RecorderAssumption == MaxRecords \in Nat /\ QueueSize \in Nat /\ BatchSize \in Nat \ {0}

Flushing == "flusher"       \* the thread of _flush_loop
Exiting == "exit"           \* stop, called by atexit or on_shutdown
Takers == {Flushing, Exiting}
NoName == "none"
ASSUME NoNameAssumption == NoName \notin Names
Rows == Names \X (1..MaxRecords)

VARIABLES
    kind,           \* "log" or "seen"
    async,          \* CONFIG.log_async_enabled
    queue,          \* _QUEUE
    seen,           \* _SEEN
    putting,        \* the name a worker has entered in _SEEN and not yet queued
    step,           \* where each taker is
    hand,           \* the rows each taker has taken
    stop,           \* _STOP
    stored,         \* how often the table holds each row; kept by restarts
    records,        \* how often each name has been recorded
    accepted,       \* rows that the queue took
    lost            \* rows that went with a failed write or a killed process

recordVars == <<kind, async, queue, seen, putting, step, hand, stop, stored,
                records, accepted, lost>>

RecorderInit ==
    /\ kind \in {"log", "seen"} /\ async \in BOOLEAN
    /\ kind = "seen" => async
    /\ queue = <<>> /\ seen = {}
    /\ putting = [w \in Workers |-> NoName]
    /\ step = [t \in Takers |-> IF t = Flushing THEN "wait" ELSE "idle"]
    /\ hand = [t \in Takers |-> <<>>]
    /\ stop = FALSE
    /\ stored = [r \in Rows |-> 0]
    /\ records = [n \in Names |-> 0]
    /\ accepted = {} /\ lost = {}

-----------------------------------------------------------------------------
(* The tables.                                                             *)

Kept(table) == {r \in Rows : table[r] > 0}
NamesOf(table) == {r[1] : r \in Kept(table)}

BugInsertReplaces(table, rows) ==   \* INSERT OR REPLACE
    LET ofName(r) == {i \in DOMAIN rows : rows[i][1] = r[1]}
        isLast(r) == \E i \in ofName(r) : rows[i] = r /\ \A j \in ofName(r) : j <= i
    IN  [r \in Rows |-> IF kind = "log" THEN table[r] + Cardinality({i \in DOMAIN rows : rows[i] = r})
                        ELSE IF ofName(r) = {} THEN table[r] ELSE IF isLast(r) THEN 1 ELSE 0]

\* The rows of a batch that the statement of its kind takes: a domain that has
\* a row keeps it.
Taken(table, rows) ==
    {i \in DOMAIN rows :
        kind = "seen" => /\ rows[i][1] \notin NamesOf(table)
                         /\ \A j \in DOMAIN rows : rows[j][1] = rows[i][1] => i <= j}

Insert(table, rows) ==
    [r \in Rows |-> table[r] + Cardinality({i \in Taken(table, rows) : rows[i] = r})]

-----------------------------------------------------------------------------
(* Recording.                                                              *)

\* The workers are there until the exit handlers run: the executor's threads
\* are joined before.
Serving == step[Exiting] = "idle"

NewRow(n) == <<n, records[n] + 1>>
CanRecord(n) == Serving /\ records[n] < MaxRecords
Numbered(n) == records' = [records EXCEPT ![n] = @ + 1]

\* put_nowait: a row that finds the queue full is dropped.
Offer(n) ==
    /\ Numbered(n)
    /\ IF Len(queue) < QueueSize
       THEN queue' = Append(queue, NewRow(n)) /\ accepted' = accepted \union {NewRow(n)}
       ELSE UNCHANGED <<queue, accepted>>

\* log_writer.enqueue with the queue.
Enqueue(n) ==
    /\ kind = "log" /\ async
    /\ CanRecord(n)
    /\ Offer(n)
    /\ UNCHANGED <<kind, async, seen, putting, step, hand, stop, stored, lost>>

\* log_writer.enqueue without: the row has a transaction of its own, and an
\* error of it is the query's.
WriteDirect(n, ok) ==
    /\ kind = "log" /\ ~async
    /\ CanRecord(n)
    /\ ok \/ "write" \in Faults
    /\ Numbered(n)
    /\ stored' = IF ok THEN Insert(stored, <<NewRow(n)>>) ELSE stored
    /\ UNCHANGED <<kind, async, queue, seen, putting, step, hand, stop, accepted, lost>>

\* record_domain_seen: the set is asked and filled under its lock, ...
Notice(w, n) ==
    /\ kind = "seen" /\ putting[w] = NoName
    /\ CanRecord(n) /\ n \notin seen
    /\ seen' = IF Cardinality(seen) + 1 > SeenMax THEN {n} ELSE seen \union {n}
    /\ putting' = [putting EXCEPT ![w] = n]
    /\ UNCHANGED <<kind, async, queue, step, hand, stop, stored, records, accepted, lost>>

\* ... and the queue after that.
Put(w) ==
    /\ putting[w] # NoName
    /\ records[putting[w]] < MaxRecords
    /\ Offer(putting[w])
    /\ putting' = [putting EXCEPT ![w] = NoName]
    /\ UNCHANGED <<kind, async, seen, step, hand, stop, stored, lost>>

\* The switch of the queue is changed at run time.
SwitchAsync ==
    /\ kind = "log" /\ Serving
    /\ async' = ~async
    /\ UNCHANGED <<kind, queue, seen, putting, step, hand, stop, stored, records,
                   accepted, lost>>

-----------------------------------------------------------------------------
(* Flushing.                                                               *)

\* A transaction ends well or, where Faults has it, does not.
Outcome(t, ok) == ok \/ (IF t = Exiting THEN "exit" ELSE "write") \in Faults

\* Where a taker goes when _flush_once has returned or raised.
After(t) == IF t = Exiting THEN "ended" ELSE IF stop THEN "gone" ELSE "wait"

\* The interval is over, or _STOP is set.
Wake ==
    /\ step[Flushing] = "wait"
    /\ step' = [step EXCEPT ![Flushing] = "take"]
    /\ UNCHANGED <<kind, async, queue, seen, putting, hand, stop, stored, records,
                   accepted, lost>>

Take(t) ==
    /\ step[t] = "take" /\ Len(hand[t]) < BatchSize /\ queue # <<>>
    /\ hand' = [hand EXCEPT ![t] = Append(@, Head(queue))]
    /\ queue' = Tail(queue)
    /\ UNCHANGED <<kind, async, seen, putting, step, stop, stored, records, accepted, lost>>

\* The batch is full or the queue is empty; without rows the round is over.
EndTake(t) ==
    /\ step[t] = "take" /\ (Len(hand[t]) = BatchSize \/ queue = <<>>)
    /\ step' = [step EXCEPT ![t] = IF hand[t] = <<>> THEN After(t) ELSE "write"]
    /\ UNCHANGED <<kind, async, queue, seen, putting, hand, stop, stored, records,
                   accepted, lost>>

BugWriteKeepsBatch(t, ok) ==    \* rows is made empty once, before the loop
    /\ step[t] = "write" /\ Outcome(t, ok)
    /\ stored' = IF ok THEN Insert(stored, hand[t]) ELSE stored
    /\ lost' = IF ok THEN lost ELSE lost \union ToSet(hand[t])
    /\ hand' = [hand EXCEPT ![t] = IF ok /\ queue # <<>> THEN @ ELSE <<>>]
    /\ step' = [step EXCEPT ![t] = IF ok THEN "take" ELSE After(t)]
    /\ UNCHANGED <<kind, async, queue, seen, putting, stop, records, accepted>>

BugWriteEndsThread(t, ok) ==    \* the exception is not caught in the loop
    /\ step[t] = "write" /\ Outcome(t, ok)
    /\ stored' = IF ok THEN Insert(stored, hand[t]) ELSE stored
    /\ lost' = IF ok THEN lost ELSE lost \union ToSet(hand[t])
    /\ hand' = [hand EXCEPT ![t] = <<>>]
    /\ step' = [step EXCEPT ![t] = IF ok THEN "take" ELSE IF t = Exiting THEN "ended" ELSE "gone"]
    /\ UNCHANGED <<kind, async, queue, seen, putting, stop, records, accepted>>

\* One transaction for the batch.  One that fails is lost, and ends the round.
Write(t, ok) ==
    /\ step[t] = "write" /\ Outcome(t, ok)
    /\ stored' = IF ok THEN Insert(stored, hand[t]) ELSE stored
    /\ lost' = IF ok THEN lost ELSE lost \union ToSet(hand[t])
    /\ hand' = [hand EXCEPT ![t] = <<>>]
    /\ step' = [step EXCEPT ![t] = IF ok THEN "take" ELSE After(t)]
    /\ UNCHANGED <<kind, async, queue, seen, putting, stop, records, accepted>>

-----------------------------------------------------------------------------
(* The end of the process.                                                 *)

BugNoFinalFlush ==      \* stop(flush=False)
    /\ Serving /\ \A w \in Workers : putting[w] = NoName
    /\ stop' = TRUE
    /\ step' = [step EXCEPT ![Exiting] = "ended"]
    /\ UNCHANGED <<kind, async, queue, seen, putting, hand, stored, records, accepted, lost>>

\* stop(flush=True) asks the thread to end ...
Stop ==
    /\ Serving /\ \A w \in Workers : putting[w] = NoName
    /\ stop' = TRUE
    /\ step' = [step EXCEPT ![Exiting] = "join"]
    /\ UNCHANGED <<kind, async, queue, seen, putting, hand, stored, records, accepted, lost>>

\* ... waits for it, up to 10 s, and flushes what is left.
Join ==
    /\ step[Exiting] = "join"
    /\ step[Flushing] = "gone" \/ "join" \in Faults
    /\ step' = [step EXCEPT ![Exiting] = "take"]
    /\ UNCHANGED <<kind, async, queue, seen, putting, hand, stop, stored, records,
                   accepted, lost>>

\* What is in memory goes with the process; start sets the thread up again.
Restart ==
    /\ lost' = lost \union ToSet(queue) \union UNION {ToSet(hand[t]) : t \in Takers}
    /\ queue' = <<>> /\ seen' = {}
    /\ putting' = [w \in Workers |-> NoName]
    /\ step' = [t \in Takers |-> IF t = Flushing THEN "wait" ELSE "idle"]
    /\ hand' = [t \in Takers |-> <<>>]
    /\ stop' = FALSE
    /\ UNCHANGED <<kind, async, stored, records, accepted>>

\* A signal or a crash, at any point: nothing is handled.
Kill == Restart

FlushRound(t) == Take(t) \/ EndTake(t) \/ \E ok \in BOOLEAN : Write(t, ok)

RecorderNext ==
    \/ \E n \in Names : Enqueue(n) \/ \E ok \in BOOLEAN : WriteDirect(n, ok)
    \/ \E w \in Workers : Put(w) \/ \E n \in Names : Notice(w, n)
    \/ SwitchAsync
    \/ Wake
    \/ \E t \in Takers : FlushRound(t)
    \/ Stop \/ Join
    \/ Kill

RecorderSpec == RecorderInit /\ [][RecorderNext]_recordVars

\* The thread and the exit handler go on; a transaction ends.
RecorderFairSpec ==
    /\ RecorderSpec
    /\ WF_recordVars(Wake) /\ WF_recordVars(Join)
    /\ \A t \in Takers : WF_recordVars(FlushRound(t))

-----------------------------------------------------------------------------
(* Properties.                                                             *)

InHand == UNION {ToSet(hand[t]) : t \in Takers}
Held == ToSet(queue) \union InHand

RecorderTypeOK ==
    /\ kind \in {"log", "seen"} /\ async \in BOOLEAN /\ stop \in BOOLEAN
    /\ queue \in Seq(Rows) /\ Len(queue) <= QueueSize
    /\ seen \subseteq Names
    /\ putting \in [Workers -> Names \union {NoName}]
    /\ step \in [Takers -> {"idle", "wait", "take", "write", "gone", "join", "ended"}]
    /\ hand \in [Takers -> Seq(Rows)]
    /\ stored \in [Rows -> Nat]
    /\ records \in [Names -> 0..MaxRecords]
    /\ accepted \subseteq Rows /\ lost \subseteq accepted

\* A row that the queue took is stored once, whatever fails and whoever takes
\* it: it is queued, in a hand, stored or lost, and never in two of these
\* places.  A domain that has a row already counts as stored.
StoredOnce ==
    /\ \A r \in Rows : stored[r] <= 1
    /\ IsInjective(queue \o hand[Flushing] \o hand[Exiting])
    /\ Held \cap (lost \union Kept(stored)) = {}
    /\ \A r \in accepted \ (Held \union lost) :
        IF kind = "log" THEN r \in Kept(stored) ELSE r[1] \in NamesOf(stored)

\* An orderly end leaves nothing behind in memory (log_writer.py:15).
ExitStoresAll ==
    step[Exiting] = "ended" => queue = <<>> /\ InHand = {}

\* The row of a domain is that of its first sight: of the records before it
\* none was kept (ai_collector.py:14).
FirstSightKept ==
    kind = "seen" =>
        \A s \in Kept(stored), r \in accepted : r[1] = s[1] /\ r[2] < s[2] => r \in lost

\* When no more is recorded (records are bounded) the queue is emptied: the
\* thread lives on when a batch fails (log_writer.py:121).
QueueDrains == []<>(queue = <<>>)

=============================================================================
