--------------------------- MODULE DetectionPools ---------------------------
(***************************************************************************)
(* The thread pools of a detection (platform/dns_server.py,                *)
(* platform/detectors.py).  A query runs on a thread of the default        *)
(* executor of the event loop; it asks every source about the domain on    *)
(* the threads of the leaf pool, has every address of the answer checked   *)
(* on the threads of the address pool, and each of these checks asks every *)
(* source on the leaf pool again.  Whoever asks keeps its thread until all *)
(* answers are there.  The pools are finite and their queues are not: what *)
(* keeps the whole from stopping is that a pool waits for the pools below  *)
(* it only (the comment on lines 53-58 of detectors.py).                   *)
(***************************************************************************)
EXTENDS Naturals, Sequences, FiniteSets

CONSTANTS
    Queries,        \* queries that clients repeat
    Sources,        \* enabled adapters
    Ips,            \* addresses an answer may hold
    QueryWorkers, IpWorkers, LeafWorkers        \* threads of each pool

ASSUME PoolsAssumption == {QueryWorkers, IpWorkers, LeafWorkers} \subseteq Nat \ {0}

Pools == {"query", "ip", "leaf"}
PoolThreads == [query |-> QueryWorkers, ip |-> IpWorkers, leaf |-> LeafWorkers]

QueryTasks == {<<"query", q>> : q \in Queries}
IpTasks == {<<"ip", t, i>> : t \in QueryTasks, i \in Ips}
Callers == QueryTasks \union IpTasks
LeafTasks == {<<"leaf", t, s>> : t \in Callers, s \in Sources}
Tasks == Callers \union LeafTasks

VARIABLES
    stage,          \* what each query and each check is doing
    todo,           \* tasks of its map() call that are not yet submitted
    open,           \* tasks it has submitted and that are not done
    taskQueues,     \* queue of each pool
    threads         \* tasks that have a thread of each pool

poolVars == <<stage, todo, open, taskQueues, threads>>

PoolTypeOK ==
    /\ stage \in [Callers -> {"idle", "queued", "domain", "ips", "check"}]
    /\ todo \in [Callers -> SUBSET Tasks]
    /\ open \in [Callers -> SUBSET Tasks]
    /\ DOMAIN taskQueues = Pools /\ \A p \in Pools : taskQueues[p] \in Seq(Tasks)
    /\ threads \in [Pools -> SUBSET Tasks]

PoolInit ==
    /\ stage = [t \in Callers |-> "idle"]
    /\ todo = [t \in Callers |-> {}]
    /\ open = [t \in Callers |-> {}]
    /\ taskQueues = [p \in Pools |-> <<>>]
    /\ threads = [p \in Pools |-> {}]

BugOnePool(t) == IF t[1] = "ip" THEN "leaf" ELSE t[1]

PoolOf(t) == t[1]
Parent(t) == t[2]
Answered(t) == todo[t] = {} /\ open[t] = {}
HasThread(t) == t \in threads[PoolOf(t)]

Enqueue(t) == taskQueues' = [taskQueues EXCEPT ![PoolOf(t)] = Append(@, t)]
Calls(t, tasks, next) ==
    /\ todo' = [todo EXCEPT ![t] = tasks]
    /\ stage' = [stage EXCEPT ![t] = next]

\* The event loop gives a query to the executor.
Arrive(t) ==
    /\ stage[t] = "idle"
    /\ stage' = [stage EXCEPT ![t] = "queued"]
    /\ Enqueue(t)
    /\ UNCHANGED <<todo, open, threads>>

CanTake(p) == taskQueues[p] # <<>> /\ Cardinality(threads[p]) < PoolThreads[p]

BugTakesNewest(p) ==
    /\ CanTake(p)
    /\ taskQueues' = [taskQueues EXCEPT ![p] = SubSeq(@, 1, Len(@) - 1)]
    /\ threads' = [threads EXCEPT ![p] = @ \union {taskQueues[p][Len(taskQueues[p])]}]
    /\ UNCHANGED <<stage, todo, open>>

\* A free thread takes the oldest task of its pool.
TakeTask(p) ==
    /\ CanTake(p)
    /\ taskQueues' = [taskQueues EXCEPT ![p] = Tail(@)]
    /\ threads' = [threads EXCEPT ![p] = @ \union {Head(taskQueues[p])}]
    /\ UNCHANGED <<stage, todo, open>>

\* query_threatintel_domain, on a thread of the executor: the sources that
\* are asked (none if the verdict is cached or the window is open).
AskDomain(t, sources) ==
    /\ HasThread(t) /\ stage[t] = "queued"
    /\ Calls(t, {<<"leaf", t, s>> : s \in sources}, "domain")
    /\ UNCHANGED <<open, taskQueues, threads>>

\* ip_postfilter, when the domain is let through.
CheckIps(t, ips) ==
    /\ HasThread(t) /\ stage[t] = "domain" /\ Answered(t)
    /\ Calls(t, {<<"ip", t, i>> : i \in ips}, "ips")
    /\ UNCHANGED <<open, taskQueues, threads>>

\* query_threatintel_ip, on a thread of the address pool.
AskIp(t, sources) ==
    /\ HasThread(t) /\ stage[t] = "queued"
    /\ Calls(t, {<<"leaf", t, s>> : s \in sources}, "check")
    /\ UNCHANGED <<open, taskQueues, threads>>

\* map() submits its tasks one by one.
Submit(t, c) ==
    /\ c \in todo[t]
    /\ todo' = [todo EXCEPT ![t] = @ \ {c}]
    /\ open' = [open EXCEPT ![t] = @ \union {c}]
    /\ stage' = IF c \in Callers THEN [stage EXCEPT ![c] = "queued"] ELSE stage
    /\ Enqueue(c)
    /\ UNCHANGED threads

Leave(t) == threads' = [threads EXCEPT ![PoolOf(t)] = @ \ {t}]

\* A query is answered (after the domain, when it is blocked), or a check
\* gives its verdict.
Return(t) ==
    /\ HasThread(t)
    /\ stage[t] \in {"domain", "ips", "check"} /\ Answered(t)
    /\ Leave(t)
    /\ stage' = [stage EXCEPT ![t] = "idle"]
    /\ open' = IF t \in IpTasks THEN [open EXCEPT ![Parent(t)] = @ \ {t}] ELSE open
    /\ UNCHANGED <<todo, taskQueues>>

\* A source answers, or its time-out passes.
Answer(c) ==
    /\ HasThread(c)
    /\ Leave(c)
    /\ open' = [open EXCEPT ![Parent(c)] = @ \ {c}]
    /\ UNCHANGED <<stage, todo, taskQueues>>

Run(t) ==
    \/ \E sources \in SUBSET Sources :
          \/ t \in QueryTasks /\ AskDomain(t, sources)
          \/ t \in IpTasks /\ AskIp(t, sources)
    \/ t \in QueryTasks /\ \E ips \in SUBSET Ips : CheckIps(t, ips)
    \/ \E c \in todo[t] : Submit(t, c)
    \/ Return(t)

PoolNext ==
    \/ \E t \in QueryTasks : Arrive(t)
    \/ \E p \in Pools : TakeTask(p)
    \/ \E t \in Callers : Run(t)
    \/ \E c \in LeafTasks : Answer(c)

PoolSpec == PoolInit /\ [][PoolNext]_poolVars

\* Threads run, and every question to a source ends (api_timeout_ms).
PoolFairSpec ==
    /\ PoolSpec
    /\ \A p \in Pools : WF_poolVars(TakeTask(p))
    /\ \A t \in Callers : WF_poolVars(Run(t))
    /\ \A c \in LeafTasks : WF_poolVars(Answer(c))

-----------------------------------------------------------------------------
(* Properties.                                                             *)

\* No set of threads waits for each other: as long as a query is unanswered
\* a source is being asked, or a free thread has a task to take, or somebody
\* has all it waits for (lines 53-58 of detectors.py).
NotStuck ==
    (\E t \in QueryTasks : stage[t] # "idle") =>
        \/ \E c \in LeafTasks : HasThread(c)
        \/ \E p \in Pools : CanTake(p)
        \/ \E t \in Callers : HasThread(t) /\ (todo[t] # {} \/ open[t] = {})

\* Every query is answered, however many others there are.
DetectionsEnd == \A t \in QueryTasks : stage[t] # "idle" ~> stage[t] = "idle"

=============================================================================
