---------------------------- MODULE ServiceProofs ----------------------------
(***************************************************************************)
(* For any number of clients, threads, sources and addresses and any       *)
(* limits.                                                                 *)
(*                                                                         *)
(* DnsQueue: the counters of the queue are the numbers of queries that they*)
(* stand for, and the limit is kept.  A counter is changed where one query *)
(* enters or leaves what it counts; that the query was counted, so that    *)
(* CountDown never stops at 0, is what the sets in CountersAgree say.      *)
(*                                                                         *)
(* DetectionPools: the threads of the pools never wait for each other in a *)
(* circle.                                                                 *)
(***************************************************************************)
EXTENDS DnsQueue, DetectionPools, FiniteSetTheorems, SequenceTheorems, TLAPS

Detected == {c \in Datagrams : Is(c, "detect")}

Typed ==
    /\ at \in [Clients -> Places]
    /\ cap \in Caps
    /\ pending \in Nat /\ inflight \in Nat /\ max_pending \in Nat

IInv == Typed /\ CountersAgree

-----------------------------------------------------------------------------
\* A set that gains or loses one query.
LEMMA Counts ==
    ASSUME NEW S, NEW x, IsFiniteSet(S)
    PROVE  /\ Cardinality(S) \in Nat
           /\ x \notin S => Cardinality(S \union {x}) = Cardinality(S) + 1
           /\ x \in S => Cardinality(S \ {x}) = CountDown(Cardinality(S))
<1>1. Cardinality(S) \in Nat
  BY FS_CardinalityType
<1>2. x \notin S => Cardinality(S \union {x}) = Cardinality(S) + 1
  BY FS_AddElement
<1>3. ASSUME x \in S PROVE Cardinality(S \ {x}) = CountDown(Cardinality(S))
  <2>1. Cardinality(S \ {x}) = Cardinality(S) - 1
    BY <1>3, FS_RemoveElement
  <2>2. Cardinality(S \ {x}) \in Nat
    BY FS_RemoveElement, FS_CardinalityType
  <2> QED
    BY <1>1, <2>1, <2>2 DEF CountDown
<1> QED
  BY <1>1, <1>2, <1>3

LEMMA FiniteCounts == IsFiniteSet(Counted) /\ IsFiniteSet(Detected)
<1>1. IsFiniteSet(Clients)
  BY ClientsAssumption, FS_Union DEF Clients
<1>2. Counted \in SUBSET Clients /\ Detected \in SUBSET Clients
  BY DEF Counted, Detected, Clients
<1> QED
  BY <1>1, <1>2, FS_Subset

LEMMA QueueInit == Init => IInv
<1> SUFFICES ASSUME Init PROVE IInv
  OBVIOUS
<1>1. Typed
  BY DEF Init, Typed, Places
<1>2. Counted = {} /\ Detected = {}
  BY DEF Init, Counted, Detected, Is, Clients
<1> QED
  BY <1>1, <1>2, FS_EmptySet DEF Init, IInv, CountersAgree, Detected

-----------------------------------------------------------------------------
\* A step that moves one query between places that are counted alike.
LEMMA Uncounted ==
    ASSUME IInv, NEW c \in Clients, NEW p \in Places, Go(c, p),
           p \in {"process", "detect", "done", "raised"} <=> c \in Counted,
           p # "detect", ~Is(c, "detect"),
           UNCHANGED counters, cap' \in Caps
    PROVE  IInv'
<1>1. at \in [Clients -> Places]
  BY DEF IInv, Typed
<1>2. Counted' = Counted
  BY <1>1 DEF Counted, Go
<1>3. Detected' = Detected
  BY <1>1 DEF Detected, Go, Is, Clients
<1>4. Typed'
  BY <1>1 DEF IInv, Typed, Go, counters
<1> QED
  BY <1>2, <1>3, <1>4 DEF IInv, CountersAgree, Detected, counters

LEMMA SubmittedStep ==
    ASSUME IInv, NEW c \in Clients, Submitted(c)
    PROVE  IInv'
<1>1. /\ at \in [Clients -> Places] /\ at[c] = "submit"
      /\ at' = [at EXCEPT ![c] = "process"]
      /\ pending' = pending + 1 /\ max_pending' = Larger(max_pending, pending')
      /\ cap' = cap /\ inflight' = inflight
  BY DEF IInv, Typed, Submitted, Is, Go
<1>2. Counted' = Counted \union {c} /\ c \notin Counted
  BY <1>1 DEF Counted
<1>3. Detected' = Detected
  BY <1>1 DEF Detected, Is, Clients
<1>4. Cardinality(Counted') = Cardinality(Counted) + 1
  BY <1>2, Counts, FiniteCounts
<1>5. Typed' /\ max_pending' >= pending'
  BY <1>1 DEF IInv, Typed, Places, Larger
<1> QED
  BY <1>1, <1>3, <1>4, <1>5 DEF IInv, CountersAgree, Detected

LEMMA StartedStep ==
    ASSUME IInv, NEW c \in Clients, Started(c)
    PROVE  IInv'
<1>1. /\ at \in [Clients -> Places] /\ at[c] = "process"
      /\ at' = [at EXCEPT ![c] = "detect"]
      /\ inflight' = IF c \in Datagrams THEN inflight + 1 ELSE inflight
      /\ cap' = cap /\ pending' = pending /\ max_pending' = max_pending
  BY DEF IInv, Typed, Started, Is, Go
<1>2. Counted' = Counted
  BY <1>1 DEF Counted
<1>3. inflight' = Cardinality(Detected')
  <2>1. CASE c \in Datagrams
    <3>1. Detected' = Detected \union {c} /\ c \notin Detected
      BY <1>1, <2>1 DEF Detected, Is, Clients
    <3> QED
      BY <1>1, <2>1, <3>1, Counts, FiniteCounts DEF IInv, CountersAgree, Detected
  <2>2. CASE c \notin Datagrams
    <3>1. Detected' = Detected
      BY <1>1, <2>2 DEF Detected, Is, Clients
    <3> QED
      BY <1>1, <2>2, <3>1 DEF IInv, CountersAgree, Detected
  <2> QED
    BY <2>1, <2>2
<1>4. Typed'
  BY <1>1 DEF IInv, Typed, Places
<1> QED
  BY <1>1, <1>2, <1>3, <1>4 DEF IInv, CountersAgree, Detected

LEMMA EndedStep ==
    ASSUME IInv, NEW c \in Clients, NEW outcome \in {"done", "raised"}, Ended(c, outcome)
    PROVE  IInv'
<1> DEFINE to == IF c \in Datagrams THEN "done" ELSE outcome
<1>1. /\ at \in [Clients -> Places] /\ at[c] = "detect"
      /\ at' = [at EXCEPT ![c] = to] /\ to \in {"done", "raised"}
      /\ inflight' = IF c \in Datagrams THEN CountDown(inflight) ELSE inflight
      /\ cap' = cap /\ pending' = pending /\ max_pending' = max_pending
  BY DEF IInv, Typed, Ended, Is, Go
<1> HIDE DEF to
<1>2. Counted' = Counted
  BY <1>1 DEF Counted
<1>3. inflight' = Cardinality(Detected')
  <2>1. CASE c \in Datagrams
    <3>1. Detected' = Detected \ {c} /\ c \in Detected
      BY <1>1, <2>1 DEF Detected, Is, Clients
    <3> QED
      BY <1>1, <2>1, <3>1, Counts, FiniteCounts DEF IInv, CountersAgree, Detected
  <2>2. CASE c \notin Datagrams
    <3>1. Detected' = Detected
      BY <1>1, <2>2 DEF Detected, Is, Clients
    <3> QED
      BY <1>1, <2>2, <3>1 DEF IInv, CountersAgree, Detected
  <2> QED
    BY <2>1, <2>2
<1>4. Typed'
  BY <1>1 DEF IInv, Typed, Places, CountDown
<1> QED
  BY <1>1, <1>2, <1>3, <1>4 DEF IInv, CountersAgree, Detected

LEMMA CompletedStep ==
    ASSUME IInv, NEW c \in Clients, Completed(c)
    PROVE  IInv'
<1>1. /\ at \in [Clients -> Places] /\ at[c] \in {"done", "raised"}
      /\ at' = [at EXCEPT ![c] = "idle"]
      /\ pending' = CountDown(pending)
      /\ cap' = cap /\ inflight' = inflight /\ max_pending' = max_pending
  BY DEF IInv, Typed, Completed, Is, Go
<1>2. Counted' = Counted \ {c} /\ c \in Counted
  BY <1>1 DEF Counted
<1>3. Detected' = Detected
  BY <1>1 DEF Detected, Is, Clients
<1>4. Cardinality(Counted') = CountDown(Cardinality(Counted))
  BY <1>2, Counts, FiniteCounts
<1>5. Typed' /\ max_pending' >= pending'
  BY <1>1 DEF IInv, Typed, CountersAgree, Places, CountDown
<1> QED
  BY <1>1, <1>3, <1>4, <1>5 DEF IInv, CountersAgree, Detected

LEMMA QueueStep == IInv /\ [Next]_vars => IInv'
<1> SUFFICES ASSUME IInv, [Next]_vars PROVE IInv'
  OBVIOUS
<1>1. ASSUME NEW c \in Clients, ReceiveDatagram(c) PROVE IInv'
  BY <1>1, Uncounted DEF ReceiveDatagram, Is, Places, Counted, IInv, Typed
<1>2. ASSUME NEW c \in Clients, ReadMessage(c) PROVE IInv'
  BY <1>2, Uncounted DEF ReadMessage, Is, Places, Counted, IInv, Typed
<1>3. ASSUME NEW c \in Clients, FoundAddress(c) PROVE IInv'
  BY <1>3, Uncounted DEF FoundAddress, Is, Places, Counted, IInv, Typed
<1>4. ASSUME NEW c \in Clients, Refuse(c) PROVE IInv'
  BY <1>4, Uncounted DEF Refuse, Is, Places, Counted, IInv, Typed
<1>5. CASE Take
  BY <1>5 DEF Take, counters, IInv, Typed, CountersAgree, Counted, Is
<1>6. ASSUME NEW n \in Caps, SetCap(n) PROVE IInv'
  BY <1>6 DEF SetCap, counters, IInv, Typed, CountersAgree, Counted, Is
<1>7. CASE UNCHANGED vars
  BY <1>7 DEF vars, counters, IInv, Typed, CountersAgree, Counted, Is
<1> QED
  BY <1>1, <1>2, <1>3, <1>4, <1>5, <1>6, <1>7, SubmittedStep, StartedStep, EndedStep,
     CompletedStep DEF Next, Handle

-----------------------------------------------------------------------------
\* The counters that the limit and the console rest on are never off, whatever
\* the order of receptions, exceptions and completions (queue_stats.py).
THEOREM CountersAreTrue == Spec => []CountersAgree
<1>1. IInv => CountersAgree
  BY DEF IInv
<1> QED
  BY <1>1, QueueInit, QueueStep, PTL DEF Spec

\* Because the counter is true, a query is accepted only below the limit and
\* refused only at it (submitted, queue_stats.py).
THEOREM LimitIsKept == Spec => LimitKept
<1>1. IInv /\ [Next]_vars =>
        [\A c \in Clients :
          /\ Submitted(c) => cap = 0 \/ Cardinality(Counted) < cap
          /\ Refuse(c) => Cardinality(Counted) >= cap]_vars
  BY DEF IInv, CountersAgree, Submitted, Refuse
<1> QED
  BY <1>1, QueueInit, QueueStep, PTL DEF Spec, LimitKept

-----------------------------------------------------------------------------
(* A task that somebody waits for is in the queue of its pool or has one   *)
(* of its threads, and who waits for it is of a higher pool.               *)

Waits(c) ==
    \E i \in DOMAIN taskQueues[PoolOf(c)] : taskQueues[PoolOf(c)][i] = c
UnderWay(c) == Waits(c) \/ HasThread(c)

AskedBy(t) == {c \in IpTasks \union LeafTasks : Parent(c) = t}

QueuesTyped ==
    /\ taskQueues \in [Pools -> Seq(Tasks)]
    /\ \A p \in Pools : \A i \in DOMAIN taskQueues[p] : PoolOf(taskQueues[p][i]) = p

ThreadsTyped ==
    /\ threads \in [Pools -> SUBSET Tasks]
    /\ \A p \in Pools : \A c \in threads[p] : PoolOf(c) = p

PoolInv ==
    /\ stage \in [Callers -> {"idle", "queued", "domain", "ips", "check"}]
    /\ todo \in [Callers -> SUBSET Tasks] /\ open \in [Callers -> SUBSET Tasks]
    /\ QueuesTyped /\ ThreadsTyped
    /\ \A t \in Callers : todo[t] \subseteq AskedBy(t)
    /\ \A t \in Callers : open[t] \subseteq AskedBy(t) /\ \A c \in open[t] : UnderWay(c)
    /\ \A t \in QueryTasks : stage[t] # "idle" => UnderWay(t)

\* What the tuples say: the pool of a task, and who asks.
LEMMA TaskPools ==
    /\ \A t \in QueryTasks : PoolOf(t) = "query"
    /\ \A t \in IpTasks : PoolOf(t) = "ip" /\ Parent(t) \in QueryTasks
    /\ \A t \in LeafTasks : PoolOf(t) = "leaf" /\ Parent(t) \in Callers
BY DEF PoolOf, Parent, QueryTasks, IpTasks, LeafTasks

LEMMA TasksOf ==
    /\ Tasks = QueryTasks \union IpTasks \union LeafTasks
    /\ Callers = QueryTasks \union IpTasks
    /\ \A t \in Tasks : PoolOf(t) \in Pools
BY TaskPools DEF Tasks, Callers, Pools

\* A check of an address waits for sources only.
LEMMA ChecksAskSources == \A t \in IpTasks : AskedBy(t) \subseteq LeafTasks
BY TaskPools DEF AskedBy

-----------------------------------------------------------------------------
LEMMA EnqueueKeeps ==
    ASSUME QueuesTyped, NEW c \in Tasks, Enqueue(c)
    PROVE  QueuesTyped' /\ Waits(c)' /\ \A d \in Tasks : Waits(d) => Waits(d)'
<1> DEFINE p == PoolOf(c)
<1>1. p \in Pools /\ taskQueues[p] \in Seq(Tasks)
  BY TasksOf DEF QueuesTyped
<1>2. taskQueues' = [taskQueues EXCEPT ![p] = Append(taskQueues[p], c)]
  BY DEF Enqueue
<1>3. /\ Append(taskQueues[p], c) \in Seq(Tasks)
      /\ Len(Append(taskQueues[p], c)) = Len(taskQueues[p]) + 1
      /\ \A i \in 1..Len(taskQueues[p]) : Append(taskQueues[p], c)[i] = taskQueues[p][i]
      /\ Append(taskQueues[p], c)[Len(taskQueues[p]) + 1] = c
  BY <1>1, AppendProperties
<1>4. /\ DOMAIN taskQueues[p] = 1..Len(taskQueues[p])
      /\ DOMAIN Append(taskQueues[p], c) = 1..Len(taskQueues[p]) + 1
      /\ Len(taskQueues[p]) \in Nat
  BY <1>1, <1>3, LenProperties
<1>5. taskQueues'[p] = Append(taskQueues[p], c)
      /\ \A q \in Pools \ {p} : taskQueues'[q] = taskQueues[q]
  BY <1>1, <1>2 DEF QueuesTyped
<1>6. taskQueues' \in [Pools -> Seq(Tasks)]
  BY <1>2, <1>3 DEF QueuesTyped
<1>7. ASSUME NEW q \in Pools, NEW i \in DOMAIN taskQueues'[q]
      PROVE  PoolOf(taskQueues'[q][i]) = q
  <2>1. CASE q # p
    BY <2>1, <1>5, <1>7 DEF QueuesTyped
  <2>2. CASE q = p /\ i = Len(taskQueues[p]) + 1
    BY <2>2, <1>3, <1>5
  <2>3. CASE q = p /\ i \in 1..Len(taskQueues[p])
    BY <2>3, <1>3, <1>4, <1>5 DEF QueuesTyped
  <2> QED
    BY <1>4, <1>5, <2>1, <2>2, <2>3
<1>8. QueuesTyped'
  BY <1>6, <1>7 DEF QueuesTyped, PoolOf
<1>9. Waits(c)'
  <2>1. Len(taskQueues[p]) + 1 \in DOMAIN taskQueues'[p]
    BY <1>4, <1>5
  <2> QED
    BY <2>1, <1>3, <1>5 DEF Waits, PoolOf
<1>10. ASSUME NEW d \in Tasks, Waits(d)
       PROVE  Waits(d)'
  <2>1. PICK i \in DOMAIN taskQueues[PoolOf(d)] : taskQueues[PoolOf(d)][i] = d
    BY <1>10 DEF Waits
  <2>2. CASE PoolOf(d) = p
    <3>1. i \in 1..Len(taskQueues[p]) /\ i \in 1..Len(taskQueues[p]) + 1
      BY <2>1, <2>2, <1>4
    <3> QED
      BY <2>1, <2>2, <3>1, <1>3, <1>4, <1>5 DEF Waits, PoolOf
  <2>3. CASE PoolOf(d) # p
    <3>1. taskQueues'[PoolOf(d)] = taskQueues[PoolOf(d)]
      BY <2>3, <1>5, TasksOf
    <3> QED
      BY <2>1, <3>1 DEF Waits, PoolOf
  <2> QED
    BY <2>2, <2>3
<1> QED
  BY <1>8, <1>9, <1>10

LEMMA TakeKeeps ==
    ASSUME QueuesTyped, ThreadsTyped, NEW p \in Pools, TakeTask(p)
    PROVE  QueuesTyped' /\ ThreadsTyped' /\ \A d \in Tasks : UnderWay(d) => UnderWay(d)'
<1> DEFINE q == taskQueues[p]
<1>1. q \in Seq(Tasks) /\ q # <<>>
  BY DEF QueuesTyped, TakeTask, CanTake
<1>2. /\ taskQueues' = [taskQueues EXCEPT ![p] = Tail(q)]
      /\ threads' = [threads EXCEPT ![p] = threads[p] \union {Head(q)}]
  BY DEF TakeTask
<1>3. /\ Head(q) \in Tasks /\ Head(q) = q[1] /\ Tail(q) \in Seq(Tasks)
      /\ Len(Tail(q)) = Len(q) - 1 /\ \A i \in 1..Len(Tail(q)) : Tail(q)[i] = q[i + 1]
  BY <1>1, HeadTailProperties
<1>4. /\ DOMAIN q = 1..Len(q) /\ Len(q) \in Nat /\ Len(q) # 0
      /\ DOMAIN Tail(q) = 1..Len(q) - 1
  BY <1>1, <1>3, LenProperties, EmptySeq
<1>5. /\ taskQueues'[p] = Tail(q) /\ threads'[p] = threads[p] \union {Head(q)}
      /\ \A r \in Pools \ {p} : taskQueues'[r] = taskQueues[r] /\ threads'[r] = threads[r]
  BY <1>2 DEF QueuesTyped, ThreadsTyped
<1>6. PoolOf(q[1]) = p
  BY <1>4 DEF QueuesTyped
<1>7. QueuesTyped'
  <2>1. taskQueues' \in [Pools -> Seq(Tasks)]
    BY <1>2, <1>3 DEF QueuesTyped
  <2>2. ASSUME NEW r \in Pools, NEW i \in DOMAIN taskQueues'[r]
        PROVE  PoolOf(taskQueues'[r][i]) = r
    <3>1. CASE r = p
      <4>1. i \in 1..Len(q) - 1 /\ taskQueues'[r][i] = q[i + 1]
        BY <3>1, <1>3, <1>4, <1>5, <2>2
      <4>2. i + 1 \in DOMAIN q
        BY <4>1, <1>4
      <4> QED
        BY <3>1, <4>1, <4>2 DEF QueuesTyped
    <3>2. CASE r # p
      BY <3>2, <2>2, <1>5 DEF QueuesTyped
    <3> QED
      BY <3>1, <3>2
  <2> QED
    BY <2>1, <2>2 DEF QueuesTyped, PoolOf
<1>8. ThreadsTyped'
  <2>1. threads' \in [Pools -> SUBSET Tasks]
    BY <1>2, <1>3 DEF ThreadsTyped
  <2>2. \A r \in Pools : \A c \in threads'[r] : PoolOf(c) = r
    BY <1>3, <1>5, <1>6 DEF ThreadsTyped
  <2> QED
    BY <2>1, <2>2 DEF ThreadsTyped, PoolOf
<1>9. ASSUME NEW d \in Tasks, UnderWay(d)
      PROVE  UnderWay(d)'
  <2> DEFINE r == PoolOf(d)
  <2>1. r \in Pools
    BY TasksOf
  <2>2. CASE HasThread(d)
    <3>1. d \in threads'[r]
      BY <2>1, <2>2, <1>5 DEF HasThread
    <3> QED
      BY <3>1 DEF HasThread, UnderWay, PoolOf
  <2>3. CASE Waits(d)
    <3>1. PICK i \in DOMAIN taskQueues[r] : taskQueues[r][i] = d
      BY <2>3 DEF Waits
    <3>2. CASE r # p
      <4>1. i \in DOMAIN taskQueues'[r] /\ taskQueues'[r][i] = d
        BY <3>1, <3>2, <2>1, <1>5
      <4> QED
        BY <4>1 DEF Waits, UnderWay, PoolOf
    <3>3. CASE r = p /\ i = 1
      <4>1. d \in threads'[r]
        BY <3>1, <3>3, <1>3, <1>5
      <4> QED
        BY <4>1 DEF HasThread, UnderWay, PoolOf
    <3>4. CASE r = p /\ i # 1
      <4>1. i - 1 \in DOMAIN Tail(q) /\ i - 1 \in 1..Len(Tail(q))
        BY <3>1, <3>4, <1>3, <1>4
      <4>2. Tail(q)[i - 1] = d
        BY <4>1, <3>1, <3>4, <1>3, <1>4
      <4>3. i - 1 \in DOMAIN taskQueues'[r] /\ taskQueues'[r][i - 1] = d
        BY <3>4, <4>1, <4>2, <1>5
      <4> QED
        BY <4>3 DEF Waits, UnderWay, PoolOf
    <3> QED
      BY <3>2, <3>3, <3>4
  <2> QED
    BY <1>9, <2>2, <2>3 DEF UnderWay
<1> QED
  BY <1>7, <1>8, <1>9

LEMMA LeaveKeeps ==
    ASSUME QueuesTyped, ThreadsTyped, NEW c \in Tasks, Leave(c), UNCHANGED taskQueues
    PROVE  QueuesTyped' /\ ThreadsTyped' /\ \A d \in Tasks \ {c} : UnderWay(d) => UnderWay(d)'
<1>1. PoolOf(c) \in Pools /\ threads' = [threads EXCEPT ![PoolOf(c)] = @ \ {c}]
  BY TasksOf DEF Leave
<1>2. QueuesTyped'
  BY DEF QueuesTyped, PoolOf
<1>3. \A p \in Pools : threads'[p] \subseteq threads[p] /\ threads[p] \ {c} \subseteq threads'[p]
  BY <1>1 DEF ThreadsTyped
<1>4. ThreadsTyped'
  <2>1. threads' \in [Pools -> SUBSET Tasks]
    BY <1>1 DEF ThreadsTyped
  <2> QED
    BY <2>1, <1>3 DEF ThreadsTyped, PoolOf
<1>5. ASSUME NEW d \in Tasks \ {c}, UnderWay(d) PROVE UnderWay(d)'
  BY <1>3, <1>5, TasksOf DEF UnderWay, HasThread, Waits, PoolOf
<1> QED
  BY <1>2, <1>4, <1>5

-----------------------------------------------------------------------------
LEMMA PoolInvInit == PoolInit => PoolInv
<1> SUFFICES ASSUME PoolInit PROVE PoolInv
  OBVIOUS
<1>1. \A p \in Pools : taskQueues[p] = <<>> /\ threads[p] = {}
  BY DEF PoolInit
<1>2. QueuesTyped
  BY <1>1 DEF PoolInit, QueuesTyped
<1>3. ThreadsTyped
  BY <1>1 DEF PoolInit, ThreadsTyped
<1> QED
  BY <1>2, <1>3, TasksOf DEF PoolInit, PoolInv

\* The steps of a query or a check beside Submit and Return: it asks.
LEMMA AskKeeps ==
    ASSUME PoolInv, NEW t \in Callers, NEW tasks, tasks \subseteq AskedBy(t),
           NEW next \in {"domain", "ips", "check"},
           HasThread(t), Calls(t, tasks, next), UNCHANGED <<open, taskQueues, threads>>
    PROVE  PoolInv'
<1>1. \A d \in Tasks : UnderWay(d) <=> UnderWay(d)'
  BY DEF UnderWay, Waits, HasThread, PoolOf
<1>2. QueuesTyped' /\ ThreadsTyped'
  BY DEF PoolInv, QueuesTyped, ThreadsTyped, PoolOf
<1>3. stage' = [stage EXCEPT ![t] = next] /\ todo' = [todo EXCEPT ![t] = tasks]
  BY DEF Calls
<1>4. tasks \subseteq Tasks /\ t \in Tasks
  BY TasksOf DEF AskedBy
<1>5. /\ stage' \in [Callers -> {"idle", "queued", "domain", "ips", "check"}]
      /\ todo' \in [Callers -> SUBSET Tasks] /\ open' \in [Callers -> SUBSET Tasks]
  BY <1>3, <1>4 DEF PoolInv
<1>6. \A u \in Callers : todo'[u] \subseteq AskedBy(u)
  BY <1>3 DEF PoolInv
<1>7. \A u \in Callers : open'[u] \subseteq AskedBy(u) /\ \A c \in open'[u] : UnderWay(c)'
  BY <1>1 DEF PoolInv
<1>8. \A u \in QueryTasks : stage'[u] # "idle" => UnderWay(u)'
  BY <1>1, <1>3, <1>4, TasksOf DEF PoolInv, UnderWay
<1> QED
  BY <1>2, <1>5, <1>6, <1>7, <1>8 DEF PoolInv, AskedBy, Parent

LEMMA PoolInvStep == PoolInv /\ [PoolNext]_poolVars => PoolInv'
<1> SUFFICES ASSUME PoolInv, [PoolNext]_poolVars PROVE PoolInv'
  OBVIOUS
<1>0. QueuesTyped /\ ThreadsTyped
  BY DEF PoolInv
<1>1. ASSUME NEW t \in QueryTasks, Arrive(t) PROVE PoolInv'
  <2>1. t \in Tasks /\ t \in Callers
    BY TasksOf
  <2>2. QueuesTyped' /\ Waits(t)' /\ \A d \in Tasks : Waits(d) => Waits(d)'
    BY <1>0, <1>1, <2>1, EnqueueKeeps DEF Arrive
  <2>3. ThreadsTyped'
    BY <1>0, <1>1 DEF Arrive, ThreadsTyped, PoolOf
  <2>4. \A d \in Tasks : UnderWay(d) => UnderWay(d)'
    BY <1>1, <2>2 DEF Arrive, UnderWay, HasThread, PoolOf
  <2>5. stage' = [stage EXCEPT ![t] = "queued"] /\ UNCHANGED <<todo, open>>
    BY <1>1 DEF Arrive
  <2>6. \A u \in QueryTasks : stage'[u] # "idle" => UnderWay(u)'
    BY <2>1, <2>2, <2>4, <2>5, TasksOf DEF PoolInv, UnderWay
  <2>7. \A u \in Callers : \A c \in open[u] : UnderWay(c)'
    BY <2>4 DEF PoolInv
  <2> QED
    BY <2>1, <2>2, <2>3, <2>5, <2>6, <2>7 DEF PoolInv, AskedBy, Parent
<1>2. ASSUME NEW p \in Pools, TakeTask(p) PROVE PoolInv'
  <2>1. QueuesTyped' /\ ThreadsTyped' /\ \A d \in Tasks : UnderWay(d) => UnderWay(d)'
    BY <1>0, <1>2, TakeKeeps
  <2>2. UNCHANGED <<stage, todo, open>>
    BY <1>2 DEF TakeTask
  <2>3. /\ \A u \in Callers : \A c \in open[u] : UnderWay(c)'
        /\ \A u \in QueryTasks : stage[u] # "idle" => UnderWay(u)'
    BY <2>1, TasksOf DEF PoolInv
  <2> QED
    BY <2>1, <2>2, <2>3 DEF PoolInv, AskedBy, Parent
<1>3. ASSUME NEW t \in QueryTasks, NEW sources \in SUBSET Sources, AskDomain(t, sources)
      PROVE  PoolInv'
  <2>1. {<<"leaf", t, s>> : s \in sources} \subseteq AskedBy(t)
    BY TasksOf DEF AskedBy, LeafTasks, Parent
  <2> QED
    BY <1>3, <2>1, TasksOf, AskKeeps DEF AskDomain
<1>4. ASSUME NEW t \in IpTasks, NEW sources \in SUBSET Sources, AskIp(t, sources)
      PROVE  PoolInv'
  <2>1. {<<"leaf", t, s>> : s \in sources} \subseteq AskedBy(t)
    BY TasksOf DEF AskedBy, LeafTasks, Parent
  <2> QED
    BY <1>4, <2>1, TasksOf, AskKeeps DEF AskIp
<1>5. ASSUME NEW t \in QueryTasks, NEW ips \in SUBSET Ips, CheckIps(t, ips)
      PROVE  PoolInv'
  <2>1. {<<"ip", t, i>> : i \in ips} \subseteq AskedBy(t)
    BY DEF AskedBy, IpTasks, Parent
  <2> QED
    BY <1>5, <2>1, TasksOf, AskKeeps DEF CheckIps
<1>6. ASSUME NEW t \in Callers, NEW c \in todo[t], Submit(t, c) PROVE PoolInv'
  <2>1. c \in Tasks /\ c \in AskedBy(t) /\ c \notin QueryTasks
    BY TasksOf, TaskPools DEF PoolInv, AskedBy
  <2>2. QueuesTyped' /\ Waits(c)' /\ \A d \in Tasks : Waits(d) => Waits(d)'
    BY <1>0, <1>6, <2>1, EnqueueKeeps DEF Submit
  <2>3. ThreadsTyped'
    BY <1>0, <1>6 DEF Submit, ThreadsTyped, PoolOf
  <2>4. \A d \in Tasks : UnderWay(d) => UnderWay(d)'
    BY <1>6, <2>2 DEF Submit, UnderWay, HasThread, PoolOf
  <2>5. /\ todo' = [todo EXCEPT ![t] = @ \ {c}]
        /\ open' = [open EXCEPT ![t] = @ \union {c}]
        /\ stage' = IF c \in Callers THEN [stage EXCEPT ![c] = "queued"] ELSE stage
    BY <1>6 DEF Submit
  <2>6. /\ stage' \in [Callers -> {"idle", "queued", "domain", "ips", "check"}]
        /\ \A u \in QueryTasks : stage'[u] = stage[u]
    BY <2>1, <2>5, TasksOf DEF PoolInv
  <2>7. /\ todo' \in [Callers -> SUBSET Tasks] /\ open' \in [Callers -> SUBSET Tasks]
        /\ \A u \in Callers : todo'[u] \subseteq AskedBy(u) /\ open'[u] \subseteq AskedBy(u)
    BY <2>1, <2>5 DEF PoolInv
  <2>8. ASSUME NEW u \in Callers, NEW d \in open'[u] PROVE UnderWay(d)'
    <3>1. CASE d = c
      BY <3>1, <2>2 DEF UnderWay
    <3>2. CASE d # c
      BY <3>2, <2>4, <2>5, <2>8 DEF PoolInv
    <3> QED
      BY <3>1, <3>2
  <2>9. \A u \in QueryTasks : stage'[u] # "idle" => UnderWay(u)'
    BY <2>4, <2>6, TasksOf DEF PoolInv
  <2> QED
    BY <2>2, <2>3, <2>6, <2>7, <2>8, <2>9 DEF PoolInv, AskedBy, Parent
<1>7. ASSUME NEW t \in Callers, Return(t) PROVE PoolInv'
  <2>1. t \in Tasks
    BY TasksOf
  <2>2. QueuesTyped' /\ ThreadsTyped' /\ \A d \in Tasks \ {t} : UnderWay(d) => UnderWay(d)'
    BY <1>0, <1>7, <2>1, LeaveKeeps DEF Return
  <2>3. /\ stage' = [stage EXCEPT ![t] = "idle"] /\ todo' = todo
        /\ open' = IF t \in IpTasks THEN [open EXCEPT ![Parent(t)] = @ \ {t}] ELSE open
    BY <1>7 DEF Return
  <2>4. open' \in [Callers -> SUBSET Tasks] /\ \A u \in Callers : open'[u] \subseteq open[u] \ {t}
    <3>1. ASSUME NEW u \in Callers, t \in open[u] PROVE t \in IpTasks /\ u = Parent(t)
      BY <3>1, TasksOf, TaskPools DEF PoolInv, AskedBy
    <3>2. CASE t \in IpTasks
      <4>1. Parent(t) \in Callers
        BY <3>2, TaskPools, TasksOf
      <4> QED
        BY <3>1, <3>2, <4>1, <2>3 DEF PoolInv
    <3>3. CASE t \notin IpTasks
      BY <3>1, <3>3, <2>3 DEF PoolInv
    <3> QED
      BY <3>2, <3>3
  <2>5. \A u \in Callers : open'[u] \subseteq AskedBy(u) /\ \A c \in open'[u] : UnderWay(c)'
    BY <2>2, <2>4 DEF PoolInv
  <2>6. \A u \in QueryTasks : stage'[u] # "idle" => UnderWay(u)'
    BY <2>2, <2>3, TasksOf DEF PoolInv
  <2> QED
    BY <2>2, <2>3, <2>4, <2>5, <2>6 DEF PoolInv, AskedBy, Parent
<1>8. ASSUME NEW c \in LeafTasks, Answer(c) PROVE PoolInv'
  <2>1. c \in Tasks /\ Parent(c) \in Callers /\ c \notin QueryTasks
    BY TasksOf, TaskPools
  <2>2. QueuesTyped' /\ ThreadsTyped' /\ \A d \in Tasks \ {c} : UnderWay(d) => UnderWay(d)'
    BY <1>0, <1>8, <2>1, LeaveKeeps DEF Answer
  <2>3. open' = [open EXCEPT ![Parent(c)] = @ \ {c}] /\ UNCHANGED <<stage, todo>>
    BY <1>8 DEF Answer
  <2>4. open' \in [Callers -> SUBSET Tasks] /\ \A u \in Callers : open'[u] \subseteq open[u] \ {c}
    BY <2>1, <2>3 DEF PoolInv, AskedBy
  <2>5. \A u \in Callers : open'[u] \subseteq AskedBy(u) /\ \A d \in open'[u] : UnderWay(d)'
    BY <2>2, <2>4 DEF PoolInv
  <2>6. \A u \in QueryTasks : stage'[u] # "idle" => UnderWay(u)'
    BY <2>1, <2>2, <2>3, TasksOf DEF PoolInv
  <2> QED
    BY <2>2, <2>3, <2>4, <2>5, <2>6 DEF PoolInv, AskedBy, Parent
<1>9. CASE UNCHANGED poolVars
  BY <1>9 DEF poolVars, PoolInv, QueuesTyped, ThreadsTyped, UnderWay, Waits, HasThread,
              AskedBy, Parent, PoolOf
<1> QED
  BY <1>1, <1>2, <1>3, <1>4, <1>5, <1>6, <1>7, <1>8, <1>9 DEF PoolNext, Run

-----------------------------------------------------------------------------
\* A pool none of whose tasks has a thread has no task waiting, unless a thread
\* can take one.
LEMMA IdlePool ==
    ASSUME PoolInv, NEW p \in Pools, ~CanTake(p), threads[p] = {}
    PROVE  \A c \in Tasks : PoolOf(c) = p => ~UnderWay(c)
<1>1. Cardinality(threads[p]) < PoolThreads[p]
  BY FS_EmptySet, PoolsAssumption DEF PoolThreads, Pools
<1>2. taskQueues[p] = <<>>
  BY <1>1 DEF CanTake
<1> QED
  BY <1>2 DEF UnderWay, Waits, HasThread

\* The pools are above each other: as long as a query is unanswered somebody
\* can go on, whatever the sizes of the pools (detectors.py, lines 53-58).
THEOREM PoolsNeverStop == PoolSpec => []NotStuck
<1>1. PoolInv => NotStuck
  <2> SUFFICES ASSUME PoolInv,
                      \A c \in LeafTasks : ~HasThread(c),
                      \A p \in Pools : ~CanTake(p),
                      \A t \in Callers : HasThread(t) => open[t] # {}
               PROVE  \A t \in QueryTasks : stage[t] = "idle"
    BY DEF NotStuck
  <2>1. {"query", "ip", "leaf"} = Pools
    BY DEF Pools
  <2>2. \A c \in LeafTasks : ~UnderWay(c)
    <3>1. threads["leaf"] = {}
      BY <2>1, TasksOf, TaskPools DEF PoolInv, ThreadsTyped, HasThread
    <3> QED
      BY <2>1, <3>1, IdlePool, TasksOf, TaskPools
  <2>3. \A c \in IpTasks : ~UnderWay(c)
    <3>1. \A c \in IpTasks : open[c] = {}
      BY <2>2, ChecksAskSources, TasksOf DEF PoolInv
    <3>2. threads["ip"] = {}
      BY <2>1, <3>1, TasksOf, TaskPools DEF PoolInv, ThreadsTyped, HasThread
    <3> QED
      BY <2>1, <3>2, IdlePool, TasksOf, TaskPools
  <2>4. \A t \in QueryTasks : ~UnderWay(t)
    <3>1. \A t \in QueryTasks : open[t] = {}
      BY <2>2, <2>3, TasksOf DEF PoolInv, AskedBy
    <3>2. threads["query"] = {}
      BY <2>1, <3>1, TasksOf, TaskPools DEF PoolInv, ThreadsTyped, HasThread
    <3> QED
      BY <2>1, <3>2, IdlePool, TasksOf, TaskPools
  <2> QED
    BY <2>4 DEF PoolInv
<1> QED
  BY <1>1, PoolInvInit, PoolInvStep, PTL DEF PoolSpec

=============================================================================
