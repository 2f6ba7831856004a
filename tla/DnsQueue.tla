------------------------------ MODULE DnsQueue ------------------------------
(***************************************************************************)
(* The bounded queue of queries (platform/queue_stats.py) and the handlers *)
(* that count in it (platform/dns_server.py).  Both handlers run on the    *)
(* event loop and give the detection to the default executor, whose own    *)
(* queue is unbounded: the limit is kept by counting.  The handler of      *)
(* datagrams gives the executor a first job, before it counts, to find the *)
(* client's address; the handler of connections finds it on the loop.      *)
(*                                                                         *)
(* A step is what the loop or a thread does between two points where the   *)
(* others can come in.  An administrator may change the limit.             *)
(***************************************************************************)
EXTENDS Naturals, Sequences, FiniteSets

CONSTANTS
    Datagrams,      \* clients by UDP; one query each at a time
    Connections,    \* clients by TCP, whose queries are read one by one
    Caps,           \* values of max_queue_depth; 0 is no limit
    Workers         \* threads of the executor

Clients == Datagrams \union Connections

ASSUME ClientsAssumption ==
    /\ Datagrams \cap Connections = {}
    /\ IsFiniteSet(Datagrams) /\ IsFiniteSet(Connections)
ASSUME CapsAssumption == Caps \subseteq Nat /\ Caps # {}
ASSUME WorkersAssumption == Workers \in Nat \ {0}

VARIABLES
    at,             \* where the query of each client is
    queue,          \* the executor's queue
    running,        \* clients for which a thread of the executor works
    cap,            \* CONFIG.max_queue_depth
    pending, inflight, max_pending  \* _STATS; what only grows is left out

counters == <<pending, inflight, max_pending>>
vars == <<at, queue, running, cap, counters>>

Places == {"idle", "address", "submit", "process", "detect", "done", "raised"}

TypeOK ==
    /\ at \in [Clients -> Places]
    /\ queue \in Seq(Clients)
    /\ running \subseteq Clients
    /\ cap \in Caps
    /\ pending \in Nat /\ inflight \in Nat /\ max_pending \in Nat

Init ==
    /\ at = [c \in Clients |-> "idle"]
    /\ queue = <<>>
    /\ running = {}
    /\ cap \in Caps
    /\ pending = 0 /\ inflight = 0 /\ max_pending = 0

Is(c, place) == at[c] = place
Go(c, place) == at' = [at EXCEPT ![c] = place]
RunInExecutor(c) == queue' = Append(queue, c)
FreesThread(c) == running' = running \ {c}
Larger(m, n) == IF m > n THEN m ELSE n
\* completed and ended never count below zero.
CountDown(n) == IF n > 0 THEN n - 1 ELSE 0

-----------------------------------------------------------------------------

\* A datagram: its client's address is found by the executor.
ReceiveDatagram(c) ==
    /\ c \in Datagrams /\ Is(c, "idle")
    /\ Go(c, "address")
    /\ RunInExecutor(c)
    /\ UNCHANGED <<running, cap, counters>>

FoundAddress(c) ==
    /\ Is(c, "address") /\ c \in running
    /\ Go(c, "submit")
    /\ FreesThread(c)
    /\ UNCHANGED <<queue, cap, counters>>

\* A message of a connection: its client's address is found at once.
ReadMessage(c) ==
    /\ c \in Connections /\ Is(c, "idle")
    /\ Go(c, "submit")
    /\ UNCHANGED <<queue, running, cap, counters>>

\* submitted() returns False, and SERVFAIL is sent.
Refuse(c) ==
    /\ Is(c, "submit")
    /\ cap > 0 /\ pending >= cap
    /\ Go(c, "idle")
    /\ UNCHANGED <<queue, running, cap, counters>>

BugOneOver(c) ==        \* > for >=
    /\ Is(c, "submit")
    /\ cap = 0 \/ pending <= cap
    /\ pending' = pending + 1
    /\ max_pending' = Larger(max_pending, pending')
    /\ Go(c, "process")
    /\ RunInExecutor(c)
    /\ UNCHANGED <<running, cap, inflight>>

\* submitted() returns True, and the executor has the detection.
Submitted(c) ==
    /\ Is(c, "submit")
    /\ cap = 0 \/ pending < cap
    /\ pending' = pending + 1
    /\ max_pending' = Larger(max_pending, pending')
    /\ Go(c, "process")
    /\ RunInExecutor(c)
    /\ UNCHANGED <<running, cap, inflight>>

BugTakesLast ==
    /\ queue # <<>> /\ Cardinality(running) < Workers
    /\ queue' = SubSeq(queue, 1, Len(queue) - 1)
    /\ running' = running \union {queue[Len(queue)]}
    /\ UNCHANGED <<at, cap, counters>>

\* A free thread of the executor takes the oldest job.
Take ==
    /\ queue # <<>> /\ Cardinality(running) < Workers
    /\ queue' = Tail(queue)
    /\ running' = running \union {Head(queue)}
    /\ UNCHANGED <<at, cap, counters>>

\* started(), in _process; the handler of connections calls process_query
\* itself.
Started(c) ==
    /\ Is(c, "process") /\ c \in running
    /\ Go(c, "detect")
    /\ inflight' = IF c \in Datagrams THEN inflight + 1 ELSE inflight
    /\ UNCHANGED <<queue, running, cap, pending, max_pending>>

\* process_query returns or raises.  _process counts with ended() and makes
\* an exception a SERVFAIL.
Ended(c, outcome) ==
    /\ Is(c, "detect")
    /\ Go(c, IF c \in Datagrams THEN "done" ELSE outcome)
    /\ FreesThread(c)
    /\ inflight' = IF c \in Datagrams THEN CountDown(inflight) ELSE inflight
    /\ UNCHANGED <<queue, cap, pending, max_pending>>

BugCompletedWhenFine(c) ==     \* completed() is not in a finally
    /\ Is(c, "done") \/ Is(c, "raised")
    /\ pending' = IF Is(c, "done") THEN CountDown(pending) ELSE pending
    /\ Go(c, "idle")
    /\ UNCHANGED <<queue, running, cap, inflight, max_pending>>

\* The loop has the result: completed(), and the answer is sent or, after an
\* exception, the connection is closed and the client opens another.
Completed(c) ==
    /\ Is(c, "done") \/ Is(c, "raised")
    /\ pending' = CountDown(pending)
    /\ Go(c, "idle")
    /\ UNCHANGED <<queue, running, cap, inflight, max_pending>>

SetCap(n) ==
    /\ cap' = n
    /\ UNCHANGED <<at, queue, running, counters>>

Handle(c) ==
    \/ FoundAddress(c) \/ Refuse(c) \/ Submitted(c) \/ Started(c)
    \/ \E outcome \in {"done", "raised"} : Ended(c, outcome)
    \/ Completed(c)

Next ==
    \/ \E c \in Clients : ReceiveDatagram(c) \/ ReadMessage(c) \/ Handle(c)
    \/ Take
    \/ \E n \in Caps : SetCap(n)

Spec == Init /\ [][Next]_vars

\* The loop runs, the threads run, and every detection ends (DetectionPools).
FairSpec == Spec /\ WF_vars(Take) /\ \A c \in Clients : WF_vars(Handle(c))

-----------------------------------------------------------------------------
(* Properties.                                                             *)

Counted == {c \in Clients : at[c] \in {"process", "detect", "done", "raised"}}

\* The counters are what the limit is kept by: pending is the number of
\* queries between their submission and their completion, inflight that of
\* the datagrams under detection, and the peak is not below pending.
CountersAgree ==
    /\ pending = Cardinality(Counted)
    /\ inflight = Cardinality({c \in Datagrams : Is(c, "detect")})
    /\ max_pending >= pending

\* A query is accepted only while fewer than the limit are unfinished, and
\* refused only while that many are, whatever the limit was before.
LimitKept ==
    [][\A c \in Clients :
          /\ Submitted(c) => cap = 0 \/ Cardinality(Counted) < cap
          /\ Refuse(c) => Cardinality(Counted) >= cap]_vars

\* Every query that is read is answered, refused, or ends with its
\* connection.
QueriesEnd == \A c \in Clients : ~Is(c, "idle") ~> Is(c, "idle")

\* The comment on lines 147-148 of dns_server.py: the queue is bounded.
QueueBounded == cap > 0 => Len(queue) <= cap

\* The comment on line 41 of queue_stats.py: inflight is the number of
\* detections that threads of the executor are executing.
InflightAgrees == inflight = Cardinality({c \in running : Is(c, "detect")})

=============================================================================
