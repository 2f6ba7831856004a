------------------------------ MODULE MCService ------------------------------
(***************************************************************************)
(* The way of a query through the process, in one run.  part says which    *)
(* module a behaviour is of: DnsQueue, where a detection is one job of the *)
(* executor, or DetectionPools, which is what that job does.               *)
(***************************************************************************)
EXTENDS DnsQueue, DetectionPools

VARIABLE part

allVars == <<part, vars, poolVars>>

\* A part that rests has one initial state.
MCInit ==
    /\ part \in {"queue", "pools"} /\ Init /\ PoolInit
    /\ part = "pools" => \A n \in Caps : cap <= n

OfQueue(A) == part = "queue" /\ A /\ UNCHANGED <<part, poolVars>>
OfPools(A) == part = "pools" /\ A /\ UNCHANGED <<part, vars>>

QueueNext == OfQueue(Next)
PoolsNext == OfPools(PoolNext)

\* The fairness of the FairSpec of both.
MCSpec ==
    /\ MCInit /\ [][QueueNext \/ PoolsNext]_allVars
    /\ WF_allVars(OfQueue(Take)) /\ \A c \in Clients : WF_allVars(OfQueue(Handle(c)))
    /\ \A p \in Pools : WF_allVars(OfPools(TakeTask(p)))
    /\ \A t \in Callers : WF_allVars(OfPools(Run(t)))
    /\ \A c \in LeafTasks : WF_allVars(OfPools(Answer(c)))

\* Queries end in both: none waits for ever, in the queue or for a thread.
AllQueriesEnd == QueriesEnd /\ DetectionsEnd

=============================================================================
