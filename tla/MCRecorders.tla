----------------------------- MODULE MCRecorders -----------------------------
(***************************************************************************)
(* What the DNS process writes to the database beside its answers, and     *)
(* what removes it again, in one run.  part says which module a behaviour  *)
(* is of: QueryStats, RecordQueue or LogRetention; each writes to tables   *)
(* of its own.                                                             *)
(***************************************************************************)
EXTENDS QueryStats, RecordQueue, LogRetention

VARIABLE part

allVars == <<part, vars, recordVars, retentionVars>>

\* A part that rests has one initial state.
MCInit ==
    /\ part \in {"stats", "queue", "retention"}
    /\ Init /\ RecorderInit /\ PurgeInit
    /\ part # "queue" => kind = "log" /\ async
    /\ part # "retention" => \A n \in Settings : retention <= n

OfStats(A) == part = "stats" /\ A /\ UNCHANGED <<part, recordVars, retentionVars>>
OfQueue(A) == part = "queue" /\ A /\ UNCHANGED <<part, vars, retentionVars>>
OfPurge(A) == part = "retention" /\ A /\ UNCHANGED <<part, vars, recordVars>>

MCNext == OfStats(Next) \/ OfQueue(RecorderNext) \/ OfPurge(PurgeNext)

\* The fairness of the FairSpec of each.
MCSpec ==
    /\ MCInit /\ [][MCNext]_allVars
    /\ WF_allVars(OfStats(Inside)) /\ WF_allVars(OfStats(Record))
    /\ SF_allVars(OfStats(Enter(Flusher)))
    /\ WF_allVars(OfQueue(Wake)) /\ WF_allVars(OfQueue(Join))
    /\ \A t \in Takers : WF_allVars(OfQueue(FlushRound(t)))
    /\ \A p \in Purgers :
          /\ WF_allVars(OfPurge(Begin(p)))
          /\ WF_allVars(OfPurge(DeleteBatch(p) \/ FailBatch(p)))

=============================================================================
