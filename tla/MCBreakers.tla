----------------------------- MODULE MCBreakers -----------------------------
(***************************************************************************)
(* Both breakers in one run.  part says which of them a behaviour is of:   *)
(* "source" is CircuitBreaker with its callers, "upstream" is              *)
(* UpstreamResolver with its workers; they share no state, and the other   *)
(* one stays as it starts, closed and with no call in flight.              *)
(***************************************************************************)
EXTENDS CircuitBreaker, UpstreamResolver

VARIABLE part

allVars == <<part, vars, upstreamVars>>

MCInit ==
    /\ part \in {"source", "upstream"}
    /\ Init /\ UpstreamInit
    /\ part = "source" => reliable = {}

OfSource(A) == part = "source" /\ A /\ UNCHANGED <<part, upstreamVars>>
OfUpstream(A) == part = "upstream" /\ A /\ UNCHANGED <<part, vars>>

SourceNext == OfSource(Next)
ForwardingNext == OfUpstream(UpstreamNext)

\* The fairness of CircuitBreaker!FairSpec and of UpstreamResolver!UpstreamSpec.
MCSpec ==
    /\ MCInit /\ [][SourceNext \/ ForwardingNext]_allVars
    /\ WF_allVars(OfSource(Tick)) /\ WF_allVars(OfUpstream(UpstreamTick))
    /\ \A c \in Callers : WF_allVars(OfSource(RecordSuccess(c) \/ RecordFailure(c)))
    /\ \A w \in Workers : WF_allVars(OfUpstream(Finish(w)))

=============================================================================
