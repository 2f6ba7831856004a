-------------------------- MODULE UpstreamResolver --------------------------
(***************************************************************************)
(* Forwarding to the upstream resolvers behind their breaker               *)
(* (query_upstream_reply in platform/detectors.py and the upstream_*       *)
(* functions of platform/circuit_breaker.py).  A worker that is let through*)
(* tries the targets one after the other, each up to AttemptBound; the     *)
(* first answer counts as a success of the whole service, and only when    *)
(* every target has failed is one failure counted.                         *)
(*                                                                         *)
(* The module refines CircuitBreaker: the module comment of the code says  *)
(* that both breakers have the same semantics, and here that is checked.   *)
(***************************************************************************)
EXTENDS Integers, FiniteSets

CONSTANTS
    Workers,        \* detection workers that may be forwarding
    UpThreshold,    \* upstream_failure_threshold (0, disabled, excluded)
    UpOpenTimeout,  \* upstream_open_timeout_s
    NumTargets,     \* length of _upstream_targets(), never 0
    AttemptBound,   \* upstream_timeout_s
    CountCap        \* where the two observation counters saturate

ASSUME TargetsAssumption ==
    /\ NumTargets \in Nat \ {0}
    /\ CountCap \in Nat /\ AttemptBound \in Nat \ {0}
ASSUME UpstreamAssumption == UpThreshold \in Nat \ {0} /\ UpOpenTimeout \in Nat

VARIABLES
    upState, upFailures, upSinceOpen,   \* _UPSTREAM, as in CircuitBreaker
    openCount, fastFails,           \* _UPSTREAM["open_count"], ["fast_fails"]
    upRole,                         \* "idle", "normal" or "probe"
    target,                         \* target each caller is waiting for, or 0
    attemptAge,                     \* age of that attempt
    upAge,                          \* age of the whole call
    reliable                        \* targets that answer every time (may be none)

upBreaker == <<upState, upFailures, upSinceOpen>>
forwards == <<upRole, target, attemptAge, upAge>>
upstreamVars == <<upBreaker, openCount, fastFails, forwards, reliable>>

Targets == 1..NumTargets
Forwarding(c) == upRole[c] # "idle"
Bump(n) == IF n < CountCap THEN n + 1 ELSE n

UpstreamTypeOK ==
    /\ upState \in {"closed", "open", "half-open"}
    /\ upFailures \in 0..UpThreshold
    /\ upSinceOpen \in 0..UpOpenTimeout
    /\ openCount \in 0..CountCap /\ fastFails \in 0..CountCap
    /\ upRole \in [Workers -> {"idle", "normal", "probe"}]
    /\ target \in [Workers -> 0..NumTargets]
    /\ attemptAge \in [Workers -> 0..AttemptBound]
    /\ \A c \in Workers : Forwarding(c) <=> target[c] # 0
    /\ reliable \subseteq Targets

UpstreamInit ==
    /\ upState = "closed" /\ upFailures = 0 /\ upSinceOpen = UpOpenTimeout
    /\ openCount = 0 /\ fastFails = 0
    /\ upRole = [c \in Workers |-> "idle"]
    /\ target = [c \in Workers |-> 0]
    /\ attemptAge = [c \in Workers |-> 0]
    /\ upAge = [c \in Workers |-> 0]
    /\ reliable \in SUBSET Targets

-----------------------------------------------------------------------------
(* upstream_allows.  In half-open a refused caller changes nothing.        *)

Forward(c, as) ==
    /\ upRole[c] = "idle"
    /\ upRole' = [upRole EXCEPT ![c] = as]
    /\ target' = [target EXCEPT ![c] = 1]
    /\ attemptAge' = [attemptAge EXCEPT ![c] = 0]
    /\ upAge' = [upAge EXCEPT ![c] = 0]

ForwardClosed(c) ==
    /\ upState = "closed"
    /\ Forward(c, "normal")
    /\ UNCHANGED <<upBreaker, openCount, fastFails, reliable>>

BugUpNoCooling == TRUE    \* the elapsed time is not looked at

UpCooledDown == upSinceOpen >= UpOpenTimeout

ForwardProbe(c) ==
    /\ upState = "open"
    /\ UpCooledDown
    /\ upState' = "half-open"
    /\ Forward(c, "probe")
    /\ UNCHANGED <<upFailures, upSinceOpen, openCount, fastFails, reliable>>

\* SERVFAIL at once; the worker is free again in the same step.
FastFail(c) ==
    /\ upRole[c] = "idle"
    /\ upState = "open"
    /\ ~UpCooledDown
    /\ fastFails' = Bump(fastFails)
    /\ UNCHANGED <<upBreaker, openCount, forwards, reliable>>

-----------------------------------------------------------------------------
(* The loop over the targets.                                              *)

Returned(c) ==
    /\ Forwarding(c)
    /\ upRole' = [upRole EXCEPT ![c] = "idle"]
    /\ target' = [target EXCEPT ![c] = 0]
    /\ attemptAge' = [attemptAge EXCEPT ![c] = 0]
    /\ upAge' = [upAge EXCEPT ![c] = 0]

\* A legal answer, or one that dnslib cannot parse and that is passed through.
BugSuccessKeepsState(c) ==  \* clears the count but leaves the breaker open
    /\ Returned(c)
    /\ upFailures' = 0
    /\ UNCHANGED <<upState, upSinceOpen, openCount, fastFails, reliable>>

Answered(c) ==
    /\ Returned(c)
    /\ upState' = "closed"
    /\ upFailures' = 0
    /\ UNCHANGED <<upSinceOpen, openCount, fastFails, reliable>>

AttemptFails(c) == Forwarding(c) /\ target[c] \notin reliable

\* A failed target followed by another one is only logged.
TryNextTarget(c) ==
    /\ AttemptFails(c)
    /\ target[c] < NumTargets
    /\ target' = [target EXCEPT ![c] = @ + 1]
    /\ attemptAge' = [attemptAge EXCEPT ![c] = 0]
    /\ UNCHANGED <<upBreaker, openCount, fastFails, upRole, upAge, reliable>>

UpFailProbe ==
    /\ upState = "half-open"
    /\ upState' = "open"
    /\ upSinceOpen' = 0
    /\ upFailures' = UpThreshold
    /\ UNCHANGED openCount

UpFailIgnored ==
    /\ upState = "open"
    /\ UNCHANGED <<upBreaker, openCount>>

UpFailCounted ==
    /\ upState = "closed"
    /\ upFailures' = upFailures + 1
    /\ IF upFailures + 1 >= UpThreshold
         THEN upState' = "open" /\ upSinceOpen' = 0 /\ openCount' = Bump(openCount)
         ELSE UNCHANGED <<upState, upSinceOpen, openCount>>

BugCountEachTarget(c) ==    \* one failure counted per target, not per query
    /\ AttemptFails(c)
    /\ Returned(c)
    /\ UpFailProbe \/ UpFailIgnored \/ UpFailCounted
    /\ UNCHANGED <<fastFails, reliable>>

AllTargetsFailed(c) ==
    /\ AttemptFails(c)
    /\ target[c] = NumTargets
    /\ Returned(c)
    /\ UpFailProbe \/ UpFailIgnored \/ UpFailCounted
    /\ UNCHANGED <<fastFails, reliable>>

-----------------------------------------------------------------------------
UpstreamReset ==
    /\ upState' = "closed" /\ upFailures' = 0 /\ upSinceOpen' = UpOpenTimeout
    /\ openCount' = 0 /\ fastFails' = 0
    /\ UNCHANGED <<forwards, reliable>>

\* A second passes; no attempt outlives its time-out.
UpstreamTick ==
    /\ \A c \in Workers : Forwarding(c) => attemptAge[c] < AttemptBound
    /\ upSinceOpen' = IF upSinceOpen < UpOpenTimeout THEN upSinceOpen + 1 ELSE upSinceOpen
    /\ attemptAge' = [c \in Workers |-> IF Forwarding(c) THEN attemptAge[c] + 1 ELSE attemptAge[c]]
    /\ upAge' = [c \in Workers |-> IF Forwarding(c) THEN upAge[c] + 1 ELSE upAge[c]]
    /\ UNCHANGED <<upState, upFailures, openCount, fastFails, upRole, target, reliable>>

Finish(c) == Answered(c) \/ TryNextTarget(c) \/ AllTargetsFailed(c)

UpstreamNext ==
    \/ \E c \in Workers :
          \/ ForwardClosed(c) \/ ForwardProbe(c) \/ FastFail(c)
          \/ Answered(c) \/ TryNextTarget(c) \/ AllTargetsFailed(c)
    \/ UpstreamReset
    \/ UpstreamTick

\* Time passes and each attempt ends, by an answer or by its time-out.
UpstreamSpec ==
    /\ UpstreamInit /\ [][UpstreamNext]_upstreamVars
    /\ WF_upstreamVars(UpstreamTick)
    /\ \A c \in Workers : WF_upstreamVars(Finish(c))

-----------------------------------------------------------------------------
(* Properties.                                                             *)

Contract == INSTANCE CircuitBreaker WITH
    Callers <- Workers, Threshold <- UpThreshold, OpenTimeout <- UpOpenTimeout,
    CallBound <- NumTargets * AttemptBound,
    state <- upState, failures <- upFailures, sinceOpen <- upSinceOpen, role <- upRole, age <- upAge

\* The upstream breaker, with its loop over the targets, is a breaker in the
\* sense of the source-level one: every step is one of its steps or no step of
\* it, and every forwarding is reported in the end (circuit_breaker.py:34).
SameSemantics == Contract!FairSpec

\* During an outage the breaker keeps the worker pool free: once it has cooled
\* down, the one probe is the only worker waiting for the upstream
\* (circuit_breaker.py:30-33).  Needs NumTargets * AttemptBound < OpenTimeout.
OneWorkerWaits ==
    upState = "half-open" => Cardinality({c \in Workers : Forwarding(c)}) = 1

\* One target that answers keeps the service up: the failures of the others
\* never open the breaker, however they interleave (detectors.py:447-449).
BackupKeepsServing == reliable # {} => upState = "closed"

=============================================================================
