-------------------------- MODULE DetectionProofs --------------------------
(***************************************************************************)
(* What a detection waits for: the upstream resolvers behind their breaker *)
(* (UpstreamResolver) and the online sources behind theirs                 *)
(* (DegradedDetection), for every number of workers, targets, threads and  *)
(* sources and all time-outs.                                              *)
(*                                                                         *)
(* The first implements CircuitBreaker (the safety part of SameSemantics), *)
(* and has from it the theorem on the probe.  The second records its       *)
(* probes itself: a half-open source is one that some thread has asked.    *)
(***************************************************************************)
EXTENDS UpstreamResolver, DegradedDetection, FiniteSetTheorems, TLAPS

-----------------------------------------------------------------------------
\* Products of a target number and the time-out of an attempt.
LEMMA NextTargetTime ==
    ASSUME NEW t \in Nat \ {0}, NEW b \in Nat
    PROVE  (t - 1) * b + b = t * b
BY Z3

LEMMA LastTargetTime ==
    ASSUME NEW t \in Nat \ {0}, NEW n \in Nat, NEW b \in Nat, t <= n
    PROVE  (t - 1) * b + b <= n * b
<1>1. (t - 1) * b + b = t * b
  BY NextTargetTime
<1>2. t * b <= n * b
  <2>1. PICK d \in Nat : n = t + d
    <3>1. n - t \in Nat /\ n = t + (n - t)
      OBVIOUS
    <3> QED
      BY <3>1
  <2>2. n * b = t * b + d * b /\ d * b \in Nat /\ t * b \in Nat
    BY <2>1, Z3
  <2> QED
    BY <2>2
<1> QED
  BY <1>1, <1>2

-----------------------------------------------------------------------------
(* A call at its t-th target has spent at most t - 1 whole time-outs before*)
(* the current attempt.                                                    *)

CallInv ==
    /\ upRole \in [Workers -> {"idle", "normal", "probe"}]
    /\ target \in [Workers -> 0..NumTargets]
    /\ attemptAge \in [Workers -> 0..AttemptBound]
    /\ upAge \in [Workers -> Nat]
    /\ \A c \in Workers : Forwarding(c) =>
          target[c] # 0 /\ upAge[c] <= (target[c] - 1) * AttemptBound + attemptAge[c]

LEMMA CallInit == UpstreamInit => CallInv
BY TargetsAssumption DEF UpstreamInit, CallInv, Forwarding

LEMMA CallStep == CallInv /\ [UpstreamNext]_upstreamVars => CallInv'
<1> SUFFICES ASSUME CallInv, [UpstreamNext]_upstreamVars
             PROVE  CallInv'
  OBVIOUS
<1> USE TargetsAssumption DEF CallInv, Forwarding
<1>1. ASSUME NEW c \in Workers, ForwardClosed(c)
      PROVE  CallInv'
  BY <1>1 DEF ForwardClosed, Forward
<1>2. ASSUME NEW c \in Workers, ForwardProbe(c)
      PROVE  CallInv'
  BY <1>2 DEF ForwardProbe, Forward
<1>3. ASSUME NEW c \in Workers, FastFail(c)
      PROVE  CallInv'
  BY <1>3 DEF FastFail, forwards
<1>4. ASSUME NEW c \in Workers, Answered(c)
      PROVE  CallInv'
  BY <1>4 DEF Answered, Returned
<1>5. ASSUME NEW c \in Workers, TryNextTarget(c)
      PROVE  CallInv'
  <2>1. /\ target[c] \in Nat \ {0} /\ target[c] < NumTargets
        /\ upAge[c] <= (target[c] - 1) * AttemptBound + attemptAge[c]
        /\ attemptAge[c] <= AttemptBound
    BY <1>5 DEF TryNextTarget, AttemptFails
  <2>2. upAge[c] <= (target[c] + 1 - 1) * AttemptBound + 0
    <3>1. (target[c] - 1) * AttemptBound + AttemptBound = target[c] * AttemptBound
      BY <2>1, NextTargetTime
    <3>2. /\ upAge[c] \in Nat /\ attemptAge[c] \in Nat
          /\ (target[c] - 1) * AttemptBound \in Int
      BY <2>1
    <3>3. upAge[c] <= target[c] * AttemptBound
      BY <2>1, <3>1, <3>2
    <3>4. target[c] + 1 - 1 = target[c] /\ target[c] * AttemptBound \in Int
      BY <2>1
    <3> QED
      BY <3>3, <3>4
  <2>3. /\ target' = [target EXCEPT ![c] = target[c] + 1]
        /\ attemptAge' = [attemptAge EXCEPT ![c] = 0]
        /\ upAge' = upAge /\ upRole' = upRole
    BY <1>5 DEF TryNextTarget
  <2>4. ASSUME NEW d \in Workers, Forwarding(d)'
        PROVE  target'[d] # 0 /\ upAge'[d] <= (target'[d] - 1) * AttemptBound + attemptAge'[d]
    <3>1. CASE d = c
      BY <2>1, <2>2, <2>3, <3>1
    <3>2. CASE d # c
      BY <2>3, <2>4, <3>2
    <3> QED
      BY <3>1, <3>2
  <2>5. target' \in [Workers -> 0..NumTargets] /\ attemptAge' \in [Workers -> 0..AttemptBound]
    BY <2>1, <2>3
  <2> QED
    BY <2>3, <2>4, <2>5
<1>6. ASSUME NEW c \in Workers, AllTargetsFailed(c)
      PROVE  CallInv'
  BY <1>6 DEF AllTargetsFailed, Returned
<1>7. CASE UpstreamReset
  BY <1>7 DEF UpstreamReset, forwards
<1>8. CASE UpstreamTick
  <2>1. /\ upRole' = upRole /\ target' = target
        /\ attemptAge' \in [Workers -> 0..AttemptBound]
        /\ upAge' \in [Workers -> Nat]
    BY <1>8 DEF UpstreamTick
  <2>2. ASSUME NEW d \in Workers, Forwarding(d)'
        PROVE  target'[d] # 0 /\ upAge'[d] <= (target'[d] - 1) * AttemptBound + attemptAge'[d]
    <3>1. /\ target[d] # 0 /\ upAge[d] <= (target[d] - 1) * AttemptBound + attemptAge[d]
          /\ upAge'[d] = upAge[d] + 1 /\ attemptAge'[d] = attemptAge[d] + 1
      BY <1>8, <2>1, <2>2 DEF UpstreamTick
    <3>2. (target[d] - 1) * AttemptBound \in Int
      OBVIOUS
    <3> QED
      BY <2>1, <3>1, <3>2
  <2> QED
    BY <2>1, <2>2
<1>9. CASE UNCHANGED upstreamVars
  BY <1>9 DEF upstreamVars, forwards
<1> QED
  BY <1>1, <1>2, <1>3, <1>4, <1>5, <1>6, <1>7, <1>8, <1>9 DEF UpstreamNext

-----------------------------------------------------------------------------
(* Every step is a step of the breaker or leaves it alone.                 *)

LEMMA BreakerStep == CallInv /\ [UpstreamNext]_upstreamVars => [Contract!Next]_(Contract!vars)
<1> SUFFICES ASSUME CallInv, [UpstreamNext]_upstreamVars
             PROVE  Contract!Next \/ UNCHANGED Contract!vars
  OBVIOUS
<1> USE DEF Contract!Next, Contract!vars, Contract!InFlight, Forwarding
<1>1. ASSUME NEW c \in Workers, ForwardClosed(c)
      PROVE  Contract!AllowClosed(c)
  BY <1>1 DEF ForwardClosed, Forward, upBreaker, Contract!AllowClosed, Contract!Depart
<1>2. ASSUME NEW c \in Workers, ForwardProbe(c)
      PROVE  Contract!AllowProbe(c)
  BY <1>2 DEF ForwardProbe, Forward, UpCooledDown, Contract!AllowProbe, Contract!Depart, Contract!CooledDown
<1>3. ASSUME NEW c \in Workers, FastFail(c)
      PROVE  UNCHANGED Contract!vars
  BY <1>3 DEF FastFail, upBreaker, forwards
<1>4. ASSUME NEW c \in Workers, Answered(c)
      PROVE  Contract!RecordSuccess(c)
  BY <1>4 DEF Answered, Returned, Contract!RecordSuccess, Contract!Report
<1>5. ASSUME NEW c \in Workers, TryNextTarget(c)
      PROVE  UNCHANGED Contract!vars
  BY <1>5 DEF TryNextTarget, upBreaker
<1>6. ASSUME NEW c \in Workers, AllTargetsFailed(c)
      PROVE  Contract!RecordFailure(c)
  <2>1. Contract!Report(c)
    BY <1>6 DEF AllTargetsFailed, Returned, Contract!Report
  <2>2. UpFailProbe => Contract!FailProbe
    BY DEF UpFailProbe, Contract!FailProbe
  <2>3. UpFailIgnored => Contract!FailIgnored
    BY DEF UpFailIgnored, upBreaker, Contract!FailIgnored
  <2>4. UpFailCounted => Contract!FailCounted
    BY DEF UpFailCounted, Contract!FailCounted
  <2> QED
    BY <1>6, <2>1, <2>2, <2>3, <2>4 DEF AllTargetsFailed, Contract!RecordFailure
<1>7. CASE UpstreamReset
  BY <1>7 DEF UpstreamReset, forwards, Contract!Reset
<1>8. CASE UpstreamTick
  <2>1. ASSUME NEW c \in Workers, Forwarding(c)
        PROVE  upAge[c] < NumTargets * AttemptBound
    <3>1. /\ target[c] \in Nat \ {0} /\ target[c] <= NumTargets
          /\ upAge[c] \in Nat /\ attemptAge[c] \in Nat /\ attemptAge[c] < AttemptBound
          /\ upAge[c] <= (target[c] - 1) * AttemptBound + attemptAge[c]
      BY <1>8, <2>1, TargetsAssumption DEF UpstreamTick, CallInv
    <3>2. (target[c] - 1) * AttemptBound + AttemptBound <= NumTargets * AttemptBound
      BY <3>1, LastTargetTime, TargetsAssumption
    <3>3. (target[c] - 1) * AttemptBound \in Int /\ NumTargets * AttemptBound \in Int
      BY <3>1, TargetsAssumption
    <3> QED
      BY <3>1, <3>2, <3>3, TargetsAssumption
  <2> QED
    BY <1>8, <2>1 DEF UpstreamTick, Contract!Tick
<1>9. CASE UNCHANGED upstreamVars
  BY <1>9 DEF upstreamVars, upBreaker, forwards
<1> QED
  BY <1>1, <1>2, <1>3, <1>4, <1>5, <1>6, <1>7, <1>8, <1>9 DEF UpstreamNext

\* The upstream breaker with its loop over the targets is a breaker with the
\* semantics of the source-level one, its calls bounded by the number of
\* targets times the time-out of one (circuit_breaker.py:34).
THEOREM ImplementsBreaker == UpstreamSpec => Contract!Spec
<1>1. UpstreamInit => Contract!Init
  BY DEF UpstreamInit, Contract!Init
<1> QED
  BY <1>1, CallInit, CallStep, BreakerStep, PTL DEF UpstreamSpec, Contract!Spec

-----------------------------------------------------------------------------
(* What the contract gives.  Its theorem on the probe holds here, with the *)
(* time of a whole forwarding for that of a call.                          *)

Calls == INSTANCE CircuitBreakerProofs WITH
    Callers <- Workers, Threshold <- UpThreshold, OpenTimeout <- UpOpenTimeout,
    CallBound <- NumTargets * AttemptBound,
    state <- upState, failures <- upFailures, sinceOpen <- upSinceOpen, role <- upRole, age <- upAge

\* Once the breaker has cooled down, the one probe is the only worker that
\* waits for the upstream (circuit_breaker.py:30-33).
THEOREM ProbeWaitsAlone ==
    ASSUME NumTargets * AttemptBound < UpOpenTimeout
    PROVE  UpstreamSpec => []OneWorkerWaits
<1>1. Calls!Spec => []Calls!ProbeAlone
  BY Calls!ProbeDecides, TargetsAssumption, UpstreamAssumption
<1>2. UpstreamSpec => Calls!Spec
  <2>1. Contract!Init => Calls!Init
    BY DEF Contract!Init, Calls!Init
  <2>2. [Contract!Next]_(Contract!vars) => [Calls!Next]_(Calls!vars)
    BY DEF Contract!Next, Contract!vars, Contract!AllowClosed, Contract!AllowProbe, Contract!Depart,
           Contract!CooledDown, Contract!RecordSuccess, Contract!RecordFailure, Contract!Report,
           Contract!FailProbe, Contract!FailIgnored, Contract!FailCounted, Contract!Reset,
           Contract!Tick, Contract!InFlight, Calls!Next, Calls!vars, Calls!AllowClosed,
           Calls!AllowProbe, Calls!Depart, Calls!CooledDown, Calls!RecordSuccess,
           Calls!RecordFailure, Calls!Report, Calls!FailProbe, Calls!FailIgnored,
           Calls!FailCounted, Calls!Reset, Calls!Tick, Calls!InFlight
  <2> QED
    BY <2>1, <2>2, ImplementsBreaker, PTL DEF Contract!Spec, Calls!Spec
<1>3. Calls!ProbeAlone => OneWorkerWaits
  <2> SUFFICES ASSUME Calls!ProbeAlone, upState = "half-open"
               PROVE  Cardinality({c \in Workers : Forwarding(c)}) = 1
    BY DEF OneWorkerWaits
  <2>1. PICK c \in Workers : upRole[c] = "probe" /\ \A d \in Workers \ {c} : ~Forwarding(d)
    BY DEF Calls!ProbeAlone, Calls!InFlight, Forwarding
  <2>2. {d \in Workers : Forwarding(d)} = {c}
    BY <2>1 DEF Forwarding
  <2> QED
    BY <2>2, FS_Singleton
<1> QED
  BY <1>1, <1>2, <1>3, PTL

-----------------------------------------------------------------------------
(* With a target that always answers no forwarding gets past it.           *)

BeforeReliable ==
    \A r \in reliable : \A c \in Workers : target[c] <= r

ServingInv == CallInv /\ reliable \subseteq Targets /\ BeforeReliable /\ BackupKeepsServing

LEMMA ServingStep == ServingInv /\ [UpstreamNext]_upstreamVars => ServingInv'
<1> SUFFICES ASSUME ServingInv, [UpstreamNext]_upstreamVars PROVE ServingInv'
  OBVIOUS
<1>0. CallInv' /\ reliable' = reliable
  BY CallStep DEF ServingInv, UpstreamNext, ForwardClosed, ForwardProbe, FastFail, Answered, TryNextTarget,
                  AllTargetsFailed, UpstreamReset, UpstreamTick, upstreamVars
<1> USE <1>0, TargetsAssumption DEF ServingInv, BeforeReliable, BackupKeepsServing, Targets, CallInv
<1>1. ASSUME NEW c \in Workers, ForwardClosed(c) PROVE ServingInv'
  BY <1>1 DEF ForwardClosed, Forward, upBreaker
<1>2. ASSUME NEW c \in Workers, ForwardProbe(c) PROVE ServingInv'
  BY <1>2 DEF ForwardProbe, Forward
<1>3. ASSUME NEW c \in Workers, FastFail(c) PROVE ServingInv'
  BY <1>3 DEF FastFail, upBreaker, forwards
<1>4. ASSUME NEW c \in Workers, Answered(c) PROVE ServingInv'
  BY <1>4 DEF Answered, Returned
<1>5. ASSUME NEW c \in Workers, TryNextTarget(c) PROVE ServingInv'
  <2>1. /\ target[c] \in Nat /\ target[c] \notin reliable /\ upState' = upState
        /\ target' = [target EXCEPT ![c] = target[c] + 1]
    BY <1>5 DEF TryNextTarget, AttemptFails, upBreaker
  <2>2. ASSUME NEW r \in reliable, NEW d \in Workers PROVE target'[d] <= r
    <3>1. r \in Nat /\ target[c] <= r /\ target[c] # r /\ target[d] <= r
      BY <2>1
    <3> QED
      BY <2>1, <3>1
  <2> QED
    BY <1>0, <2>1, <2>2
<1>6. ASSUME NEW c \in Workers, AllTargetsFailed(c) PROVE ServingInv'
  <2>1. reliable = {}
    BY <1>6 DEF AllTargetsFailed, AttemptFails
  <2> QED
    BY <2>1
<1>7. CASE UpstreamReset
  BY <1>7 DEF UpstreamReset, forwards
<1>8. CASE UpstreamTick
  BY <1>8 DEF UpstreamTick
<1>9. CASE UNCHANGED upstreamVars
  BY <1>9 DEF upstreamVars, upBreaker, forwards
<1> QED
  BY <1>1, <1>2, <1>3, <1>4, <1>5, <1>6, <1>7, <1>8, <1>9 DEF UpstreamNext

\* However many targets fail, before or after it, and however the forwardings
\* interleave, one target that answers keeps the breaker closed
\* (query_upstream_reply, detectors.py:447-449).
THEOREM OneTargetIsEnough == UpstreamSpec => []BackupKeepsServing
<1>1. UpstreamInit => ServingInv
  BY CallInit, TargetsAssumption DEF UpstreamInit, ServingInv, BeforeReliable, BackupKeepsServing, Targets
<1>2. ServingInv => BackupKeepsServing
  BY DEF ServingInv
<1> QED
  BY <1>1, <1>2, ServingStep, PTL DEF UpstreamSpec

-----------------------------------------------------------------------------
(* The sources and the degradation window.                                 *)

\* The failure count alone is not inductive: closed means below the threshold.
TypeInv ==
    /\ TypeOK
    /\ \A s \in Sources : breaker[s].state = "closed" => breaker[s].failures < Threshold

\* What recording does to a breaker: it stays a breaker and is not half-open.
LEMMA RecordedBreaker ==
    ASSUME NEW b \in Breaker, b.state = "closed" => b.failures < Threshold, NEW ok \in BOOLEAN
    PROVE  LET r == IF ok THEN Succeeded(b) ELSE Failed(b)
           IN /\ r \in Breaker /\ r.state # "half-open"
              /\ r.state = "closed" => r.failures < Threshold
<1>1. Succeeded(b) \in Breaker /\ Succeeded(b).state = "closed" /\ Succeeded(b).failures = 0
  <2> DEFINE x == [b EXCEPT !.state = "closed"]
             y == [x EXCEPT !.failures = 0]
  <2>1. x \in Breaker /\ x.state = "closed"
    BY DEF Breaker
  <2>2. ASSUME NEW z \in Breaker, z.state = "closed"
        PROVE  LET w == [z EXCEPT !.failures = 0]
               IN w \in Breaker /\ w.state = "closed" /\ w.failures = 0
    BY <2>2, ConstantsAssumption DEF Breaker
  <2>3. Succeeded(b) = y
    BY Zenon DEF Succeeded
  <2> HIDE DEF x
  <2>4. y \in Breaker /\ y.state = "closed" /\ y.failures = 0
    BY <2>1, <2>2
  <2> QED
    BY <2>3, <2>4
<1>2. Opened \in Breaker /\ Opened.state = "open"
  BY ConstantsAssumption DEF Opened, Breaker
<1>3. CASE b.state = "open"
  BY <1>1, <1>3, ConstantsAssumption DEF Failed
<1>4. CASE b.state = "half-open" \/ (b.state = "closed" /\ b.failures + 1 >= Threshold)
  BY <1>1, <1>2, <1>4, ConstantsAssumption DEF Failed
<1>5. CASE b.state = "closed" /\ b.failures + 1 < Threshold
  <2> DEFINE r == [b EXCEPT !.failures = @ + 1]
  <2>1. r \in Breaker /\ r.state = "closed" /\ r.failures < Threshold
    BY <1>5, ConstantsAssumption DEF Breaker
  <2>2. Failed(b) = r
    BY <1>5, ConstantsAssumption DEF Failed, Breaker
  <2> QED
    BY <1>1, <2>1, <2>2, ConstantsAssumption
<1> QED
  BY <1>3, <1>4, <1>5, ConstantsAssumption DEF Breaker

LEMMA TypeInit == Init => TypeInv
BY ConstantsAssumption DEF Init, TypeInv, TypeOK, Fresh, Breaker, Answers

LEMMA TypeStep == TypeInv /\ [Next]_vars => TypeInv'
<1> SUFFICES ASSUME TypeInv, [Next]_vars
             PROVE  TypeInv'
  OBVIOUS
<1> USE ConstantsAssumption DEF TypeInv, TypeOK, window, config, thread, Answers, Goto, Return
<1>1. ASSUME NEW t \in Threads, BeginSkipped(t)
      PROVE  TypeInv'
  BY <1>1 DEF BeginSkipped
<1>2. ASSUME NEW t \in Threads, NEW k \in {"domain", "ip"}, Begin(t, k)
      PROVE  TypeInv'
  BY <1>2 DEF Begin
<1>3. ASSUME NEW t \in Threads, NEW s \in Sources, Select(t, s)
      PROVE  TypeInv'
  <2>1. Admitted(breaker[s]) \in Breaker
        /\ (Admitted(breaker[s]).state = "closed" => Admitted(breaker[s]).failures < Threshold)
    BY DEF Admitted, Breaker
  <2>2. CASE Allows(breaker[s])
    <3>1. breaker' = [breaker EXCEPT ![s] = Admitted(breaker[s])]
      BY <1>3, <2>2 DEF Select
    <3> HIDE DEF Breaker
    <3>2. breaker' \in [Sources -> Breaker]
          /\ \A r \in Sources : breaker'[r].state = "closed" => breaker'[r].failures < Threshold
      BY <2>1, <3>1
    <3> QED
      BY <1>3, <2>2, <3>2 DEF Select
  <2>3. CASE ~Allows(breaker[s])
    BY <1>3, <2>3 DEF Select
  <2> QED
    BY <2>2, <2>3
<1>4. ASSUME NEW t \in Threads, Selected(t)
      PROVE  TypeInv'
  BY <1>4 DEF Selected
<1>5. ASSUME NEW t \in Threads, NEW s \in Sources, NEW ok \in BOOLEAN, Record(t, s, ok)
      PROVE  TypeInv'
  <2> DEFINE r == IF ok THEN Succeeded(breaker[s]) ELSE Failed(breaker[s])
  <2>1. r \in Breaker /\ (r.state = "closed" => r.failures < Threshold)
    BY RecordedBreaker
  <2>2. breaker' = [breaker EXCEPT ![s] = r]
    BY <1>5 DEF Record
  <2> HIDE DEF r
  <2>3. /\ breaker' \in [Sources -> Breaker]
        /\ \A q \in Sources : breaker'[q].state = "closed" => breaker'[q].failures < Threshold
    BY <2>1, <2>2
  <2> QED
    BY <1>5, <2>3 DEF Record
<1>6. ASSUME NEW t \in Threads, Recorded(t)
      PROVE  TypeInv'
  BY <1>6 DEF Recorded
<1>7. ASSUME NEW t \in Threads, RecordFailsafe(t)
      PROVE  TypeInv'
  BY <1>7 DEF RecordFailsafe
<1>8. ASSUME NEW t \in Threads, AnswerFailsafe(t)
      PROVE  TypeInv'
  BY <1>8 DEF AnswerFailsafe
<1>9. ASSUME NEW t \in Threads, RecordVerdict(t)
      PROVE  TypeInv'
  BY <1>9 DEF RecordVerdict
<1>10. CASE SetMode
  BY <1>10 DEF SetMode
<1>11. CASE Reset
  BY <1>11 DEF Reset, Fresh, Breaker
<1>12. CASE Tick
  <2>1. ASSUME NEW s \in Sources
        PROVE  Older(breaker[s]) \in Breaker
               /\ Older(breaker[s]).state = breaker[s].state
               /\ Older(breaker[s]).failures = breaker[s].failures
    BY DEF Older, Breaker
  <2>2. /\ breaker' \in [Sources -> Breaker]
        /\ \A s \in Sources : breaker'[s].state = "closed" => breaker'[s].failures < Threshold
    BY <1>12, <2>1 DEF Tick
  <2> QED
    BY <1>12, <2>2 DEF Tick
<1>13. CASE UNCHANGED vars
  BY <1>13 DEF vars
<1> QED
  BY <1>1, <1>2, <1>3, <1>4, <1>5, <1>6, <1>7, <1>8, <1>9, <1>10, <1>11, <1>12, <1>13
     DEF Next, Ask, Proceed

\* Breakers, window and threads stay well typed; in particular no breaker
\* counts past its threshold while several queries record into it.
THEOREM TypeCorrect == Spec => []TypeOK
<1>1. TypeInv => TypeOK
  BY DEF TypeInv
<1> QED
  BY <1>1, TypeInit, TypeStep, PTL DEF Spec

-----------------------------------------------------------------------------
(* No breaker is left half-open with nobody to record its probe.           *)

LEMMA AskedStep == TypeInv /\ HalfOpenIsAsked /\ [Next]_vars => HalfOpenIsAsked'
<1> SUFFICES ASSUME TypeInv, HalfOpenIsAsked, [Next]_vars
             PROVE  HalfOpenIsAsked'
  OBVIOUS
<1> USE DEF HalfOpenIsAsked, TypeInv, TypeOK
<1>1. CASE UNCHANGED <<breaker, asked>>
  BY <1>1
<1>2. ASSUME NEW t \in Threads, NEW s \in Sources, Select(t, s)
      PROVE  HalfOpenIsAsked'
  <2>1. CASE Allows(breaker[s])
    <3>1. /\ breaker' = [breaker EXCEPT ![s] = Admitted(breaker[s])]
          /\ asked' = [asked EXCEPT ![t] = asked[t] \cup {s}]
      BY <1>2, <2>1 DEF Select
    <3>2. \A r \in Sources : r # s => breaker'[r] = breaker[r]
      BY <3>1
    <3>3. s \in asked'[t] /\ \A u \in Threads : asked[u] \subseteq asked'[u]
      BY <3>1
    <3> QED
      BY <3>2, <3>3
  <2>2. CASE ~Allows(breaker[s])
    BY <1>1, <1>2, <2>2 DEF Select
  <2> QED
    BY <2>1, <2>2
<1>3. ASSUME NEW t \in Threads, NEW s \in Sources, NEW ok \in BOOLEAN, Record(t, s, ok)
      PROVE  HalfOpenIsAsked'
  <2> DEFINE r == IF ok THEN Succeeded(breaker[s]) ELSE Failed(breaker[s])
  <2>1. r.state # "half-open"
    BY RecordedBreaker
  <2>2. breaker' = [breaker EXCEPT ![s] = r] /\ asked' = [asked EXCEPT ![t] = asked[t] \ {s}]
    BY <1>3 DEF Record
  <2> HIDE DEF r
  <2>3. breaker'[s] = r /\ \A q \in Sources : q # s => breaker'[q] = breaker[q]
    BY <2>2
  <2>4. \A q \in Sources, u \in Threads : q # s /\ q \in asked[u] => q \in asked'[u]
    BY <2>2
  <2> QED
    BY <2>1, <2>3, <2>4
<1>4. CASE Reset
  BY <1>4 DEF Reset, Fresh
<1>5. CASE Tick
  <2>1. \A s \in Sources : breaker'[s].state = breaker[s].state
    BY <1>5 DEF Tick, Older, Breaker
  <2> QED
    BY <1>5, <2>1 DEF Tick, thread
<1> QED
  BY <1>1, <1>2, <1>3, <1>4, <1>5
     DEF Next, Ask, Proceed, BeginSkipped, Begin, Selected, Recorded, RecordFailsafe,
         AnswerFailsafe, RecordVerdict, SetMode, thread, vars

\* However many sources a query probes at once and whatever other queries
\* record meanwhile, a half-open breaker has a query that will record its
\* probe (allows_source, query_threatintel_domain, query_threatintel_ip).
THEOREM ProbesAreRecorded == Spec => []HalfOpenIsAsked
<1>1. Init => HalfOpenIsAsked
  BY DEF Init, Fresh, HalfOpenIsAsked
<1> QED
  BY <1>1, TypeInit, TypeStep, AskedStep, PTL DEF Spec

-----------------------------------------------------------------------------
\* A window that is open only runs down or is closed: fail-safes of other
\* threads cannot lengthen it (record_failsafe).
THEOREM WindowRunsDown == Spec => WindowNotExtended
<1>1. TypeInv /\ [Next]_vars => [remaining > 0 => remaining' <= remaining]_vars
  <2> SUFFICES ASSUME TypeInv, Next, remaining > 0
               PROVE  remaining' <= remaining
    OBVIOUS
  <2>1. remaining \in Int
    BY ConstantsAssumption DEF TypeInv, TypeOK
  <2> QED
    BY <2>1
       DEF Next, Ask, Proceed, BeginSkipped, Begin, Select, Selected, Record, Recorded,
           RecordFailsafe, AnswerFailsafe, RecordVerdict, SetMode, Reset, Tick, window
<1> QED
  BY <1>1, TypeInit, TypeStep, PTL DEF Spec, WindowNotExtended

=============================================================================
