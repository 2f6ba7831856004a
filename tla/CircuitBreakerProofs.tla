------------------------ MODULE CircuitBreakerProofs ------------------------
(***************************************************************************)
(* Proofs about CircuitBreaker for every set of callers, every threshold   *)
(* and all time-outs.                                                      *)
(***************************************************************************)
EXTENDS CircuitBreaker, TLAPS

-----------------------------------------------------------------------------
(* The type invariant is not inductive alone: the count must stay below    *)
(* the threshold while the breaker is closed, or the next failure leaves   *)
(* the range.                                                              *)

BelowThreshold == state = "closed" => failures < Threshold

TypeInv == TypeOK /\ BelowThreshold

LEMMA TypeInit == Init => TypeInv
BY ThresholdAssumption, TimeoutAssumption
   DEF Init, TypeInv, TypeOK, BelowThreshold

LEMMA TypeStep == TypeInv /\ [Next]_vars => TypeInv'
<1> SUFFICES ASSUME TypeInv, [Next]_vars
             PROVE  TypeInv'
  OBVIOUS
<1> USE ThresholdAssumption, TimeoutAssumption DEF TypeInv, TypeOK, BelowThreshold
<1>1. ASSUME NEW c \in Callers, AllowClosed(c)
      PROVE  TypeInv'
  BY <1>1 DEF AllowClosed, Depart
<1>2. ASSUME NEW c \in Callers, AllowProbe(c)
      PROVE  TypeInv'
  BY <1>2 DEF AllowProbe, Depart
<1>3. ASSUME NEW c \in Callers, RecordSuccess(c)
      PROVE  TypeInv'
  BY <1>3 DEF RecordSuccess, Report
<1>4. ASSUME NEW c \in Callers, RecordFailure(c)
      PROVE  TypeInv'
  <2>1. role' \in [Callers -> {"idle", "normal", "probe"}] /\ age' \in [Callers -> 0..CallBound]
    BY <1>4 DEF RecordFailure, Report
  <2>2. CASE FailProbe
    BY <2>1, <2>2 DEF FailProbe
  <2>3. CASE FailIgnored
    BY <2>1, <2>3 DEF FailIgnored
  <2>4. CASE FailCounted
    BY <2>1, <2>4 DEF FailCounted
  <2> QED
    BY <1>4, <2>2, <2>3, <2>4 DEF RecordFailure
<1>5. CASE Reset
  BY <1>5 DEF Reset
<1>6. CASE Tick
  BY <1>6 DEF Tick, InFlight
<1>7. CASE UNCHANGED vars
  BY <1>7 DEF vars
<1> QED
  BY <1>1, <1>2, <1>3, <1>4, <1>5, <1>6, <1>7 DEF Next

\* Every reachable state of the breaker is well typed: in particular the
\* failure count never passes the threshold (record_failure).
THEOREM TypeCorrect == Spec => []TypeOK
<1>1. TypeInv => TypeOK
  BY DEF TypeInv
<1> QED
  BY <1>1, TypeInit, TypeStep, PTL DEF Spec

-----------------------------------------------------------------------------
(* Why late answers cannot disturb a probe when calls are shorter than the *)
(* cooling period: while the breaker is open every call in flight is at    *)
(* least as old as the opening, so that none is left when it has cooled.   *)

CallsPredateOpening ==
    state = "open" => \A c \in Callers : InFlight(c) => age[c] >= sinceOpen

ProbeInv ==
    /\ TypeInv
    /\ CallsPredateOpening
    /\ ProbeAlone
    /\ SingleProbe

LEMMA ProbeInit == Init => ProbeInv
BY TypeInit, TimeoutAssumption
   DEF Init, ProbeInv, CallsPredateOpening, ProbeAlone, SingleProbe, InFlight

LEMMA ProbeStep ==
    ASSUME CallBound < OpenTimeout, ProbeInv, [Next]_vars
    PROVE  ProbeInv'
<1> USE ThresholdAssumption, TimeoutAssumption
<1>0. TypeInv /\ TypeInv'
  BY TypeStep DEF ProbeInv
<1> USE <1>0 DEF ProbeInv, CallsPredateOpening, ProbeAlone, SingleProbe, InFlight
<1>1. ASSUME NEW c \in Callers, AllowClosed(c)
      PROVE  ProbeInv'
  BY <1>1 DEF AllowClosed, Depart, TypeInv, TypeOK
<1>2. ASSUME NEW c \in Callers, AllowProbe(c)
      PROVE  ProbeInv'
  <2>1. \A d \in Callers : ~InFlight(d)
    BY <1>2 DEF AllowProbe, CooledDown, TypeInv, TypeOK
  <2> QED
    BY <1>2, <2>1 DEF AllowProbe, Depart, TypeInv, TypeOK
<1>3. ASSUME NEW c \in Callers, RecordSuccess(c)
      PROVE  ProbeInv'
  BY <1>3 DEF RecordSuccess, Report, TypeInv, TypeOK
<1>4. ASSUME NEW c \in Callers, RecordFailure(c)
      PROVE  ProbeInv'
  <2>1. Report(c)
    BY <1>4 DEF RecordFailure
  <2>2. SingleProbe'
    BY <2>1 DEF Report, TypeInv, TypeOK
  <2>3. \A d \in Callers : InFlight(d)' => InFlight(d) /\ age'[d] = age[d] /\ age[d] \in 0..CallBound
    BY <2>1 DEF Report, TypeInv, TypeOK
  <2>4. CASE FailProbe
    BY <2>2, <2>3, <2>4 DEF FailProbe, TypeInv, TypeOK
  <2>5. CASE FailIgnored
    BY <2>2, <2>3, <2>5 DEF FailIgnored, TypeInv, TypeOK
  <2>6. CASE FailCounted
    BY <2>2, <2>3, <2>6 DEF FailCounted, TypeInv, TypeOK
  <2> QED
    BY <1>4, <2>4, <2>5, <2>6 DEF RecordFailure
<1>5. CASE Reset
  BY <1>5 DEF Reset
<1>6. CASE Tick
  BY <1>6 DEF Tick, TypeInv, TypeOK
<1>7. CASE UNCHANGED vars
  BY <1>7 DEF vars
<1> QED
  BY <1>1, <1>2, <1>3, <1>4, <1>5, <1>6, <1>7 DEF Next

\* When every call is shorter than the cooling period, a half-open breaker
\* has its probe in flight and nothing else: the answer that closes or
\* reopens it is the probe's (allows_source, record_success, record_failure).
THEOREM ProbeDecides ==
    ASSUME CallBound < OpenTimeout
    PROVE  Spec => []ProbeAlone
<1>1. ProbeInv /\ [Next]_vars => ProbeInv'
  BY ProbeStep
<1>2. ProbeInv => ProbeAlone
  BY DEF ProbeInv
<1> QED
  BY <1>1, <1>2, ProbeInit, PTL DEF Spec

\* Under the same bound two probes of one source never overlap (line 94).
THEOREM OneProbeAtATime ==
    ASSUME CallBound < OpenTimeout
    PROVE  Spec => []SingleProbe
<1>1. ProbeInv /\ [Next]_vars => ProbeInv'
  BY ProbeStep
<1>2. ProbeInv => SingleProbe
  BY DEF ProbeInv
<1> QED
  BY <1>1, <1>2, ProbeInit, PTL DEF Spec

=============================================================================
