--------------------------- MODULE CircuitBreaker ---------------------------
(***************************************************************************)
(* The breaker of one online threat-intelligence source, and the detection *)
(* threads that call the source through it (platform/circuit_breaker.py,   *)
(* used by query_threatintel_domain and query_threatintel_ip).             *)
(*                                                                         *)
(* A thread asks allows_source, calls the source without holding the lock, *)
(* and reports the outcome with record_success or record_failure some time *)
(* later: by then other threads may have moved the breaker.  Time is kept  *)
(* as ages: sinceOpen is now - opened_at, saturated at OpenTimeout (the    *)
(* code only compares the two), and age[c] is how long the call of c has   *)
(* been in flight.  A call returns within CallBound.  A breaker that does  *)
(* not exist yet behaves exactly as a closed one with no failures.         *)
(***************************************************************************)
EXTENDS Integers

CONSTANTS
    Callers,        \* detection threads that may have a call in flight
    Threshold,      \* cb_failure_threshold (0, which disables it, excluded)
    OpenTimeout,    \* cb_open_timeout_s
    CallBound       \* longest time from allows_source to record_*

ASSUME ThresholdAssumption == Threshold \in Nat \ {0}
ASSUME TimeoutAssumption == OpenTimeout \in Nat /\ CallBound \in Nat

VARIABLES
    state,          \* _BREAKERS[name]["state"]
    failures,       \* _BREAKERS[name]["failures"]
    sinceOpen,      \* now - _BREAKERS[name]["opened_at"], saturated
    role,           \* what each caller was admitted as
    age             \* age of each caller's call

vars == <<state, failures, sinceOpen, role, age>>

InFlight(c) == role[c] # "idle"

TypeOK ==
    /\ state \in {"closed", "open", "half-open"}
    /\ failures \in 0..Threshold
    /\ sinceOpen \in 0..OpenTimeout
    /\ role \in [Callers -> {"idle", "normal", "probe"}]
    /\ age \in [Callers -> 0..CallBound]

Init ==
    /\ state = "closed"
    /\ failures = 0
    /\ sinceOpen = OpenTimeout
    /\ role = [c \in Callers |-> "idle"]
    /\ age = [c \in Callers |-> 0]

-----------------------------------------------------------------------------
(* allows_source.  A refused caller changes nothing and skips the source.  *)

Depart(c, as) ==
    /\ role[c] = "idle"
    /\ role' = [role EXCEPT ![c] = as]
    /\ age' = [age EXCEPT ![c] = 0]

AllowClosed(c) ==
    /\ state = "closed"
    /\ Depart(c, "normal")
    /\ UNCHANGED <<state, failures, sinceOpen>>

BugNoCooling == TRUE    \* the elapsed time is not looked at

CooledDown == sinceOpen >= OpenTimeout

BugProbeNotMarked(c) ==     \* the half-open state is not stored
    /\ state = "open"
    /\ CooledDown
    /\ Depart(c, "probe")
    /\ UNCHANGED <<state, failures, sinceOpen>>

AllowProbe(c) ==
    /\ state = "open"
    /\ CooledDown
    /\ state' = "half-open"
    /\ Depart(c, "probe")
    /\ UNCHANGED <<failures, sinceOpen>>

-----------------------------------------------------------------------------
(* record_success and record_failure: no guard looks at who is reporting.  *)

Report(c) ==
    /\ InFlight(c)
    /\ role' = [role EXCEPT ![c] = "idle"]
    /\ age' = [age EXCEPT ![c] = 0]

BugSuccessOnlyClears(c) ==  \* clears the count, leaves the state
    /\ Report(c)
    /\ failures' = 0
    /\ UNCHANGED <<state, sinceOpen>>

RecordSuccess(c) ==
    /\ Report(c)
    /\ state' = "closed"
    /\ failures' = 0
    /\ UNCHANGED sinceOpen

\* Half-open: the probe failed, open again and restart the cooling period.
FailProbe ==
    /\ state = "half-open"
    /\ state' = "open"
    /\ sinceOpen' = 0
    /\ failures' = Threshold

\* Open: the early return of line 134.
FailIgnored ==
    /\ state = "open"
    /\ UNCHANGED <<state, failures, sinceOpen>>

FailCounted ==
    /\ state = "closed"
    /\ failures' = failures + 1
    /\ IF failures + 1 >= Threshold
         THEN state' = "open" /\ sinceOpen' = 0
         ELSE UNCHANGED <<state, sinceOpen>>

RecordFailure(c) ==
    /\ Report(c)
    /\ FailProbe \/ FailIgnored \/ FailCounted

-----------------------------------------------------------------------------
\* reset_all: the breaker is forgotten, the calls in flight are not.
Reset ==
    /\ state' = "closed"
    /\ failures' = 0
    /\ sinceOpen' = OpenTimeout
    /\ UNCHANGED <<role, age>>

\* A second passes; no call outlives CallBound.
Tick ==
    /\ \A c \in Callers : InFlight(c) => age[c] < CallBound
    /\ sinceOpen' = IF sinceOpen < OpenTimeout THEN sinceOpen + 1 ELSE sinceOpen
    /\ age' = [c \in Callers |-> IF InFlight(c) THEN age[c] + 1 ELSE age[c]]
    /\ UNCHANGED <<state, failures, role>>

Next ==
    \/ \E c \in Callers :
          \/ AllowClosed(c) \/ AllowProbe(c)
          \/ RecordSuccess(c) \/ RecordFailure(c)
    \/ Reset
    \/ Tick

Spec == Init /\ [][Next]_vars

(***************************************************************************)
(* Fairness.  Time passes, and every adapter call ends (each adapter has a *)
(* time-out and pool.map waits for all of them).  Nothing makes clients    *)
(* ask: continuing traffic is a hypothesis of the property that needs it.  *)
(***************************************************************************)
FairSpec ==
    /\ Spec
    /\ WF_vars(Tick)
    /\ \A c \in Callers : WF_vars(RecordSuccess(c) \/ RecordFailure(c))

TrafficContinues == WF_vars(\E c \in Callers : AllowProbe(c))

SourceRecovers == <>[][\A c \in Callers : ~RecordFailure(c)]_vars

-----------------------------------------------------------------------------
(* Properties.                                                             *)

\* At most one probe is in flight, whatever late answers do to the breaker
\* (lines 94 and 108).  Needs CallBound < OpenTimeout.
SingleProbe ==
    \A c, d \in Callers : role[c] = "probe" /\ role[d] = "probe" => c = d

\* While half-open the probe is the only call in flight, so that the verdict
\* on the breaker is the probe's and not that of a call made before the
\* source was cut off; and it is in flight, so the breaker is not stuck
\* refusing everyone (line 108).  Needs CallBound < OpenTimeout.
ProbeAlone ==
    state = "half-open" =>
        \E c \in Callers : /\ role[c] = "probe"
                           /\ \A d \in Callers \ {c} : ~InFlight(d)

\* The documented cycle (lines 8-11): an open breaker is left by cooling down
\* into half-open, never straight to closed (Reset apart).
OpenLeavesByProbe ==
    [][state = "open" /\ state' = "closed" => Reset]_vars

\* A source that stops failing is back in use for good, if queries go on.
ReturnsToService ==
    TrafficContinues /\ SourceRecovers => <>[](state = "closed")

=============================================================================
