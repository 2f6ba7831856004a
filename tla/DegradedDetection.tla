------------------------- MODULE DegradedDetection -------------------------
(***************************************************************************)
(* Online detection when sources fail: the steps of query_threatintel_     *)
(* domain and query_threatintel_ip (platform/detectors.py) from the test   *)
(* of the degradation window to the answer, with the breakers of all the   *)
(* sources and the window itself (platform/circuit_breaker.py).  Every     *)
(* step is one acquisition of the lock of circuit_breaker; between two     *)
(* steps of a thread the others run.                                       *)
(*                                                                         *)
(* A cache hit returns before any of this state is read (see VerdictCache).*)
(* remaining is degraded_until - now, 0 outside a window; since is the age *)
(* of an opening, saturated at OpenTimeout; the count of consecutive       *)
(* fail-safes saturates at WindowThreshold, beyond which nothing tells its *)
(* values apart.                                                           *)
(***************************************************************************)
EXTENDS Integers, FiniteSets

CONSTANTS
    Threads,            \* detection threads
    Sources,            \* enabled sources that support the query
    Threshold,          \* cb_failure_threshold
    OpenTimeout,        \* cb_open_timeout_s
    WindowThreshold,    \* degrade_threshold
    Window              \* degrade_window_s

ASSUME ConstantsAssumption ==
    /\ Threshold \in Nat \ {0} /\ WindowThreshold \in Nat \ {0}
    /\ OpenTimeout \in Nat /\ Window \in Nat \ {0}
    /\ Sources # {}

VARIABLES
    breaker,    \* _BREAKERS
    count,      \* _DEGRADE["consecutive_failsafes"]
    remaining,  \* _DEGRADE["degraded_until"] - now
    mode,       \* CONFIG.failsafe_mode
    pc,         \* where each thread is
    kind,       \* "domain" or "ip"
    todo,       \* sources allows_source has still to be asked for
    asked,      \* sources that were called and are still to be recorded
    concluded,  \* some source has given a conclusion
    answer      \* what the last query of each thread returned

config == <<mode>>
window == <<count, remaining>>
thread == <<pc, kind, todo, asked, concluded, answer>>
vars == <<breaker, window, config, thread>>

Answers == {"none", "degraded", "released", "intercept", "verdict"}
Breaker == [state : {"closed", "open", "half-open"},
            failures : 0..Threshold, since : 0..OpenTimeout]
Fresh == [state |-> "closed", failures |-> 0, since |-> OpenTimeout]

TypeOK ==
    /\ breaker \in [Sources -> Breaker]
    /\ count \in 0..WindowThreshold
    /\ remaining \in 0..Window
    /\ mode \in {"intercept", "degrade"}
    /\ pc \in [Threads -> {"idle", "select", "record", "failsafe", "verdict", "answer"}]
    /\ kind \in [Threads -> {"domain", "ip"}]
    /\ todo \in [Threads -> SUBSET Sources]
    /\ asked \in [Threads -> SUBSET Sources]
    /\ concluded \in [Threads -> BOOLEAN]
    /\ answer \in [Threads -> Answers]

Init ==
    /\ breaker = [s \in Sources |-> Fresh]
    /\ count = 0 /\ remaining = 0
    /\ mode \in {"intercept", "degrade"}
    /\ pc = [t \in Threads |-> "idle"]
    /\ kind = [t \in Threads |-> "domain"]
    /\ todo = [t \in Threads |-> {}]
    /\ asked = [t \in Threads |-> {}]
    /\ concluded = [t \in Threads |-> FALSE]
    /\ answer = [t \in Threads |-> "none"]

-----------------------------------------------------------------------------
(* One breaker: allows_source, record_success, record_failure.             *)

BugNeverCools(b) == b.state = "closed"      \* an open breaker is never retried

Allows(b) == b.state = "closed" \/ (b.state = "open" /\ b.since >= OpenTimeout)

Admitted(b) == IF b.state = "open" THEN [b EXCEPT !.state = "half-open"] ELSE b

Succeeded(b) == [b EXCEPT !.state = "closed", !.failures = 0]

Opened == [state |-> "open", failures |-> Threshold, since |-> 0]

BugFailedLate(b) ==     \* the early return covers the half-open state too
    IF b.state # "closed" THEN b
    ELSE IF b.failures + 1 >= Threshold THEN Opened
    ELSE [b EXCEPT !.failures = @ + 1]

Failed(b) ==
    IF b.state = "open" THEN b
    ELSE IF b.state = "half-open" \/ b.failures + 1 >= Threshold THEN Opened
    ELSE [b EXCEPT !.failures = @ + 1]

-----------------------------------------------------------------------------
(* A query.                                                                *)

Goto(t, label) == pc' = [pc EXCEPT ![t] = label]

Return(t, a) ==
    /\ Goto(t, "idle")
    /\ answer' = [answer EXCEPT ![t] = a]

\* Domain queries are skipped inside a window; IP queries do not look at it.
BeginSkipped(t) ==
    /\ pc[t] = "idle"
    /\ remaining > 0
    /\ kind' = [kind EXCEPT ![t] = "domain"]
    /\ Return(t, "degraded")
    /\ UNCHANGED <<breaker, window, config, todo, asked, concluded>>

Begin(t, k) ==
    /\ pc[t] = "idle"
    /\ k = "domain" => remaining = 0
    /\ kind' = [kind EXCEPT ![t] = k]
    /\ answer' = [answer EXCEPT ![t] = "none"]
    /\ todo' = [todo EXCEPT ![t] = Sources]
    /\ concluded' = [concluded EXCEPT ![t] = FALSE]
    /\ Goto(t, "select")
    /\ UNCHANGED <<breaker, window, config, asked>>

Select(t, s) ==
    /\ pc[t] = "select"
    /\ s \in todo[t]
    /\ todo' = [todo EXCEPT ![t] = @ \ {s}]
    /\ IF Allows(breaker[s])
         THEN /\ asked' = [asked EXCEPT ![t] = @ \cup {s}]
              /\ breaker' = [breaker EXCEPT ![s] = Admitted(@)]
         ELSE UNCHANGED <<asked, breaker>>
    /\ UNCHANGED <<window, config, pc, kind, concluded, answer>>

\* No source left to call is a fail-safe; otherwise all are called at once
\* and recorded one by one when the last has answered.
Selected(t) ==
    /\ pc[t] = "select"
    /\ todo[t] = {}
    /\ Goto(t, IF asked[t] = {} THEN "failsafe" ELSE "record")
    /\ UNCHANGED <<breaker, window, config, kind, todo, asked, concluded, answer>>

Record(t, s, ok) ==
    /\ pc[t] = "record"
    /\ s \in asked[t]
    /\ asked' = [asked EXCEPT ![t] = @ \ {s}]
    /\ breaker' = [breaker EXCEPT ![s] = IF ok THEN Succeeded(@) ELSE Failed(@)]
    /\ concluded' = [concluded EXCEPT ![t] = @ \/ ok]
    /\ UNCHANGED <<window, config, pc, kind, todo, answer>>

Recorded(t) ==
    /\ pc[t] = "record"
    /\ asked[t] = {}
    /\ Goto(t, IF concluded[t] THEN "verdict" ELSE "failsafe")
    /\ UNCHANGED <<breaker, window, config, kind, todo, asked, concluded, answer>>

BugReopensWindow(t) ==      \* does not look whether a window is open
    /\ pc[t] = "failsafe"
    /\ LET n == IF count < WindowThreshold THEN count + 1 ELSE count
           opens == mode = "degrade" /\ n >= WindowThreshold
       IN /\ count' = IF opens THEN 0 ELSE n
          /\ remaining' = IF opens THEN Window ELSE remaining
    /\ Goto(t, "answer")
    /\ UNCHANGED <<breaker, config, kind, todo, asked, concluded, answer>>

\* record_failsafe: counts in both modes, opens a window only in one.
RecordFailsafe(t) ==
    /\ pc[t] = "failsafe"
    /\ LET n == IF count < WindowThreshold THEN count + 1 ELSE count
           opens == mode = "degrade" /\ n >= WindowThreshold /\ remaining = 0
       IN /\ count' = IF opens THEN 0 ELSE n
          /\ remaining' = IF opens THEN Window ELSE remaining
    /\ Goto(t, "answer")
    /\ UNCHANGED <<breaker, config, kind, todo, asked, concluded, answer>>

\* _failsafe_verdict and _failsafe_verdict_ip look at the mode alone.
AnswerFailsafe(t) ==
    /\ pc[t] = "answer"
    /\ Return(t, IF mode = "degrade" THEN "released" ELSE "intercept")
    /\ UNCHANGED <<breaker, window, config, kind, todo, asked, concluded>>

\* record_verdict ends a window; fusion and the cache follow.
RecordVerdict(t) ==
    /\ pc[t] = "verdict"
    /\ count' = 0
    /\ remaining' = 0
    /\ Return(t, "verdict")
    /\ UNCHANGED <<breaker, config, kind, todo, asked, concluded>>

-----------------------------------------------------------------------------
\* The administrator changes failsafe_mode; a window that is open stays open.
SetMode ==
    /\ mode' \in {"intercept", "degrade"} \ {mode}
    /\ UNCHANGED <<breaker, window, thread>>

Reset ==
    /\ breaker' = [s \in Sources |-> Fresh]
    /\ count' = 0 /\ remaining' = 0
    /\ UNCHANGED <<config, thread>>

Older(b) == [b EXCEPT !.since = IF @ < OpenTimeout THEN @ + 1 ELSE @]

Tick ==
    /\ remaining' = IF remaining > 0 THEN remaining - 1 ELSE 0
    /\ breaker' = [s \in Sources |-> Older(breaker[s])]
    /\ UNCHANGED <<count, config, thread>>

Ask(t) == BeginSkipped(t) \/ \E k \in {"domain", "ip"} : Begin(t, k)

Proceed(t) ==
    \/ \E s \in Sources : Select(t, s) \/ \E ok \in BOOLEAN : Record(t, s, ok)
    \/ Selected(t) \/ Recorded(t)
    \/ RecordFailsafe(t) \/ AnswerFailsafe(t) \/ RecordVerdict(t)

Next == (\E t \in Threads : Ask(t) \/ Proceed(t)) \/ SetMode \/ Reset \/ Tick

\* A query that has begun goes on (adapter calls have time-outs) and time
\* passes; that queries come, and which kind, is up to the clients.
Spec ==
    /\ Init /\ [][Next]_vars
    /\ WF_vars(Tick)
    /\ \A t \in Threads : WF_vars(Proceed(t))

-----------------------------------------------------------------------------
(* Properties.                                                             *)

\* A half-open breaker always has a thread that will record its probe, though
\* one thread probes several sources and records them only when all have
\* answered (circuit_breaker.py:108).
HalfOpenIsAsked ==
    \A s \in Sources : breaker[s].state = "half-open" =>
        \E t \in Threads : s \in asked[t]

\* Fail-safes of other threads during a window never lengthen it
\* (circuit_breaker.py:194-196).
WindowNotExtended == [][remaining > 0 => remaining' <= remaining]_vars

\* If queries go on and the sources answer again, the degradation window and
\* the breakers do not keep each other up: all end closed and the window shut,
\* although a window hides the sources from domain queries and refused sources
\* count towards the next window (circuit_breaker.py:14-22).
TrafficContinues == WF_vars(\E t \in Threads : BeginSkipped(t) \/ Begin(t, "domain"))

SourcesRecover ==
    <>[][\A t \in Threads, s \in Sources : ~Record(t, s, FALSE)]_vars

DetectionRecovers ==
    TrafficContinues /\ SourcesRecover =>
        <>[](remaining = 0 /\ \A s \in Sources : breaker[s].state = "closed")

-----------------------------------------------------------------------------
(* What the comments say and the code does not do.                         *)

Returns(a, t) == answer'[t] = a /\ pc'[t] = "idle" /\ (pc[t] # "idle" \/ answer[t] # a)

\* "degrade: released once the threshold is reached" (circuit_breaker.py:22).
ReleasedOnlyInWindow ==
    [][\A t \in Threads : Returns("released", t) => remaining > 0]_vars

\* The IP post-filter keeps the fail-safe semantics (circuit_breaker.py:23-25).
IpNeverReleased ==
    [][\A t \in Threads : Returns("released", t) => kind[t] # "ip"]_vars

\* "intercept keeps the original fail-safe" (detectors.py:221).
InterceptNeverSkips ==
    [][\A t \in Threads : Returns("degraded", t) => mode = "degrade"]_vars

\* "after the window the threshold counts anew" (circuit_breaker.py:19).
CountsAnewAfterWindow ==
    [][remaining > 0 /\ remaining' = 0 => count' = 0]_vars

=============================================================================
