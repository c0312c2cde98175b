----------------------------- MODULE CircuitBreaker -----------------------------
(***************************************************************************)
(* The circuit breaker of one external service in one process:             *)
(* app/core/circuit_breaker.py.  Every decision is made under a            *)
(* threading.Lock, so a step of the model is one locked section; calls to  *)
(* the service run outside the lock, overlap, and report when they end,    *)
(* whatever state the circuit has reached by then.                         *)
(***************************************************************************)
EXTENDS Integers

CONSTANTS
    Calls,             \* concurrent users of the breaker
    FailureThreshold,  \* failure_threshold
    SuccessThreshold,  \* success_threshold
    HalfOpenMaxCalls,  \* half_open_max_calls
    FailureCap         \* bound on failure_count, which only CLOSED resets

ASSUME ConfigAssumption ==
    /\ FailureThreshold \in Nat \ {0}
    /\ SuccessThreshold \in Nat \ {0}
    /\ HalfOpenMaxCalls \in Nat
    /\ FailureCap \in Nat /\ FailureCap >= FailureThreshold

VARIABLES
    state,            \* "CLOSED", "OPEN" or "HALF_OPEN"
    failure_count,
    success_count,
    half_open_calls,
    cooled,           \* timeout_seconds have passed since last_failure_time
    running,          \* calls that were admitted and have not ended
    streak,           \* history: failures reported since the last success
    probes            \* history: calls admitted since the circuit half-opened

counters == <<failure_count, success_count, half_open_calls>>
history == <<streak, probes>>
vars == <<state, counters, cooled, running, history>>

-----------------------------------------------------------------------------
(* Fault: the count of the previous half-open period is kept. *)
TransitionKeepingProbes(new) ==
    /\ state' = new
    /\ half_open_calls' = half_open_calls
    /\ success_count' = IF new = "OPEN" THEN success_count ELSE 0

(* _transition_to_sync; it leaves failure_count alone unless new = CLOSED, *)
(* which the callers below write.                                          *)
TransitionTo(new) ==
    /\ state' = new
    /\ half_open_calls' = IF new = "HALF_OPEN" THEN 0 ELSE half_open_calls
    /\ success_count' = IF new = "OPEN" THEN success_count ELSE 0

Admit(c) == running' = running \cup {c}

(* _check_can_execute_sync, CLOSED *)
AdmitClosed(c) ==
    /\ c \notin running /\ state = "CLOSED"
    /\ Admit(c)
    /\ UNCHANGED <<state, counters, cooled, history>>

(* _check_can_execute_sync, OPEN and the timeout has passed: this call     *)
(* probes the service and is not counted in half_open_calls.               *)
AdmitFirstProbe(c) ==
    /\ c \notin running /\ state = "OPEN" /\ cooled
    /\ TransitionTo("HALF_OPEN")
    /\ Admit(c)
    /\ probes' = 1
    /\ UNCHANGED <<failure_count, cooled, streak>>

(* Fault: the limit on probes is off by one. *)
HasRoomForOneMore == half_open_calls <= HalfOpenMaxCalls

HasRoom == half_open_calls < HalfOpenMaxCalls

(* Fault: a probe is admitted without being counted. *)
AdmitProbeUncounted(c) ==
    /\ c \notin running /\ state = "HALF_OPEN" /\ HasRoom
    /\ Admit(c)
    /\ probes' = probes + 1
    /\ UNCHANGED <<state, counters, cooled, streak>>

(* _check_can_execute_sync, HALF_OPEN *)
AdmitProbe(c) ==
    /\ c \notin running /\ state = "HALF_OPEN" /\ HasRoom
    /\ half_open_calls' = half_open_calls + 1
    /\ Admit(c)
    /\ probes' = probes + 1
    /\ UNCHANGED <<state, failure_count, success_count, cooled, streak>>

End(c) == c \in running /\ running' = running \ {c}

(* Fault: a success in CLOSED does not end the streak of failures. *)
SucceedClosedCounting(c) ==
    /\ state = "CLOSED" /\ End(c)
    /\ streak' = 0
    /\ UNCHANGED <<state, counters, cooled, probes>>

(* _record_success_sync, CLOSED *)
SucceedClosed(c) ==
    /\ state = "CLOSED" /\ End(c)
    /\ failure_count' = 0
    /\ streak' = 0
    /\ UNCHANGED <<state, success_count, half_open_calls, cooled, probes>>

(* _record_success_sync, OPEN: a late success changes nothing. *)
SucceedOpen(c) ==
    /\ state = "OPEN" /\ End(c)
    /\ streak' = 0
    /\ UNCHANGED <<state, counters, cooled, probes>>

(* _record_success_sync, HALF_OPEN *)
SucceedHalfOpen(c) ==
    /\ state = "HALF_OPEN" /\ End(c)
    /\ IF success_count + 1 >= SuccessThreshold
       THEN TransitionTo("CLOSED") /\ failure_count' = 0
       ELSE /\ success_count' = success_count + 1
            /\ UNCHANGED <<state, failure_count, half_open_calls>>
    /\ streak' = 0
    /\ UNCHANGED <<cooled, probes>>

Count(n) == IF n < FailureCap THEN n + 1 ELSE n

(* _record_failure_sync, before the state is looked at *)
NoteFailure ==
    /\ failure_count' = Count(failure_count)
    /\ streak' = Count(streak)
    /\ cooled' = FALSE
    /\ UNCHANGED probes

Trips == failure_count + 1 >= FailureThreshold

(* _record_failure_sync, CLOSED or OPEN: a late failure in OPEN restarts   *)
(* the timeout.                                                            *)
Fail(c) ==
    /\ state # "HALF_OPEN" /\ End(c)
    /\ NoteFailure
    /\ IF Trips THEN TransitionTo("OPEN")
                ELSE UNCHANGED <<state, success_count, half_open_calls>>

(* _record_failure_sync, HALF_OPEN: any failure, also one of a call that   *)
(* was admitted before the circuit opened.                                 *)
FailHalfOpen(c) ==
    /\ state = "HALF_OPEN" /\ End(c)
    /\ NoteFailure
    /\ TransitionTo("OPEN")

(* timeout_seconds pass. *)
CoolDown ==
    /\ state = "OPEN" /\ ~cooled
    /\ cooled' = TRUE
    /\ UNCHANGED <<state, counters, running, history>>

-----------------------------------------------------------------------------
Init ==
    /\ state = "CLOSED"
    /\ failure_count = 0 /\ success_count = 0 /\ half_open_calls = 0
    /\ cooled = FALSE
    /\ running = {}
    /\ streak = 0 /\ probes = 0

Report(c) ==
    \/ SucceedClosed(c)
    \/ SucceedOpen(c)
    \/ SucceedHalfOpen(c)
    \/ Fail(c)
    \/ FailHalfOpen(c)

Next ==
    \/ \E c \in Calls :
        \/ AdmitClosed(c)
        \/ AdmitFirstProbe(c)
        \/ AdmitProbe(c)
        \/ Report(c)
    \/ CoolDown

Spec == Init /\ [][Next]_vars

(* Every call ends: the clients of both platforms have timeouts.  No call  *)
(* has to be made, and nothing has to succeed.                             *)
FairSpec == Spec /\ \A c \in Calls : WF_vars(Report(c))

-----------------------------------------------------------------------------
(* Properties *)

(* The type invariant: the counters stay within their limits in every      *)
(* state of the circuit.                                                   *)
TypeOK ==
    /\ state \in {"CLOSED", "OPEN", "HALF_OPEN"}
    /\ failure_count \in 0..FailureCap /\ streak \in 0..FailureCap
    /\ success_count \in 0..(SuccessThreshold - 1)
    /\ half_open_calls \in 0..HalfOpenMaxCalls
    /\ cooled \in BOOLEAN
    /\ running \subseteq Calls
    /\ probes \in Nat

(* A closed circuit has counted exactly the failures since the last        *)
(* success, whatever it went through before, and they are too few to open  *)
(* it: failures from before a recovery never help to open it again.        *)
FailuresAreConsecutive ==
    state = "CLOSED" => failure_count = streak /\ streak < FailureThreshold

(* A service that is being probed gets at most one call more than          *)
(* half_open_max_calls until it has recovered or failed, however often the *)
(* circuit opened and half-opened before.                                  *)
ProbesLimited == state = "HALF_OPEN" => probes <= HalfOpenMaxCalls + 1

(* A half-open circuit that admits no more probes does not stay so: the    *)
(* results of the admitted ones, with those of older calls that come late, *)
(* close or reopen it.                                                     *)
ProbingEnds == (state = "HALF_OPEN" /\ ~HasRoom) ~> (state # "HALF_OPEN")

=============================================================================
