------------------------- MODULE CircuitBreaker_proofs -------------------------
(***************************************************************************)
(* The safety invariants of CircuitBreaker hold for every configuration    *)
(* and any number of concurrent calls.                                     *)
(***************************************************************************)
EXTENDS CircuitBreaker, TLAPS

(* Why no more probes are admitted: all but the first are counted.         *)
ProbesCounted == state = "HALF_OPEN" => probes = half_open_calls + 1

IInv == TypeOK /\ FailuresAreConsecutive /\ ProbesCounted

(* The cap on the counters lies above the threshold, so a closed circuit   *)
(* counts exactly.                                                         *)
LEMMA CountBounded ==
    ASSUME NEW n \in 0..FailureCap
    PROVE  Count(n) \in 0..FailureCap /\ (n < FailureCap => Count(n) = n + 1)
BY ConfigAssumption DEF ConfigAssumption, Count

(* The circuit starts closed with nothing counted.                         *)
LEMMA Initially == Init => IInv
<1> SUFFICES ASSUME Init PROVE IInv
  OBVIOUS
<1>1. TypeOK
  <2>1. 0 \in 0..FailureCap /\ 0 \in 0..HalfOpenMaxCalls /\ 0 \in 0..(SuccessThreshold - 1)
    BY ConfigAssumption DEF ConfigAssumption
  <2>2. QED BY <2>1 DEF Init, TypeOK
<1>2. FailuresAreConsecutive /\ ProbesCounted
  BY ConfigAssumption DEF ConfigAssumption, Init, FailuresAreConsecutive, ProbesCounted
<1>3. QED BY <1>1, <1>2 DEF IInv

(* Admissions: only the half-open ones count, and as many as are counted.  *)
LEMMA AdmissionKeeps ==
    ASSUME IInv, NEW c \in Calls, AdmitClosed(c) \/ AdmitFirstProbe(c) \/ AdmitProbe(c)
    PROVE  IInv'
<1> USE ConfigAssumption DEF ConfigAssumption, IInv, TypeOK, Admit, counters, history
<1>1. CASE AdmitClosed(c)
  BY <1>1 DEF AdmitClosed, FailuresAreConsecutive, ProbesCounted
<1>2. CASE AdmitFirstProbe(c)
  BY <1>2 DEF AdmitFirstProbe, TransitionTo, FailuresAreConsecutive, ProbesCounted
<1>3. CASE AdmitProbe(c)
  BY <1>3 DEF AdmitProbe, HasRoom, FailuresAreConsecutive, ProbesCounted
<1>4. QED BY <1>1, <1>2, <1>3

(* Successes: they reset the failures exactly when the circuit is or       *)
(* becomes closed.                                                         *)
LEMMA SuccessKeeps ==
    ASSUME IInv, NEW c \in Calls, SucceedClosed(c) \/ SucceedOpen(c) \/ SucceedHalfOpen(c)
    PROVE  IInv'
<1> USE ConfigAssumption DEF ConfigAssumption, IInv, TypeOK, End, counters
<1>1. CASE SucceedClosed(c)
  BY <1>1 DEF SucceedClosed, FailuresAreConsecutive, ProbesCounted
<1>2. CASE SucceedOpen(c)
  BY <1>2 DEF SucceedOpen, FailuresAreConsecutive, ProbesCounted
<1>3. CASE SucceedHalfOpen(c)
  <2>1. CASE success_count + 1 >= SuccessThreshold
    BY <1>3, <2>1 DEF SucceedHalfOpen, TransitionTo, FailuresAreConsecutive, ProbesCounted
  <2>2. CASE ~(success_count + 1 >= SuccessThreshold)
    BY <1>3, <2>2 DEF SucceedHalfOpen, FailuresAreConsecutive, ProbesCounted
  <2>3. QED BY <2>1, <2>2
<1>4. QED BY <1>1, <1>2, <1>3

(* Failures: a closed circuit that stays closed is still below the         *)
(* threshold, any other one is open afterwards.                            *)
LEMMA FailureKeeps ==
    ASSUME IInv, NEW c \in Calls, Fail(c) \/ FailHalfOpen(c)
    PROVE  IInv'
<1> USE ConfigAssumption DEF ConfigAssumption, IInv, TypeOK, End
<1>1. /\ Count(failure_count) \in 0..FailureCap
      /\ failure_count < FailureCap => Count(failure_count) = failure_count + 1
  BY CountBounded
<1>2. /\ Count(streak) \in 0..FailureCap
      /\ streak < FailureCap => Count(streak) = streak + 1
  BY CountBounded
<1>3. CASE Fail(c)
  <2>1. CASE Trips
    BY <1>1, <1>2, <1>3, <2>1
       DEF Fail, NoteFailure, TransitionTo, FailuresAreConsecutive, ProbesCounted
  <2>2. CASE ~Trips
    <3>1. failure_count + 1 < FailureThreshold
      BY <2>2 DEF Trips
    <3>2. /\ UNCHANGED <<state, success_count, half_open_calls, probes>>
          /\ failure_count' = Count(failure_count) /\ streak' = Count(streak)
          /\ cooled' = FALSE /\ running' = running \ {c} /\ state # "HALF_OPEN"
      BY <1>3, <2>2 DEF Fail, NoteFailure
    <3>3. TypeOK'
      BY <1>1, <1>2, <3>2
    <3>4. FailuresAreConsecutive'
      BY <1>1, <1>2, <3>1, <3>2 DEF FailuresAreConsecutive
    <3>5. ProbesCounted'
      BY <3>2 DEF ProbesCounted
    <3>6. QED BY <3>3, <3>4, <3>5
  <2>3. QED BY <2>1, <2>2
<1>4. CASE FailHalfOpen(c)
  BY <1>1, <1>2, <1>4
     DEF FailHalfOpen, NoteFailure, TransitionTo, FailuresAreConsecutive, ProbesCounted
<1>5. QED BY <1>3, <1>4

(* Every step keeps the inductive invariant.                               *)
LEMMA StepKeeps == IInv /\ [Next]_vars => IInv'
<1> SUFFICES ASSUME IInv, [Next]_vars PROVE IInv'
  OBVIOUS
<1>1. CASE CoolDown
  BY <1>1 DEF CoolDown, IInv, TypeOK, FailuresAreConsecutive, ProbesCounted,
              counters, history
<1>2. CASE UNCHANGED vars
  BY <1>2 DEF vars, counters, history, IInv, TypeOK, FailuresAreConsecutive, ProbesCounted
<1>3. QED
  BY AdmissionKeeps, SuccessKeeps, FailureKeeps, <1>1, <1>2 DEF Next, Report

(* In every reachable state of every configuration the inductive invariant *)
(* holds; the properties follow.                                           *)
LEMMA Invariance == Spec => []IInv
BY Initially, StepKeeps, PTL DEF Spec

(* The counters of the breaker stay within their limits.                   *)
THEOREM TypeCorrect == Spec => []TypeOK
<1>1. IInv => TypeOK
  BY DEF IInv
<1>2. QED BY Invariance, <1>1, PTL

(* A closed circuit counts consecutive failures only, below the threshold. *)
THEOREM ConsecutiveCorrect == Spec => []FailuresAreConsecutive
<1>1. IInv => FailuresAreConsecutive
  BY DEF IInv
<1>2. QED BY Invariance, <1>1, PTL

(* At most one call more than half_open_max_calls probes a service that    *)
(* has not recovered.                                                      *)
THEOREM ProbesCorrect == Spec => []ProbesLimited
<1>1. IInv => ProbesLimited
  BY ConfigAssumption DEF ConfigAssumption, IInv, TypeOK, ProbesCounted, ProbesLimited
<1>2. QED BY Invariance, <1>1, PTL

=============================================================================
