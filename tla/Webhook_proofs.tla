---------------------------- MODULE Webhook_proofs ----------------------------
(***************************************************************************)
(* Proofs about Webhook, for any messages, requests, batches, deliveries   *)
(* and faults.                                                             *)
(***************************************************************************)
EXTENDS Webhook, SequenceTheorems, TLAPS

-----------------------------------------------------------------------------
(* Type correctness *)

(* A request that is not idle has a first message, and the batch without   *)
(* it is a batch again.                                                    *)
LEMMA BatchHead ==
    ASSUME TypeOK, NEW r \in Requests, ~At(r, "idle")
    PROVE  /\ requests[r].batch \in Seq(Messages)
           /\ requests[r].batch # <<>>
           /\ Current(r) \in Messages
           /\ Tail(requests[r].batch) \in Seq(Messages)
  <1> DEFINE b == requests[r].batch
  <1>1. b \in Seq(Messages) /\ b # <<>>
    BY DEF TypeOK, Request, At
  <1>2. Head(b) \in Messages /\ Tail(b) \in Seq(Messages)
    <2> HIDE DEF b
    <2> QED BY <1>1, HeadTailProperties
  <1>3. QED BY <1>1, <1>2 DEF Current

(* Going on to the next message keeps the requests well formed.            *)
LEMMA TurnTyped ==
    ASSUME TypeOK, NEW r \in Requests, ~At(r, "idle"),
           NEW aborted \in BOOLEAN, TurnToNext(r, aborted)
    PROVE  /\ requests' \in [Requests -> Request]
           /\ \A x \in Requests : (At(x, "idle") <=> requests[x].batch = <<>>)'
  <1> DEFINE rest == Tail(requests[r].batch)
             next == IF rest = <<>> THEN Idle
                     ELSE [pc |-> "acquire", gateway |-> requests[r].gateway,
                           batch |-> rest, aborted |-> aborted]
  <1>1. requests' = [requests EXCEPT ![r] = next]
    BY DEF TurnToNext
  <1>2. next \in Request /\ (next.pc = "idle" <=> next.batch = <<>>)
    <2>1. requests[r] \in Request BY DEF TypeOK
    <2>2. QED BY <2>1, BatchHead DEF Request, Idle
  <1> HIDE DEF next
  <1>3. QED BY <1>1, <1>2 DEF TypeOK, At

(* Every reachable state of the webhook is well formed, whatever fails.    *)
THEOREM TypeCorrect == Spec => []TypeOK
  <1>1. Init => TypeOK
    BY ConstantsAssumption DEF Init, TypeOK, Idle, Request, At
  <1>2. TypeOK /\ [Next]_vars => TypeOK'
    <2> SUFFICES ASSUME TypeOK, [Next]_vars PROVE TypeOK' OBVIOUS
    <2> USE ConstantsAssumption
    <2>1. ASSUME NEW r \in Requests, NEW g \in Gateways, NEW batch \in Batches,
                 Receive(r, g, batch)
          PROVE  TypeOK'
      <3>1. batch \in Seq(Messages) /\ batch # <<>>
        <4>1. PICK n \in 1..MaxBatch : batch \in [1..n -> Messages]
          BY DEF Batches
        <4>2. batch \in Seq(Messages) /\ Len(batch) = n
          BY <4>1, SeqDef, LenProperties
        <4>3. QED BY <4>2, EmptySeq
      <3>2. /\ requests' \in [Requests -> Request]
            /\ \A x \in Requests : (At(x, "idle") <=> requests[x].batch = <<>>)'
        <4> DEFINE new == [pc |-> "acquire", gateway |-> g, batch |-> batch,
                           aborted |-> FALSE]
        <4>1. new \in Request /\ new.pc # "idle" /\ new.batch # <<>>
          BY <3>1 DEF Request
        <4>2. requests' = [requests EXCEPT ![r] = new]
          BY <2>1 DEF Receive
        <4> HIDE DEF new
        <4>3. QED BY <4>1, <4>2 DEF TypeOK, At
      <3>3. QED BY <2>1, <3>2 DEF Receive, TypeOK, At
    <2>2. ASSUME NEW r \in Requests, Acquire(r) PROVE TypeOK'
      BY <2>2, BatchHead DEF Acquire, TypeOK, Request, At
    <2>3. ASSUME NEW r \in Requests, Skip(r) PROVE TypeOK'
      BY <2>3, TurnTyped DEF Skip, TypeOK, At
    <2>4. ASSUME NEW r \in Requests, AcquireFails(r) PROVE TypeOK'
      <3>1. CASE TurnToNext(r, TRUE)
        BY <2>4, <3>1, TurnTyped DEF AcquireFails, TypeOK, At
      <3>2. CASE requests' = [requests EXCEPT ![r] = Idle]
        <4>1. Idle \in Request BY DEF Idle, Request
        <4>2. /\ requests' \in [Requests -> Request]
              /\ \A x \in Requests : (At(x, "idle") <=> requests[x].batch = <<>>)'
          BY <3>2, <4>1 DEF TypeOK, At, Idle
        <4>3. QED BY <2>4, <4>2 DEF AcquireFails, TypeOK, At
      <3>3. QED BY <2>4, <3>1, <3>2 DEF AcquireFails
    <2>5. ASSUME NEW r \in Requests, Work(r) PROVE TypeOK'
      <3>1. effects' \in [Messages -> Nat]
        BY <2>5, BatchHead DEF Work, TypeOK, At
      <3>2. /\ requests' \in [Requests -> Request]
            /\ \A x \in Requests : (At(x, "idle") <=> requests[x].batch = <<>>)'
        BY <2>5 DEF Work, TypeOK, Request, At
      <3>3. QED BY <2>5, <3>1, <3>2 DEF Work, TypeOK, At
    <2>6. ASSUME NEW r \in Requests, WorkFails(r) PROVE TypeOK'
      BY <2>6, TurnTyped DEF WorkFails, TypeOK, At
    <2>7. ASSUME NEW r \in Requests, Mark(r) PROVE TypeOK'
      BY <2>7, TurnTyped, BatchHead DEF Mark, TypeOK, At
    <2>8. ASSUME NEW r \in Requests, MarkFails(r) PROVE TypeOK'
      BY <2>8, TurnTyped, BatchHead DEF MarkFails, TypeOK, At
    <2>9. ASSUME NEW r \in Requests, Crash(r) PROVE TypeOK'
      BY <2>9, BatchHead DEF Crash, TypeOK, At, Idle, Request
    <2>10. ASSUME NEW m \in Messages, LeaseEnds(m) \/ CleanUp(m) PROVE TypeOK'
      BY <2>10 DEF LeaseEnds, CleanUp, TypeOK, At
    <2>11. CASE UNCHANGED vars
      BY <2>11 DEF vars, TypeOK, At
    <2>12. QED
      BY <2>1, <2>2, <2>3, <2>4, <2>5, <2>6, <2>7, <2>8, <2>9, <2>10, <2>11
      DEF Next, Step
  <1>3. QED BY <1>1, <1>2, PTL DEF Spec

-----------------------------------------------------------------------------
(* What a step does to the requests *)

(* m is the message of request r or waits in its batch. *)
Listed(r, m) == \E i \in DOMAIN requests[r].batch : requests[r].batch[i] = m

(* Request r lets go of its message; the others stay where they are. *)
LetsGo(r) ==
    /\ requests'[r].pc \in {"idle", "acquire"}
    /\ \A x \in Requests : x # r => requests'[x] = requests[x]
    /\ \A x \in Requests, m \in Messages : Listed(x, m)' => Listed(x, m)

(* Going on to the next message lets go of this one, and lists no other.   *)
LEMMA TurnLetsGo ==
    ASSUME TypeOK, NEW r \in Requests, ~At(r, "idle"),
           NEW aborted, TurnToNext(r, aborted)
    PROVE  LetsGo(r)
  <1> DEFINE b == requests[r].batch
             rest == Tail(b)
             next == IF rest = <<>> THEN Idle
                     ELSE [pc |-> "acquire", gateway |-> requests[r].gateway,
                           batch |-> rest, aborted |-> aborted]
  <1>1. requests' = [requests EXCEPT ![r] = next]
    BY DEF TurnToNext
  <1>2. /\ next.pc \in {"idle", "acquire"}
        /\ next.batch = rest
    BY DEF Idle
  <1>3. ASSUME NEW i \in DOMAIN rest
        PROVE  i + 1 \in DOMAIN b /\ rest[i] = b[i + 1]
    <2>1. b \in Seq(Messages) /\ b # <<>> /\ rest \in Seq(Messages)
      BY BatchHead
    <2> HIDE DEF b
    <2>2. /\ Len(rest) = Len(b) - 1
          /\ \A j \in 1..Len(rest) : rest[j] = b[j + 1]
      BY <2>1, HeadTailProperties
    <2>3. DOMAIN rest = 1..Len(rest) /\ DOMAIN b = 1..Len(b) /\ Len(b) \in Nat
      BY <2>1, LenProperties
    <2>4. QED BY <1>3, <2>2, <2>3
  <1> HIDE DEF next, rest
  <1>4. requests'[r] = next /\ \A x \in Requests : x # r => requests'[x] = requests[x]
    BY <1>1 DEF TypeOK
  <1>5. ASSUME NEW m \in Messages, Listed(r, m)'
        PROVE  Listed(r, m)
    BY <1>2, <1>3, <1>4, <1>5 DEF Listed
  <1>6. ASSUME NEW x \in Requests, x # r, NEW m \in Messages, Listed(x, m)'
        PROVE  Listed(x, m)
    BY <1>4, <1>6 DEF Listed
  <1>7. QED BY <1>2, <1>4, <1>5, <1>6 DEF LetsGo

LEMMA IdleLetsGo ==
    ASSUME TypeOK, NEW r \in Requests, requests' = [requests EXCEPT ![r] = Idle]
    PROVE  LetsGo(r)
  <1>1. requests'[r] = Idle /\ \A x \in Requests : x # r => requests'[x] = requests[x]
    BY DEF TypeOK
  <1>2. DOMAIN <<>> = {}
    OBVIOUS
  <1>3. QED BY <1>1, <1>2 DEF LetsGo, Listed, Idle

(* The ways in which a request lets go of its message.                     *)
LEMMA StepsLettingGo ==
    ASSUME TypeOK, NEW r \in Requests,
           \/ Skip(r) \/ AcquireFails(r) \/ WorkFails(r)
           \/ Mark(r) \/ MarkFails(r) \/ Crash(r)
    PROVE  LetsGo(r)
  <1>1. CASE Skip(r)
    BY <1>1, TurnLetsGo DEF Skip, At
  <1>2. CASE AcquireFails(r)
    BY <1>2, TurnLetsGo, IdleLetsGo DEF AcquireFails, At
  <1>3. CASE WorkFails(r)
    BY <1>3, TurnLetsGo DEF WorkFails, At
  <1>4. CASE Mark(r)
    BY <1>4, TurnLetsGo DEF Mark, At
  <1>5. CASE MarkFails(r)
    BY <1>5, TurnLetsGo DEF MarkFails, At
  <1>6. CASE Crash(r)
    BY <1>6, IdleLetsGo DEF Crash
  <1>7. QED BY <1>1, <1>2, <1>3, <1>4, <1>5, <1>6

(* A request that is not idle lists its message.                           *)
LEMMA HeadListed ==
    ASSUME TypeOK, NEW r \in Requests, ~At(r, "idle")
    PROVE  Current(r) \in Messages /\ Listed(r, Current(r))
  <1> DEFINE b == requests[r].batch
  <1>1. b \in Seq(Messages) /\ b # <<>> /\ Head(b) \in Messages
    BY BatchHead DEF Current
  <1>2. 1 \in DOMAIN b /\ b[1] = Head(b)
    <2> HIDE DEF b
    <2>1. Len(b) \in Nat \ {0} /\ DOMAIN b = 1..Len(b)
      BY <1>1, EmptySeq, LenProperties
    <2>2. QED BY <1>1, <2>1
  <1>3. QED BY <1>1, <1>2 DEF Listed, Current

(* Moving on within a message changes the step of one request only.        *)
LEMMA PcChanges ==
    ASSUME TypeOK, NEW r \in Requests, NEW pc,
           requests' = [requests EXCEPT ![r].pc = pc]
    PROVE  /\ requests'[r].pc = pc
           /\ \A x \in Requests : requests'[x].batch = requests[x].batch
           /\ \A x \in Requests : x # r => requests'[x] = requests[x]
  BY DEF TypeOK, Request

-----------------------------------------------------------------------------
(* One worker *)

(* A lease lasts while its message is worked on, so nobody takes it over.  *)
Leased ==
    \A r \in Requests, m \in Messages :
        WorksOn(r, m) => events[m] = "processing" /\ m \in recent

WorkerInv == TypeOK /\ Leased /\ OneWorker

LEMMA WorkerStep ==
    ASSUME "slow" \notin Faults, WorkerInv, [Next]_vars
    PROVE  Leased' /\ OneWorker'
  <1> USE DEF WorkerInv
  <1>1. ASSUME NEW r \in Requests, LetsGo(r),
               \A m \in Messages : m \in recent => m \in recent',
               \A m \in Messages : events'[m] = events[m] \/ WorksOn(r, m)
        PROVE  Leased' /\ OneWorker'
    <2>1. \A x \in Requests, m \in Messages :
              WorksOn(x, m)' => x # r /\ WorksOn(x, m)
      BY <1>1 DEF LetsGo, WorksOn, Current
    <2>2. QED BY <1>1, <2>1 DEF Leased, OneWorker
  <1>2. ASSUME NEW r \in Requests, NEW g \in Gateways, NEW batch \in Batches,
               Receive(r, g, batch)
        PROVE  Leased' /\ OneWorker'
    <2>1. \A x \in Requests, m \in Messages : WorksOn(x, m)' => WorksOn(x, m)
      BY <1>2 DEF Receive, TypeOK, WorksOn, Current
    <2>2. QED BY <1>2, <2>1 DEF Receive, Leased, OneWorker
  <1>3. ASSUME NEW r \in Requests, Acquire(r)
        PROVE  Leased' /\ OneWorker'
    <2> DEFINE m == Current(r)
    <2>1. m \in Messages
      BY <1>3, BatchHead DEF Acquire, At
    <2>2. \A x \in Requests : ~WorksOn(x, m)
      BY <1>3, <2>1 DEF Acquire, Stale, Leased
    <2>3. \A x \in Requests, n \in Messages :
              WorksOn(x, n)' => (x = r /\ n = m) \/ (n # m /\ WorksOn(x, n))
      BY <1>3, <2>2, PcChanges DEF Acquire, WorksOn, Current
    <2>4. events'[m] = "processing" /\ m \in recent'
      BY <1>3, <2>1 DEF Acquire, TypeOK
    <2>5. \A n \in Messages : n # m =>
              events'[n] = events[n] /\ (n \in recent => n \in recent')
      BY <1>3 DEF Acquire, TypeOK
    <2>6. QED BY <2>3, <2>4, <2>5 DEF Leased, OneWorker
  <1>4. ASSUME NEW r \in Requests, Work(r)
        PROVE  Leased' /\ OneWorker'
    <2>1. \A x \in Requests, m \in Messages : WorksOn(x, m)' => WorksOn(x, m)
      BY <1>4, PcChanges DEF Work, WorksOn, Current, At
    <2>2. QED BY <1>4, <2>1 DEF Work, Leased, OneWorker
  <1>5. ASSUME NEW r \in Requests, Mark(r)
        PROVE  Leased' /\ OneWorker'
    <2>1. LetsGo(r)
      BY <1>5, StepsLettingGo
    <2>2. \A m \in Messages : events'[m] = events[m] \/ WorksOn(r, m)
      BY <1>5 DEF Mark, TypeOK, WorksOn, At
    <2>3. QED BY <1>1, <1>5, <2>1, <2>2 DEF Mark
  <1>6. ASSUME NEW r \in Requests,
               Skip(r) \/ AcquireFails(r) \/ WorkFails(r) \/ MarkFails(r) \/ Crash(r)
        PROVE  Leased' /\ OneWorker'
    <2>1. LetsGo(r)
      BY <1>6, StepsLettingGo
    <2>2. UNCHANGED <<events, recent>>
      BY <1>6 DEF Skip, AcquireFails, WorkFails, MarkFails, Crash
    <2>3. QED BY <1>1, <2>1, <2>2
  <1>7. ASSUME NEW m \in Messages, LeaseEnds(m) \/ CleanUp(m)
        PROVE  Leased' /\ OneWorker'
    <2>1. \A x \in Requests, n \in Messages : WorksOn(x, n)' => WorksOn(x, n)
      BY <1>7 DEF LeaseEnds, CleanUp, WorksOn, Current
    <2>2. \A x \in Requests : ~WorksOn(x, m)
      BY <1>7 DEF LeaseEnds, CleanUp, Leased
    <2>3. \A n \in Messages : n # m =>
              events'[n] = events[n] /\ (n \in recent => n \in recent')
      BY <1>7 DEF LeaseEnds, CleanUp, TypeOK
    <2>4. QED BY <2>1, <2>2, <2>3 DEF Leased, OneWorker
  <1>8. CASE UNCHANGED vars
    BY <1>8 DEF vars, Leased, OneWorker, WorksOn, Current
  <1>9. QED BY <1>2, <1>3, <1>4, <1>5, <1>6, <1>7, <1>8 DEF Next, Step

LEMMA WorkerInvariance ==
    ASSUME "slow" \notin Faults
    PROVE  Spec => []WorkerInv
  <1>1. Init => Leased /\ OneWorker
    BY DEF Init, Leased, OneWorker, WorksOn, Idle
  <1>2. TypeOK /\ Leased /\ OneWorker /\ [Next]_vars => Leased' /\ OneWorker'
    BY WorkerStep DEF WorkerInv
  <1>3. QED BY <1>1, <1>2, TypeCorrect, PTL DEF Spec, WorkerInv

(* Where no work outlasts its lease, a message is in the hands of one      *)
(* request at a time, whatever is delivered and whatever fails.            *)
THEOREM WorkerCorrect ==
    ASSUME "slow" \notin Faults
    PROVE  Spec => []OneWorker
  <1>1. WorkerInv => OneWorker
    BY DEF WorkerInv
  <1>2. QED BY WorkerInvariance, <1>1, PTL

-----------------------------------------------------------------------------
(* Done once *)

(* A message whose work is done is completed, about to be, or forgotten.   *)
Accounted(m) ==
    \/ events[m] = "completed"
    \/ \E r \in Requests : At(r, "mark") /\ Current(r) = m
    \/ events[m] = "absent" /\ \A r \in Requests : ~Listed(r, m)

EffectInv ==
    \A m \in Messages :
        m \in unmarked \/ effects[m] = 0 \/ (effects[m] = 1 /\ Accounted(m))

LEMMA EffectStep ==
    ASSUME "slow" \notin Faults, WorkerInv, EffectInv, [Next]_vars
    PROVE  EffectInv'
  <1> USE DEF WorkerInv
  <1>1. ASSUME NEW r \in Requests, LetsGo(r), UNCHANGED effects,
               \A m \in Messages : m \in unmarked => m \in unmarked',
               \A m \in Messages :
                   IF At(r, "mark") /\ Current(r) = m
                   THEN events'[m] = "completed" \/ m \in unmarked'
                   ELSE events'[m] = events[m]
        PROVE  EffectInv'
    <2> SUFFICES ASSUME NEW m \in Messages, m \notin unmarked', Accounted(m)
                 PROVE  Accounted(m)'
      BY <1>1 DEF EffectInv
    <2>1. CASE At(r, "mark") /\ Current(r) = m
      BY <1>1, <2>1 DEF Accounted
    <2>2. CASE ~(At(r, "mark") /\ Current(r) = m)
      <3>1. events'[m] = events[m]
        BY <1>1, <2>2
      <3>2. ASSUME NEW x \in Requests, At(x, "mark"), Current(x) = m
            PROVE  At(x, "mark")' /\ Current(x)' = m
        BY <1>1, <2>2, <3>2 DEF LetsGo, At, Current
      <3>3. \A x \in Requests : Listed(x, m)' => Listed(x, m)
        BY <1>1 DEF LetsGo
      <3>4. QED BY <3>1, <3>2, <3>3 DEF Accounted
    <2>3. QED BY <2>1, <2>2
  <1>2. ASSUME NEW r \in Requests, NEW g \in Gateways, NEW batch \in Batches,
               Receive(r, g, batch)
        PROVE  EffectInv'
    <2> SUFFICES ASSUME NEW m \in Messages, effects[m] = 1, Accounted(m)
                 PROVE  Accounted(m)'
      BY <1>2 DEF Receive, EffectInv
    <2>1. /\ requests'[r].batch = batch
          /\ \A x \in Requests : x # r => requests'[x] = requests[x]
      BY <1>2 DEF Receive, TypeOK
    <2>2. CASE \E x \in Requests : At(x, "mark") /\ Current(x) = m
      BY <1>2, <2>1, <2>2 DEF Receive, At, Current, Accounted
    <2>3. CASE events[m] = "absent" /\ \A x \in Requests : ~Listed(x, m)
      <3>1. \A i \in DOMAIN batch : batch[i] # m
        BY <1>2, <2>3 DEF Receive, Forgotten
      <3>2. \A x \in Requests : ~Listed(x, m)'
        BY <2>1, <2>3, <3>1 DEF Listed
      <3>3. QED BY <1>2, <2>3, <3>2 DEF Receive, Accounted
    <2>4. CASE events[m] = "completed"
      BY <1>2, <2>4 DEF Receive, Accounted
    <2>5. QED BY <2>2, <2>3, <2>4 DEF Accounted
  <1>3. ASSUME NEW r \in Requests, Acquire(r)
        PROVE  EffectInv'
    <2> SUFFICES ASSUME NEW m \in Messages, Accounted(m)
                 PROVE  Accounted(m)'
      BY <1>3 DEF Acquire, EffectInv
    <2> DEFINE n == Current(r)
    <2>1. n \in Messages /\ Listed(r, n)
      BY <1>3, HeadListed DEF Acquire, At
    <2>2. m # n
      <3>1. ~\E x \in Requests : At(x, "mark") /\ Current(x) = n
        BY <1>3, <2>1 DEF Acquire, Stale, Leased, WorksOn, At
      <3>2. QED BY <1>3, <2>1, <3>1 DEF Acquire, Stale, Accounted
    <2>3. events'[m] = events[m]
      BY <1>3, <2>2 DEF Acquire, TypeOK
    <2>4. /\ \A x \in Requests : Listed(x, m)' => Listed(x, m)
          /\ \A x \in Requests : At(x, "mark") /\ Current(x) = m =>
                                   At(x, "mark")' /\ Current(x)' = m
      BY <1>3, PcChanges DEF Acquire, Listed, At, Current
    <2>5. QED BY <2>3, <2>4 DEF Accounted
  <1>4. ASSUME NEW r \in Requests, Work(r)
        PROVE  EffectInv'
    <2>1. PICK n \in Messages : Current(r) = n
      BY <1>4, HeadListed DEF Work, At
    <2>2. ~Accounted(n)
      <3>1. WorksOn(r, n)
        BY <1>4, <2>1 DEF Work, WorksOn, At
      <3>2. events[n] = "processing"
        BY <2>1, <3>1 DEF Leased
      <3>3. ~\E x \in Requests : At(x, "mark") /\ Current(x) = n
        BY <1>4, <2>1, <3>1 DEF Work, OneWorker, WorksOn, At
      <3>4. QED BY <3>2, <3>3 DEF Accounted
    <2>3. /\ requests'[r].pc = "mark"
          /\ \A x \in Requests : requests'[x].batch = requests[x].batch
          /\ \A x \in Requests : x # r => requests'[x] = requests[x]
      BY <1>4, PcChanges DEF Work
    <2>4. n \in unmarked' \/ (effects'[n] = 1 /\ Accounted(n)')
      <3>1. n \in unmarked \/ effects[n] = 0
        BY <2>1, <2>2 DEF EffectInv
      <3>2. effects'[n] = effects[n] + 1
        BY <1>4, <2>1 DEF Work, TypeOK
      <3>3. Accounted(n)'
        BY <2>1, <2>3 DEF Accounted, At, Current
      <3>4. QED BY <1>4, <3>1, <3>2, <3>3 DEF Work
    <2>5. ASSUME NEW m \in Messages, m # n
          PROVE  effects'[m] = effects[m] /\ (Accounted(m) => Accounted(m)')
      <3>1. effects'[m] = effects[m] /\ events' = events
        BY <1>4, <2>1, <2>5 DEF Work, TypeOK
      <3>2. /\ \A x \in Requests : Listed(x, m)' => Listed(x, m)
            /\ \A x \in Requests : At(x, "mark") /\ Current(x) = m =>
                                     At(x, "mark")' /\ Current(x)' = m
        BY <2>3 DEF Listed, At, Current
      <3>3. QED BY <3>1, <3>2 DEF Accounted
    <2>6. ASSUME NEW m \in Messages, m # n
          PROVE  m \in unmarked' \/ effects'[m] = 0 \/ (effects'[m] = 1 /\ Accounted(m)')
      BY <1>4, <2>5, <2>6 DEF Work, EffectInv
    <2>7. QED BY <2>4, <2>6 DEF EffectInv
  <1>5. ASSUME NEW r \in Requests, Mark(r)
        PROVE  EffectInv'
    <2>1. LetsGo(r)
      BY <1>5, StepsLettingGo
    <2>2. UNCHANGED <<effects, unmarked>>
      BY <1>5 DEF Mark
    <2>3. \A m \in Messages :
              IF At(r, "mark") /\ Current(r) = m
              THEN events'[m] = "completed" ELSE events'[m] = events[m]
      BY <1>5 DEF Mark, TypeOK
    <2>4. QED BY <1>1, <2>1, <2>2, <2>3
  <1>6. ASSUME NEW r \in Requests,
               Skip(r) \/ AcquireFails(r) \/ WorkFails(r) \/ MarkFails(r) \/ Crash(r)
        PROVE  EffectInv'
    <2>1. LetsGo(r)
      BY <1>6, StepsLettingGo
    <2>2. UNCHANGED <<events, effects>>
      BY <1>6 DEF Skip, AcquireFails, WorkFails, MarkFails, Crash
    <2>3. /\ \A m \in Messages : m \in unmarked => m \in unmarked'
          /\ At(r, "mark") => Current(r) \in unmarked'
      BY <1>6 DEF Skip, AcquireFails, WorkFails, MarkFails, Crash, At
    <2>4. QED BY <1>1, <2>1, <2>2, <2>3
  <1>7. ASSUME NEW n \in Messages, LeaseEnds(n) \/ CleanUp(n)
        PROVE  EffectInv'
    <2>1. UNCHANGED <<effects, unmarked, requests>>
      BY <1>7 DEF LeaseEnds, CleanUp
    <2>2. \A m \in Messages :
              \/ events'[m] = events[m]
              \/ events'[m] = "absent" /\ \A x \in Requests : ~Listed(x, m)
      BY <1>7 DEF LeaseEnds, CleanUp, TypeOK, Listed
    <2>3. \A m \in Messages : Accounted(m) => Accounted(m)'
      BY <2>1, <2>2 DEF Accounted, Listed, At, Current
    <2>4. QED BY <2>1, <2>3 DEF EffectInv
  <1>8. CASE UNCHANGED vars
    BY <1>8 DEF vars, EffectInv, Accounted, Listed, At, Current
  <1>9. QED BY <1>2, <1>3, <1>4, <1>5, <1>6, <1>7, <1>8 DEF Next, Step

(* Where no work outlasts its lease, a message is worked on again only if  *)
(* the completion of its work was lost.                                    *)
THEOREM DoneOnceCorrect ==
    ASSUME "slow" \notin Faults
    PROVE  Spec => []DoneOnce
  <1>1. Init => EffectInv
    BY DEF Init, EffectInv
  <1>2. WorkerInv /\ EffectInv /\ [Next]_vars => EffectInv'
    BY EffectStep
  <1>3. WorkerInv /\ EffectInv => DoneOnce
    BY DEF EffectInv, DoneOnce
  <1>4. QED BY <1>1, <1>2, <1>3, WorkerInvariance, PTL DEF Spec

-----------------------------------------------------------------------------
(* Completed is done *)

(* What is about to be completed was done. *)
MarksDone == \A r \in Requests : At(r, "mark") => effects[Current(r)] > 0

LEMMA DoneStep ==
    ASSUME TypeOK, MarksDone, CompletedIsDone, [Next]_vars
    PROVE  MarksDone' /\ CompletedIsDone'
  <1>1. ASSUME NEW r \in Requests, LetsGo(r), UNCHANGED effects,
               \A m \in Messages : events'[m] = events[m]
                                   \/ (At(r, "mark") /\ Current(r) = m)
        PROVE  MarksDone' /\ CompletedIsDone'
    BY <1>1 DEF LetsGo, MarksDone, CompletedIsDone, At, Current
  <1>2. ASSUME NEW r \in Requests, NEW g \in Gateways, NEW batch \in Batches,
               Receive(r, g, batch)
        PROVE  MarksDone' /\ CompletedIsDone'
    BY <1>2 DEF Receive, TypeOK, MarksDone, CompletedIsDone, At, Current
  <1>3. ASSUME NEW r \in Requests, Acquire(r)
        PROVE  MarksDone' /\ CompletedIsDone'
    <2>1. MarksDone'
      BY <1>3, PcChanges DEF Acquire, MarksDone, At, Current
    <2>2. CompletedIsDone'
      BY <1>3 DEF Acquire, TypeOK, CompletedIsDone
    <2>3. QED BY <2>1, <2>2
  <1>4. ASSUME NEW r \in Requests, Work(r)
        PROVE  MarksDone' /\ CompletedIsDone'
    <2>1. Current(r) \in Messages
      BY <1>4, HeadListed DEF Work, At
    <2>2. \A m \in Messages : effects'[m] >= effects[m] /\ effects[m] >= 0
      BY <1>4 DEF Work, TypeOK
    <2>3. effects'[Current(r)] > 0
      BY <1>4, <2>1 DEF Work, TypeOK
    <2>4. \A x \in Requests : At(x, "mark") => Current(x) \in Messages
      BY HeadListed DEF At
    <2>5. MarksDone'
      <3>1. ASSUME NEW x \in Requests, At(x, "mark")'
            PROVE  x = r \/ At(x, "mark")
        BY <1>4, <3>1, PcChanges DEF Work, At
      <3>2. \A x \in Requests : Current(x)' = Current(x)
        BY <1>4, PcChanges DEF Work, Current
      <3>3. effects \in [Messages -> Nat] /\ effects' \in [Messages -> Nat]
        BY <1>4, <2>1 DEF Work, TypeOK
      <3>4. ASSUME NEW x \in Requests, At(x, "mark")'
            PROVE  effects'[Current(x)'] > 0
        <4>1. CASE x = r
          BY <4>1, <2>3, <3>2
        <4>2. CASE x # r
          <5>1. At(x, "mark") BY <3>1, <3>4, <4>2
          <5>2. Current(x) \in Messages /\ effects[Current(x)] > 0
            BY <5>1, <2>4 DEF MarksDone
          <5>3. QED BY <2>2, <3>2, <3>3, <5>2
        <4>3. QED BY <4>1, <4>2
      <3>5. QED BY <3>4 DEF MarksDone
    <2>6. CompletedIsDone'
      BY <1>4, <2>2 DEF Work, TypeOK, CompletedIsDone
    <2>7. QED BY <2>5, <2>6
  <1>5. ASSUME NEW r \in Requests,
               \/ Skip(r) \/ AcquireFails(r) \/ WorkFails(r)
               \/ Mark(r) \/ MarkFails(r) \/ Crash(r)
        PROVE  MarksDone' /\ CompletedIsDone'
    <2>1. LetsGo(r)
      BY <1>5, StepsLettingGo
    <2>2. UNCHANGED effects
      BY <1>5 DEF Skip, AcquireFails, WorkFails, Mark, MarkFails, Crash
    <2>3. \A m \in Messages : events'[m] = events[m] \/ (At(r, "mark") /\ Current(r) = m)
      BY <1>5 DEF Skip, AcquireFails, WorkFails, Mark, MarkFails, Crash, TypeOK
    <2>4. QED BY <1>1, <2>1, <2>2, <2>3
  <1>6. ASSUME NEW m \in Messages, LeaseEnds(m) \/ CleanUp(m)
        PROVE  MarksDone' /\ CompletedIsDone'
    BY <1>6 DEF LeaseEnds, CleanUp, TypeOK, MarksDone, CompletedIsDone, At, Current
  <1>7. CASE UNCHANGED vars
    BY <1>7 DEF vars, MarksDone, CompletedIsDone, At, Current
  <1>8. QED BY <1>2, <1>3, <1>4, <1>5, <1>6, <1>7 DEF Next, Step

(* Whatever fails, a message that is blocked as completed has been done.   *)
THEOREM CompletedCorrect == Spec => []CompletedIsDone
  <1>1. Init => MarksDone /\ CompletedIsDone
    BY DEF Init, MarksDone, CompletedIsDone, At, Idle
  <1>2. TypeOK /\ MarksDone /\ CompletedIsDone /\ [Next]_vars
        => MarksDone' /\ CompletedIsDone'
    BY DoneStep
  <1>3. QED BY <1>1, <1>2, TypeCorrect, PTL DEF Spec

=============================================================================
