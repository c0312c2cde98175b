----------------------------- MODULE Outbox_proofs -----------------------------
(***************************************************************************)
(* Safety of the outbox for any number of messages, recipients, workers    *)
(* and administrators, any batch size and any retry limit.  Inductive      *)
(* arguments, each on top of the ones before it: rows and workers are well *)
(* formed; processing rows have their worker and failed rows their dead    *)
(* letter; with one administrator a row has one sender; what is marked as  *)
(* sent has arrived; the attempts that a row can still cause are bounded.  *)
(***************************************************************************)
EXTENDS Outbox, TLAPS, SequenceTheorems, FiniteSetTheorems

USE DEF Messages

-----------------------------------------------------------------------------
(* Well-formed states *)

WorkersOK ==
    /\ workers \in [Workers -> Worker]
    /\ \A w \in Workers : At(w, "idle") <=> workers[w].batch = <<>>

(* Ids are given out without gaps, so the next one is free. *)
RowsOK ==
    /\ outbox \in [Messages -> Message]
    /\ \A m \in Messages : outbox[m].status # "absent" => outbox[m].payload # None
    /\ \E n \in 0..MaxMessages : Used = 1..n

OthersOK ==
    /\ letters \in Seq(DeadLetter)
    /\ urgent \subseteq Messages
    /\ admins \in [Admins -> Request]
    /\ \A a \in Admins :
        /\ admins[a].kind = "message" => admins[a].id \in Messages
        /\ admins[a].kind = "letter" => admins[a].id \in DOMAIN letters
    /\ requests \in 0..MaxRequests
    /\ copies \in [Messages -> [Recipients -> Nat]]

TypeInv == WorkersOK /\ RowsOK /\ OthersOK

(* A function on 1..n is a sequence.                                       *)
LEMMA FunctionIsSequence ==
    ASSUME NEW S, NEW n \in Nat, NEW f \in [1..n -> S]
    PROVE  f \in Seq(S)
OBVIOUS

(* A worker that is not idle has a message at hand.                        *)
LEMMA CurrentType ==
    ASSUME WorkersOK, NEW w \in Workers, ~At(w, "idle")
    PROVE  /\ workers[w].batch \in Seq(Messages) /\ workers[w].batch # <<>>
           /\ Current(w) \in Messages
<1>1. workers[w].batch \in Seq(Messages) /\ workers[w].batch # <<>>
  BY DEF WorkersOK, Worker
<1>2. QED BY <1>1, HeadTailProperties DEF Current

(* Turning to the next message leaves a well-formed worker that holds      *)
(* nothing, and the other workers alone.                                   *)
LEMMA TurnToNextKeeps ==
    ASSUME WorkersOK, NEW w \in Workers, ~At(w, "idle"), TurnToNext(w)
    PROVE  /\ WorkersOK'
           /\ workers'[w].pc \in {"idle", "claim"}
           /\ \A v \in Workers \ {w} : workers'[v] = workers[v]
<1>1. workers[w].batch \in Seq(Messages) /\ workers[w].batch # <<>>
  BY CurrentType
<1>2. Tail(workers[w].batch) \in Seq(Messages)
      /\ Len(Tail(workers[w].batch)) = Len(workers[w].batch) - 1
  BY <1>1, HeadTailProperties
<1>3. Len(workers[w].batch) # 1 => Tail(workers[w].batch) # <<>>
  <2>1. Len(workers[w].batch) \in Nat
    BY <1>1, LenProperties
  <2>2. ASSUME Tail(workers[w].batch) = <<>> PROVE Len(workers[w].batch) = 1
    <3>1. Len(<<>>) = 0
      OBVIOUS
    <3>2. Len(Tail(workers[w].batch)) = 0
      BY <2>2, <3>1, Zenon
    <3>3. QED BY <1>2, <2>1, <3>2
  <2>3. QED BY <2>2
<1>4. Resting \in Worker
  BY EmptySeq DEF Resting, Worker
<1>5. CASE Len(workers[w].batch) = 1
  <2>1. workers' = [workers EXCEPT ![w] = Resting]
    BY <1>5 DEF TurnToNext
  <2>2. QED BY <1>4, <2>1 DEF WorkersOK, At, Resting
<1>6. CASE Len(workers[w].batch) # 1
  <2> DEFINE next == [Resting EXCEPT !.pc = "claim", !.batch = Tail(workers[w].batch)]
  <2>1. next \in Worker /\ next.pc = "claim" /\ next.batch # <<>>
    BY <1>2, <1>3, <1>4, <1>6 DEF Resting, Worker
  <2>2. workers' = [workers EXCEPT ![w] = next]
    BY <1>6 DEF TurnToNext
  <2> HIDE DEF next
  <2>3. QED BY <2>1, <2>2 DEF WorkersOK, At
<1>7. QED BY <1>5, <1>6

(* So does starting a task on a batch that is not empty.                   *)
LEMMA StartTaskKeeps ==
    ASSUME WorkersOK, NEW w \in Workers, NEW batch \in Seq(Messages), batch # <<>>,
           StartTask(w, batch)
    PROVE  /\ WorkersOK'
           /\ workers'[w].pc = "claim"
           /\ \A v \in Workers \ {w} : workers'[v] = workers[v]
<1> DEFINE new == [Resting EXCEPT !.pc = "claim", !.batch = batch]
<1>1. new \in Worker /\ new.pc = "claim" /\ new.batch # <<>>
  BY EmptySeq DEF Resting, Worker
<1>2. workers' = [workers EXCEPT ![w] = new]
  BY DEF StartTask
<1> HIDE DEF new
<1>3. QED BY <1>1, <1>2 DEF WorkersOK, At

(* The batch of the periodic task.                                         *)
LEMMA FetchedBatch ==
    ASSUME WorkersOK, NEW w \in Workers, FetchBatch(w)
    PROVE  \E batch \in Seq(Messages) : batch # <<>> /\ StartTask(w, batch)
<1>1. PICK n \in 1..BatchSize : \E batch \in [1..n -> Awaiting] : StartTask(w, batch)
  BY DEF FetchBatch
<1>2. PICK batch \in [1..n -> Awaiting] : StartTask(w, batch)
  BY <1>1
<1>3. n \in Nat \ {0}
  BY <1>1, ConstantsAssumption DEF ConstantsAssumption
<1>4. batch \in Seq(Messages) /\ batch # <<>>
  <2>1. batch \in [1..n -> Messages]
    BY <1>2 DEF Awaiting
  <2>2. batch \in Seq(Messages)
    BY <1>3, <2>1, FunctionIsSequence
  <2>3. 1 \in DOMAIN batch
    BY <1>3, <2>1
  <2>4. QED BY <2>2, <2>3
<1>5. QED BY <1>2, <1>4

(* The next id is one that no row ever had.                                *)
LEMMA NextIdIsFresh ==
    ASSUME RowsOK, NextId \in Messages
    PROVE  outbox[NextId].payload = None /\ Used \cup {NextId} = 1..NextId
<1>1. PICK n \in 0..MaxMessages : Used = 1..n
  BY DEF RowsOK
<1>2. n \in Nat
  BY <1>1, ConstantsAssumption DEF ConstantsAssumption
<1>3. Cardinality(Used) = n
  BY <1>1, <1>2, FS_Interval
<1>4. NextId = n + 1
  BY <1>3 DEF NextId
<1>5. NextId \notin Used
  BY <1>1, <1>2, <1>4
<1>6. QED BY <1>1, <1>2, <1>4, <1>5 DEF Used

(* A new row keeps the table well formed.                                  *)
LEMMA NewRowKeeps ==
    ASSUME RowsOK, NextId \in Messages, NEW p \in Payloads,
           outbox' = [outbox EXCEPT ![NextId] = NewMessage(p)]
    PROVE  RowsOK'
<1>1. NewMessage(p) \in Message /\ NewMessage(p).payload = p /\ p # None
  BY ConstantsAssumption DEF NewMessage, Message, ConstantsAssumption
<1>2. outbox' \in [Messages -> Message]
  BY <1>1 DEF RowsOK
<1>3. \A m \in Messages : outbox'[m].status # "absent" => outbox'[m].payload # None
  BY <1>1 DEF RowsOK
<1>4. Used' = Used \cup {NextId}
  BY <1>1 DEF Used, RowsOK
<1>5. NextId \in 0..MaxMessages
  BY ConstantsAssumption DEF ConstantsAssumption
<1>6. QED BY <1>2, <1>3, <1>4, <1>5, NextIdIsFresh DEF RowsOK

(* So does a change of a row that keeps its payload and does not bring it  *)
(* back.                                                                   *)
LEMMA ChangedRowKeeps ==
    ASSUME RowsOK, outbox' \in [Messages -> Message],
           \A m \in Messages : /\ outbox'[m].payload = outbox[m].payload
                               /\ outbox'[m].status # "absent" => outbox[m].status # "absent"
    PROVE  RowsOK'
<1>1. Used' = Used
  BY DEF Used
<1>2. QED BY <1>1 DEF RowsOK


(* One row edited in place.                                                *)
LEMMA EditedRowKeeps ==
    ASSUME RowsOK, NEW m \in Messages, NEW r \in Message,
           r.payload = outbox[m].payload,
           r.status # "absent" => outbox[m].status # "absent",
           outbox' = [outbox EXCEPT ![m] = r]
    PROVE  RowsOK'
<1>1. outbox' \in [Messages -> Message]
  BY DEF RowsOK
<1>2. \A k \in Messages : /\ outbox'[k].payload = outbox[k].payload
                          /\ outbox'[k].status # "absent" => outbox[k].status # "absent"
  BY DEF RowsOK
<1>3. QED BY <1>1, <1>2, ChangedRowKeeps

(* What a step leaves alone stays well formed.                             *)
LEMMA UntouchedKeeps ==
    ASSUME TypeInv
    PROVE  /\ UNCHANGED workers => WorkersOK'
           /\ UNCHANGED outbox => RowsOK'
           /\ UNCHANGED <<letters, urgent, admins, requests, copies>> => OthersOK'
<1>1. UNCHANGED workers => WorkersOK'
  BY DEF TypeInv, WorkersOK, At
<1>2. UNCHANGED outbox => RowsOK'
  BY DEF TypeInv, RowsOK, Used
<1>3. UNCHANGED <<letters, urgent, admins, requests, copies>> => OthersOK'
  BY DEF TypeInv, OthersOK
<1>4. QED BY <1>1, <1>2, <1>3

(* Nothing is queued, in hand or awaited at the start.                     *)
LEMMA TypeInit == Init => TypeInv
<1> SUFFICES ASSUME Init PROVE TypeInv
  OBVIOUS
<1>1. WorkersOK
  <2>1. Resting \in Worker
    BY EmptySeq DEF Resting, Worker
  <2>2. QED BY <2>1 DEF Init, WorkersOK, At, Resting
<1>2. RowsOK
  <2>1. NoMessage \in Message
    BY DEF NoMessage, Message
  <2>2. Used = 1..0
    BY DEF Init, Used, NoMessage
  <2>3. 0 \in 0..MaxMessages
    BY ConstantsAssumption DEF ConstantsAssumption
  <2>4. QED BY <2>1, <2>2, <2>3 DEF Init, RowsOK, NoMessage
<1>3. OthersOK
  <2>1. letters \in Seq(DeadLetter)
    BY EmptySeq DEF Init
  <2>2. admins \in [Admins -> Request] /\ \A a \in Admins : admins[a].kind = "none"
    BY DEF Init, Request, NoRequest
  <2>3. requests \in 0..MaxRequests /\ copies \in [Messages -> [Recipients -> Nat]]
    BY ConstantsAssumption DEF Init, ConstantsAssumption
  <2>4. urgent \subseteq Messages
    BY DEF Init
  <2>5. QED BY <2>1, <2>2, <2>3, <2>4 DEF OthersOK
<1>4. QED BY <1>1, <1>2, <1>3 DEF TypeInv

(* Producers and the passing of time.                                      *)
LEMMA ProducerKeepsType ==
    ASSUME TypeInv,
           \/ \E p \in Payloads : Queue(p)
           \/ \E m \in Messages : RetryTimeComes(m) \/ CleanUp(m)
    PROVE  TypeInv'
<1>1. ASSUME NEW p \in Payloads, Queue(p) PROVE TypeInv'
  <2>1. RowsOK'
    BY <1>1, NewRowKeeps DEF Queue, TypeInv
  <2>2. WorkersOK'
    BY <1>1, UntouchedKeeps DEF Queue
  <2>3. OthersOK'
    BY <1>1 DEF Queue, TypeInv, OthersOK
  <2>4. QED BY <2>1, <2>2, <2>3 DEF TypeInv
<1>2. ASSUME NEW m \in Messages, RetryTimeComes(m) PROVE TypeInv'
  <2>1. [outbox[m] EXCEPT !.due = TRUE] \in Message
    BY DEF TypeInv, RowsOK, Message
  <2>2. RowsOK'
    BY <1>2, <2>1, EditedRowKeeps DEF RetryTimeComes, TypeInv, RowsOK, Message
  <2>3. QED BY <1>2, <2>2, UntouchedKeeps DEF RetryTimeComes, TypeInv
<1>3. ASSUME NEW m \in Messages, CleanUp(m) PROVE TypeInv'
  <2>1. [outbox[m] EXCEPT !.status = "absent"] \in Message
    BY DEF TypeInv, RowsOK, Message
  <2>2. RowsOK'
    BY <1>3, <2>1, EditedRowKeeps DEF CleanUp, TypeInv, RowsOK, Message
  <2>3. QED BY <1>3, <2>2, UntouchedKeeps DEF CleanUp, TypeInv
<1>4. QED BY <1>1, <1>2, <1>3

(* What the recipients have of row m after a send with these reports.      *)
Received(m, report) ==
    [r \in Recipients |->
        copies[m][r] + IF r \in DOMAIN report THEN report[r].arrived ELSE 0]

LEMMA PostsType == \A p : Posts(p) \in Nat \ {0}
BY ConstantsAssumption DEF Posts, ConstantsAssumption

(* A send never takes a copy back.                                         *)
LEMMA ReceivedType ==
    ASSUME TypeInv, NEW m \in Messages, NEW p,
           NEW report \in [Audience[p] -> Reports(p)]
    PROVE  /\ Received(m, report) \in [Recipients -> Nat]
           /\ \A r \in Recipients :
                /\ copies[m][r] \in Nat
                /\ Received(m, report)[r] \in copies[m][r]..copies[m][r] + Posts(p)
<1> SUFFICES ASSUME NEW r \in Recipients
             PROVE  /\ copies[m][r] \in Nat
                    /\ Received(m, report)[r] \in copies[m][r]..copies[m][r] + Posts(p)
  BY DEF Received
<1>1. copies[m][r] \in Nat /\ Posts(p) \in Nat
  BY PostsType DEF TypeInv, OthersOK
<1>2. CASE r \in DOMAIN report
  <2>1. report[r] \in Reports(p)
    BY <1>2
  <2>2. report[r].arrived \in 0..Posts(p)
    BY <2>1 DEF Reports
  <2>3. QED BY <1>1, <1>2, <2>2 DEF Received
<1>3. CASE r \notin DOMAIN report
  BY <1>1, <1>3 DEF Received
<1>4. QED BY <1>2, <1>3

(* A worker picks up, claims and sends.                                    *)
LEMMA SendingKeepsType ==
    ASSUME TypeInv, NEW w \in Workers,
           \/ FetchBatch(w)
           \/ \E m \in Messages : SendMessage(w, m)
           \/ Claim(w)
           \/ Send(w)
           \/ MarkingFails(w)
           \/ Crash(w)
    PROVE  TypeInv'
<1>1. CASE FetchBatch(w)
  <2>1. WorkersOK'
    BY <1>1, FetchedBatch, StartTaskKeeps DEF TypeInv
  <2>2. QED BY <1>1, <2>1, UntouchedKeeps DEF FetchBatch, TypeInv
<1>2. ASSUME NEW m \in Messages, SendMessage(w, m) PROVE TypeInv'
  <2>1. <<m>> \in Seq(Messages) /\ <<m>> # <<>>
    OBVIOUS
  <2>2. WorkersOK'
    <3>1. CASE outbox[m].status = "absent"
      BY <1>2, <3>1, UntouchedKeeps DEF SendMessage
    <3>2. CASE outbox[m].status # "absent"
      BY <1>2, <2>1, <3>2, StartTaskKeeps DEF SendMessage, TypeInv
    <3>3. QED BY <3>1, <3>2
  <2>3. OthersOK'
    BY <1>2 DEF SendMessage, TypeInv, OthersOK
  <2>4. QED BY <1>2, <2>2, <2>3, UntouchedKeeps DEF SendMessage, TypeInv
<1>3. CASE Claim(w)
  <2>1. ~At(w, "idle") /\ Current(w) \in Messages
    BY <1>3, CurrentType DEF Claim, At, TypeInv
  <2>2. CASE outbox[Current(w)].status = "PENDING"
    <3>1. [outbox[Current(w)] EXCEPT !.status = "PROCESSING"] \in Message
      BY <2>1 DEF TypeInv, RowsOK, Message
    <3>2. RowsOK'
      BY <1>3, <2>1, <2>2, <3>1, EditedRowKeeps DEF Claim, TypeInv, RowsOK, Message
    <3>3. WorkersOK'
      BY <1>3, <2>2, ZenonT(60) DEF Claim, TypeInv, WorkersOK, Worker, At
    <3>4. QED BY <1>3, <3>2, <3>3, UntouchedKeeps DEF Claim, TypeInv
  <2>3. CASE outbox[Current(w)].status # "PENDING"
    <3>1. WorkersOK'
      BY <1>3, <2>1, <2>3, TurnToNextKeeps DEF Claim, TypeInv
    <3>2. QED BY <1>3, <2>3, <3>1, UntouchedKeeps DEF Claim, TypeInv
  <2>4. QED BY <2>2, <2>3
<1>4. CASE Send(w)
  <2> DEFINE m == Current(w)
             p == outbox[m].payload
  <2>1. PICK report \in [Audience[p] -> Reports(p)] :
            /\ workers' = [workers EXCEPT ![w].pc = "mark",
                                          ![w].outcome = Outcome(report)]
            /\ copies' = [copies EXCEPT ![m] = Received(m, report)]
    BY <1>4 DEF Send, Received
  <2>2. Outcome(report) \in {"sent", "failed"}
    BY DEF Outcome
  <2>0. m \in Messages
    BY <1>4, CurrentType DEF Send, At, TypeInv
  <2> HIDE DEF m
  <2>3. WorkersOK'
    <3>1. workers[w] \in Worker /\ workers[w].pc = "send" /\ workers[w].batch # <<>>
      BY <1>4 DEF Send, TypeInv, WorkersOK, At
    <3> DEFINE new == [workers[w] EXCEPT !.pc = "mark", !.outcome = Outcome(report)]
    <3>2. new \in Worker /\ new.pc = "mark" /\ new.batch # <<>>
      BY <2>2, <3>1 DEF Worker
    <3>3. workers' = [workers EXCEPT ![w] = new]
      BY <2>1, <3>1 DEF TypeInv, WorkersOK, Worker
    <3> HIDE DEF new
    <3>4. QED BY <3>2, <3>3 DEF TypeInv, WorkersOK, At
  <2>4. copies' \in [Messages -> [Recipients -> Nat]]
    BY <2>0, <2>1, ReceivedType DEF TypeInv, OthersOK
  <2>5. OthersOK'
    BY <1>4, <2>4 DEF Send, TypeInv, OthersOK
  <2>6. QED BY <1>4, <2>3, <2>5, UntouchedKeeps DEF Send, TypeInv
<1>5. CASE MarkingFails(w)
  <2>1. WorkersOK'
    BY <1>5 DEF MarkingFails, TypeInv, WorkersOK, Worker, At
  <2>2. QED BY <1>5, <2>1, UntouchedKeeps DEF MarkingFails, TypeInv
<1>6. CASE Crash(w)
  <2>1. Resting \in Worker
    BY EmptySeq DEF Resting, Worker
  <2>2. WorkersOK'
    BY <1>6, <2>1 DEF Crash, TypeInv, WorkersOK, Resting, At
  <2>3. QED BY <1>6, <2>2, UntouchedKeeps DEF Crash, TypeInv
<1>7. QED BY <1>1, <1>2, <1>3, <1>4, <1>5, <1>6

(* The result is written and the worker turns to the next message.         *)
LEMMA MarkingKeepsType ==
    ASSUME TypeInv, NEW w \in Workers,
           MarkSent(w) \/ MarkRetry(w) \/ MarkFailed(w)
    PROVE  TypeInv'
<1> DEFINE m == Current(w)
<1>1. ~At(w, "idle") /\ TurnToNext(w)
  BY DEF MarkSent, MarkRetry, MarkFailed, Failing, At
<1>2. m \in Messages
  BY <1>1, CurrentType DEF TypeInv
<1>3. WorkersOK'
  BY <1>1, TurnToNextKeeps DEF TypeInv
<1>4. outbox[m] \in Message
  BY <1>2 DEF TypeInv, RowsOK
<1>5. CASE MarkSent(w)
  <2>1. RowsOK'
    <3>1. CASE Exists(m)
      <4>1. [outbox[m] EXCEPT !.status = "SENT"] \in Message
        BY <1>4 DEF Message
      <4>2. outbox' = [outbox EXCEPT ![m] = [outbox[m] EXCEPT !.status = "SENT"]]
        BY <1>5, <3>1 DEF MarkSent
      <4>3. QED BY <1>2, <1>4, <3>1, <4>1, <4>2, EditedRowKeeps DEF TypeInv, Exists, Message
    <3>2. CASE ~Exists(m)
      BY <1>5, <3>2, UntouchedKeeps DEF MarkSent
    <3>3. QED BY <3>1, <3>2
  <2>2. QED BY <1>3, <1>5, <2>1, UntouchedKeeps DEF MarkSent, TypeInv
<1>6. CASE MarkRetry(w)
  <2> DEFINE n == outbox[m].retries + 1
             r == [outbox[m] EXCEPT !.status = "PENDING", !.retries = n, !.due = FALSE]
  <2>0. n \in Nat
    BY <1>4 DEF Message
  <2> HIDE DEF n
  <2>1. r \in Message /\ r.payload = outbox[m].payload
    BY <1>4, <2>0 DEF Message
  <2>2. outbox' = [outbox EXCEPT ![m] = r]
    BY <1>2, <1>6 DEF MarkRetry, TypeInv, RowsOK, Message, n
  <2>3. outbox[m].status # "absent"
    BY <1>6 DEF MarkRetry, Failing, Exists
  <2> HIDE DEF r
  <2>4. RowsOK'
    BY <1>2, <2>1, <2>2, <2>3, EditedRowKeeps DEF TypeInv
  <2>5. QED BY <1>3, <1>6, <2>4, UntouchedKeeps DEF MarkRetry, TypeInv
<1>7. CASE MarkFailed(w)
  <2> DEFINE retries == outbox[m].retries + 1
  <2>1. /\ retries \in Nat
        /\ outbox' = [outbox EXCEPT ![m].status = "FAILED", ![m].retries = retries]
        /\ Bury(m, retries)
    BY <1>4, <1>7 DEF MarkFailed, Message
  <2> HIDE DEF retries
  <2> DEFINE r == [outbox[m] EXCEPT !.status = "FAILED", !.retries = retries]
  <2>2. r \in Message /\ r.payload = outbox[m].payload
    BY <1>4, <2>1 DEF Message
  <2>3. outbox' = [outbox EXCEPT ![m] = r]
    BY <1>2, <2>1 DEF TypeInv, RowsOK, Message
  <2>4. outbox[m].status # "absent"
    BY <1>7 DEF MarkFailed, Failing, Exists
  <2> HIDE DEF r
  <2>5. RowsOK'
    BY <1>2, <2>2, <2>3, <2>4, EditedRowKeeps DEF TypeInv
  <2> DEFINE letter == [message |-> m, payload |-> outbox[m].payload, retries |-> retries,
                        status |-> "FAILED"]
  <2>6. letter \in DeadLetter
    BY <1>2, <1>4, <2>1, <2>4 DEF DeadLetter, Message, TypeInv, RowsOK
  <2>7. letters' = Append(letters, letter)
    BY <2>1 DEF Bury
  <2>8. letters \in Seq(DeadLetter)
    BY DEF TypeInv, OthersOK
  <2> HIDE DEF letter
  <2>9. letters' \in Seq(DeadLetter) /\ DOMAIN letters \subseteq DOMAIN letters'
    BY <2>6, <2>7, <2>8, AppendProperties, LenProperties
  <2>10. OthersOK'
    BY <1>7, <2>9 DEF MarkFailed, TypeInv, OthersOK
  <2>11. QED BY <1>3, <2>5, <2>10 DEF TypeInv
<1>8. QED BY <1>5, <1>6, <1>7

(* An administrator reads and writes.                                      *)
LEMMA AdministrationKeepsType ==
    ASSUME TypeInv, NEW a \in Admins, Administer(a)
    PROVE  TypeInv'
<1>1. ASSUME NEW kind \in {"message", "letter"}, NEW id \in Nat, ReadBy(a, kind, id),
             kind = "message" => id \in Messages, kind = "letter" => id \in DOMAIN letters
      PROVE  TypeInv'
  <2>1. [kind |-> kind, id |-> id] \in Request
    BY DEF Request
  <2>2. requests' \in 0..MaxRequests
    BY <1>1, ConstantsAssumption DEF ReadBy, TypeInv, OthersOK, ConstantsAssumption
  <2>3. OthersOK'
    BY <1>1, <2>1, <2>2 DEF ReadBy, TypeInv, OthersOK
  <2>4. QED BY <1>1, <2>3, UntouchedKeeps DEF ReadBy, TypeInv
<1>2. ASSUME NEW m \in Messages, ReadMessage(a, m) PROVE TypeInv'
  <2>1. m \in Nat
    BY ConstantsAssumption DEF ConstantsAssumption
  <2>2. ReadBy(a, "message", m)
    BY <1>2 DEF ReadMessage
  <2>3. QED BY <1>1, <2>1, <2>2
<1>3. ASSUME NEW i \in DOMAIN letters, ReadLetter(a, i) PROVE TypeInv'
  <2>1. i \in Nat
    BY LenProperties DEF TypeInv, OthersOK
  <2>2. ReadBy(a, "letter", i)
    BY <1>3 DEF ReadLetter
  <2>3. QED BY <1>1, <2>1, <2>2
<1>4. NoRequest \in Request /\ NoRequest.kind = "none"
  BY DEF NoRequest, Request
<1>5. CASE WriteMessage(a)
  <2> DEFINE m == admins[a].id
  <2>1. m \in Messages /\ outbox[m] \in Message
    BY <1>5 DEF WriteMessage, TypeInv, OthersOK, RowsOK
  <2>2. RowsOK'
    <3>1. CASE Exists(m)
      <4> DEFINE r == [outbox[m] EXCEPT !.status = "PENDING", !.due = TRUE]
      <4>1. r \in Message /\ r.payload = outbox[m].payload
        BY <2>1 DEF Message
      <4>2. outbox' = [outbox EXCEPT ![m] = r]
        BY <1>5, <2>1, <3>1 DEF WriteMessage, TypeInv, RowsOK, Message
      <4> HIDE DEF r
      <4>3. QED BY <2>1, <3>1, <4>1, <4>2, EditedRowKeeps DEF TypeInv, Exists
    <3>2. CASE ~Exists(m)
      BY <1>5, <3>2, UntouchedKeeps DEF WriteMessage
    <3>3. QED BY <3>1, <3>2
  <2>3. OthersOK'
    BY <1>4, <1>5 DEF WriteMessage, TypeInv, OthersOK
  <2>4. QED BY <1>5, <2>2, <2>3, UntouchedKeeps DEF WriteMessage, TypeInv
<1>6. CASE WriteLetter(a)
  <2> DEFINE i == admins[a].id
  <2>1. letters \in Seq(DeadLetter) /\ i \in DOMAIN letters
    BY <1>6 DEF WriteLetter, TypeInv, OthersOK
  <2>2. letters[i] \in DeadLetter /\ i \in 1..Len(letters)
    BY <2>1, LenProperties, ElementOfSeq
  <2>3. RowsOK'
    BY <1>6, <2>2, NewRowKeeps DEF WriteLetter, TypeInv, DeadLetter
  <2>4. [letters[i] EXCEPT !.status = "RETRIED"] \in DeadLetter
    BY <2>2 DEF DeadLetter
  <2>5. letters' = [letters EXCEPT ![i] = [letters[i] EXCEPT !.status = "RETRIED"]]
    BY <1>6 DEF WriteLetter
  <2>6. letters' \in Seq(DeadLetter) /\ DOMAIN letters' = DOMAIN letters
    BY <2>1, <2>2, <2>4, <2>5, ExceptSeq
  <2>7. OthersOK'
    BY <1>4, <1>6, <2>6 DEF WriteLetter, TypeInv, OthersOK
  <2>8. QED BY <1>6, <2>3, <2>7, UntouchedKeeps DEF WriteLetter, TypeInv
<1>7. QED BY <1>2, <1>3, <1>5, <1>6 DEF Administer

LEMMA TypeStep == TypeInv /\ [Next]_vars => TypeInv'
<1> SUFFICES ASSUME TypeInv, [Next]_vars PROVE TypeInv'
  OBVIOUS
<1>1. CASE UNCHANGED vars
  BY <1>1, UntouchedKeeps DEF vars, TypeInv
<1>2. QED
  BY <1>1, ProducerKeepsType, SendingKeepsType, MarkingKeepsType, AdministrationKeepsType
     DEF Next, Work

LEMMA TypeInvariance == Spec => []TypeInv
BY TypeInit, TypeStep, PTL DEF Spec

(* Every reachable state of the outbox is well formed.                     *)
THEOREM TypeCorrect == Spec => []TypeOK
<1>1. TypeInv => TypeOK
  BY DEF TypeInv, WorkersOK, RowsOK, OthersOK, TypeOK
<1>2. QED BY TypeInvariance, <1>1, PTL

-----------------------------------------------------------------------------
(* What a step does to one row and to one worker *)

Marks(w) == MarkSent(w) \/ MarkRetry(w) \/ MarkFailed(w)

Claims(w, m) == Claim(w) /\ Current(w) = m /\ outbox[m].status = "PENDING"

(* The ways in which the status or the retry count of row m changes.       *)
RowStep(m) ==
    \/ outbox'[m].status = outbox[m].status /\ outbox'[m].retries = outbox[m].retries
    \/ /\ outbox'[m].status = "PROCESSING" /\ outbox'[m].retries = outbox[m].retries
       /\ \E w \in Workers : Claims(w, m)
    \/ /\ outbox'[m].status \in {"SENT", "PENDING", "FAILED"}
       /\ \E w \in Workers : /\ Marks(w) /\ At(w, "mark") /\ Current(w) = m
                             /\ outbox'[m].status = "FAILED" => MarkFailed(w)
    \/ outbox'[m].status = "PENDING"
       /\ \E a \in Admins : WriteMessage(a) /\ admins[a].id = m
    \/ /\ outbox'[m].status = "PENDING" /\ outbox[m].status = "absent"
       /\ outbox[m].payload = None
    \/ outbox'[m].status = "absent" /\ outbox[m].status = "SENT"

LEMMA RowSteps ==
    ASSUME TypeInv, [Next]_vars, NEW m \in Messages
    PROVE  RowStep(m)
<1>1. CASE UNCHANGED outbox
  BY <1>1 DEF RowStep
<1>2. ASSUME NEW p \in Payloads, outbox' = [outbox EXCEPT ![NextId] = NewMessage(p)],
             NextId \in Messages
      PROVE  RowStep(m)
  <2>1. outbox[NextId].payload = None /\ outbox[NextId].status = "absent"
    BY <1>2, NextIdIsFresh DEF TypeInv, RowsOK
  <2>2. QED BY <1>2, <2>1 DEF RowStep, NewMessage, TypeInv, RowsOK
<1>3. ASSUME NEW p \in Payloads, Queue(p) PROVE RowStep(m)
  BY <1>2, <1>3 DEF Queue
<1>4. ASSUME NEW k \in Messages, RetryTimeComes(k) \/ CleanUp(k) PROVE RowStep(m)
  <2>1. outbox[k] \in Message /\ outbox[m] \in Message
    BY DEF TypeInv, RowsOK
  <2>2. CASE RetryTimeComes(k)
    BY <2>1, <2>2 DEF RetryTimeComes, RowStep, TypeInv, RowsOK, Message
  <2>3. CASE CleanUp(k)
    BY <2>1, <2>3 DEF CleanUp, RowStep, TypeInv, RowsOK, Message
  <2>4. QED BY <1>4, <2>2, <2>3
<1>5. ASSUME NEW w \in Workers, Claim(w) PROVE RowStep(m)
  <2>1. CASE UNCHANGED outbox
    BY <1>1, <2>1
  <2>2. CASE /\ outbox[Current(w)].status = "PENDING"
             /\ outbox' = [outbox EXCEPT ![Current(w)].status = "PROCESSING"]
    <3>1. CASE Current(w) = m
      <4>1. outbox'[m].status = "PROCESSING" /\ outbox'[m].retries = outbox[m].retries
        BY <2>2, <3>1 DEF TypeInv, RowsOK, Message
      <4>2. Claims(w, m)
        BY <1>5, <2>2, <3>1 DEF Claims
      <4>3. QED BY <4>1, <4>2 DEF RowStep
    <3>2. CASE Current(w) # m
      BY <2>2, <3>2 DEF RowStep, TypeInv, RowsOK
    <3>3. QED BY <3>1, <3>2
  <2>3. QED BY <1>5, <2>1, <2>2 DEF Claim
<1>6. ASSUME NEW w \in Workers, Marks(w) PROVE RowStep(m)
  <2>1. CASE MarkSent(w)
    BY <1>6, <2>1 DEF MarkSent, RowStep, TypeInv, RowsOK, Message
  <2>2. CASE MarkRetry(w)
    BY <1>6, <2>2 DEF MarkRetry, Failing, RowStep, TypeInv, RowsOK, Message
  <2>3. CASE MarkFailed(w)
    BY <1>6, <2>3 DEF MarkFailed, Failing, RowStep, TypeInv, RowsOK, Message
  <2>4. QED BY <1>6, <2>1, <2>2, <2>3 DEF Marks
<1>7. ASSUME NEW a \in Admins, WriteMessage(a) PROVE RowStep(m)
  <2> DEFINE k == admins[a].id
  <2>1. k \in Messages
    BY <1>7 DEF WriteMessage, TypeInv, OthersOK
  <2>2. CASE Exists(k)
    <3>1. outbox' = [outbox EXCEPT ![k].status = "PENDING", ![k].due = TRUE]
      BY <1>7, <2>2 DEF WriteMessage
    <3>2. m # k => outbox'[m] = outbox[m]
      BY <3>1 DEF TypeInv, RowsOK
    <3>3. outbox'[k].status = "PENDING"
      BY <2>1, <3>1 DEF TypeInv, RowsOK, Message
    <3>4. QED BY <1>7, <3>2, <3>3 DEF RowStep
  <2>3. CASE ~Exists(k)
    BY <1>1, <1>7, <2>3 DEF WriteMessage
  <2>4. QED BY <2>2, <2>3
<1>8. ASSUME NEW a \in Admins, WriteLetter(a) PROVE RowStep(m)
  <2>1. letters[admins[a].id] \in DeadLetter
    BY <1>8, ElementOfSeq, LenProperties DEF WriteLetter, TypeInv, OthersOK
  <2>2. QED BY <1>2, <1>8, <2>1 DEF WriteLetter, DeadLetter
<1>9. QED
  BY <1>1, <1>3, <1>4, <1>5, <1>6, <1>7, <1>8
     DEF Next, Work, Administer, Marks, FetchBatch, SendMessage, Send, MarkingFails, Crash,
         ReadMessage, ReadLetter, ReadBy, vars

HoldsSame(w) == \A m \in Messages : Holds(w, m)' <=> Holds(w, m)

HoldsNothing(w) == \A m \in Messages : ~Holds(w, m)'

(* The ways in which what worker w holds changes.                          *)
WorkerStep(w) ==
    \/ HoldsSame(w)
    \/ \E m \in Messages :
          Claims(w, m) /\ outbox'[m].status = "PROCESSING"
          /\ (\A k \in Messages : Holds(w, k)' <=> k = m)
          /\ \A v \in Workers \ {w} : HoldsSame(v)
    \/ /\ HoldsNothing(w) /\ \A v \in Workers \ {w} : HoldsSame(v)
       /\ Marks(w) \/ Crash(w)

LEMMA WorkerSteps ==
    ASSUME TypeInv, [Next]_vars, NEW w \in Workers
    PROVE  WorkerStep(w)
<1>1. ASSUME NEW v \in Workers, workers'[v] = workers[v] PROVE HoldsSame(v)
  BY <1>1 DEF HoldsSame, Holds, Current
<1>2. ASSUME NEW v \in Workers, workers'[v].pc \in {"idle", "claim"} PROVE HoldsNothing(v)
  BY <1>2 DEF HoldsNothing, Holds
<1>3. ASSUME NEW v \in Workers, workers[v].pc \in {"idle", "claim"},
             workers'[v].pc \in {"idle", "claim"} PROVE HoldsSame(v)
  BY <1>3 DEF HoldsSame, Holds
<1>4. CASE UNCHANGED workers
  BY <1>1, <1>4 DEF WorkerStep
<1>5. ASSUME NEW v \in Workers, NEW batch \in Seq(Messages), batch # <<>>,
             StartTask(v, batch), At(v, "idle")
      PROVE  WorkerStep(w)
  BY <1>1, <1>3, <1>5, StartTaskKeeps DEF TypeInv, At, WorkerStep
<1>6. ASSUME NEW v \in Workers, FetchBatch(v) PROVE WorkerStep(w)
  <2>1. \E batch \in Seq(Messages) : batch # <<>> /\ StartTask(v, batch)
    BY <1>6, FetchedBatch DEF TypeInv
  <2>2. QED BY <1>5, <1>6, <2>1 DEF FetchBatch
<1>7. ASSUME NEW v \in Workers, NEW m \in Messages, SendMessage(v, m) PROVE WorkerStep(w)
  <2>1. <<m>> \in Seq(Messages) /\ <<m>> # <<>>
    OBVIOUS
  <2>2. QED BY <1>4, <1>5, <1>7, <2>1 DEF SendMessage
<1>8. ASSUME NEW v \in Workers, Claim(v) PROVE WorkerStep(w)
  <2>1. ~At(v, "idle") /\ Current(v) \in Messages /\ workers[v].pc = "claim"
    BY <1>8, CurrentType DEF Claim, At, TypeInv
  <2>2. CASE outbox[Current(v)].status = "PENDING"
    <3>1. /\ workers'[v].pc = "send" /\ workers'[v].batch = workers[v].batch
          /\ \A u \in Workers \ {v} : workers'[u] = workers[u]
          /\ outbox'[Current(v)].status = "PROCESSING"
      <4>1. workers' = [workers EXCEPT ![v].pc = "send"]
        BY <1>8, <2>2 DEF Claim
      <4>2. workers'[v].pc = "send" /\ workers'[v].batch = workers[v].batch
        BY <4>1 DEF TypeInv, WorkersOK, Worker
      <4>3. \A u \in Workers \ {v} : workers'[u] = workers[u]
        BY <4>1 DEF TypeInv, WorkersOK
      <4>4. outbox' = [outbox EXCEPT ![Current(v)].status = "PROCESSING"]
        BY <1>8, <2>2 DEF Claim
      <4>5. outbox'[Current(v)].status = "PROCESSING"
        BY <2>1, <4>4 DEF TypeInv, RowsOK, Message
      <4>6. QED BY <4>2, <4>3, <4>5
    <3>2. \A k \in Messages : Holds(v, k)' <=> k = Current(v)
      BY <3>1 DEF Holds, Current
    <3>3. \A u \in Workers \ {v} : HoldsSame(u)
      BY <1>1, <3>1
    <3>4. Claims(v, Current(v))
      BY <1>8, <2>2 DEF Claims
    <3>5. QED BY <2>1, <3>1, <3>2, <3>3, <3>4 DEF WorkerStep
  <2>3. CASE outbox[Current(v)].status # "PENDING"
    <3>1. TurnToNext(v)
      BY <1>8, <2>3 DEF Claim
    <3>2. QED BY <1>1, <1>3, <2>1, <3>1, TurnToNextKeeps DEF TypeInv, WorkerStep
  <2>4. QED BY <2>2, <2>3
<1>9. ASSUME NEW v \in Workers, Send(v) \/ MarkingFails(v) PROVE WorkerStep(w)
  <2>1. /\ workers[v].pc \in {"send", "mark"} /\ workers'[v].pc = "mark"
        /\ workers'[v].batch = workers[v].batch
        /\ \A u \in Workers \ {v} : workers'[u] = workers[u]
    <3>1. PICK outcome : workers' = [workers EXCEPT ![v].pc = "mark", ![v].outcome = outcome]
      <4>1. CASE Send(v)
        BY <4>1 DEF Send
      <4>2. CASE MarkingFails(v)
        <5>1. workers' = [workers EXCEPT ![v].pc = "mark", ![v].outcome = "failed"]
          BY <4>2 DEF MarkingFails, At, TypeInv, WorkersOK, Worker
        <5>2. QED BY <5>1
      <4>3. QED BY <1>9, <4>1, <4>2
    <3>2. workers[v].pc \in {"send", "mark"}
      BY <1>9 DEF Send, MarkingFails, At
    <3>3. QED BY <3>1, <3>2 DEF TypeInv, WorkersOK, Worker
  <2>2. HoldsSame(v)
    BY <2>1 DEF HoldsSame, Holds, Current
  <2>3. QED BY <1>1, <2>1, <2>2 DEF WorkerStep
<1>10. ASSUME NEW v \in Workers, Marks(v) PROVE WorkerStep(w)
  <2>1. ~At(v, "idle") /\ TurnToNext(v)
    BY <1>10 DEF Marks, MarkSent, MarkRetry, MarkFailed, Failing, At
  <2>2. QED BY <1>1, <1>2, <1>10, <2>1, TurnToNextKeeps DEF TypeInv, WorkerStep
<1>11. ASSUME NEW v \in Workers, Crash(v) PROVE WorkerStep(w)
  <2>1. /\ workers'[v].pc = "idle"
        /\ \A u \in Workers \ {v} : workers'[u] = workers[u]
    BY <1>11 DEF Crash, Resting, TypeInv, WorkersOK
  <2>2. QED BY <1>1, <1>2, <1>11, <2>1 DEF WorkerStep
<1>12. QED
  BY <1>4, <1>6, <1>7, <1>8, <1>9, <1>10, <1>11
     DEF Next, Work, Administer, Marks, Queue, RetryTimeComes, CleanUp,
         ReadMessage, ReadLetter, ReadBy, WriteMessage, WriteLetter, vars

(* Worker w has sent its message, with this report of its recipients.      *)
SendsWith(w, report) ==
    LET m == Current(w)
    IN /\ At(w, "send") /\ UNCHANGED <<outbox, admins, requests>>
       /\ report \in [Audience[outbox[m].payload] -> Reports(outbox[m].payload)]
       /\ workers'[w].outcome = Outcome(report)
       /\ workers'[w].pc = "mark" /\ workers'[w].batch = workers[w].batch
       /\ \A v \in Workers \ {w} : workers'[v] = workers[v]
       /\ m \in Messages
       /\ copies' = [copies EXCEPT ![m] = Received(m, report)]

(* A send reports on every recipient and leaves the other workers alone.   *)
LEMMA SendReports ==
    ASSUME TypeInv, NEW w \in Workers, Send(w)
    PROVE  \E report : SendsWith(w, report)
<1> DEFINE m == Current(w)
           p == outbox[m].payload
<1>1. PICK report \in [Audience[p] -> Reports(p)] :
          /\ workers' = [workers EXCEPT ![w].pc = "mark", ![w].outcome = Outcome(report)]
          /\ copies' = [copies EXCEPT ![m] = Received(m, report)]
  BY DEF Send, Received
<1>2. /\ workers'[w].outcome = Outcome(report) /\ workers'[w].batch = workers[w].batch
      /\ workers'[w].pc = "mark"
  BY <1>1 DEF TypeInv, WorkersOK, Worker
<1>3. At(w, "send") /\ UNCHANGED <<outbox, admins, requests>>
  BY DEF Send
<1>4. m \in Messages
  BY <1>3, CurrentType DEF At, TypeInv
<1>5. \A v \in Workers \ {w} : workers'[v] = workers[v]
  BY <1>1 DEF TypeInv, WorkersOK
<1>6. SendsWith(w, report)
  BY <1>1, <1>2, <1>3, <1>4, <1>5 DEF SendsWith
<1>7. QED BY <1>6

(* The ways in which a worker comes to a result to write.                  *)
LEMMA MarkerSteps ==
    ASSUME TypeInv, [Next]_vars, NEW w \in Workers, workers'[w].pc = "mark"
    PROVE  \/ workers'[w] = workers[w]
           \/ workers'[w].outcome = "failed"
           \/ \E report : SendsWith(w, report)
<1> SUFFICES ASSUME workers'[w] # workers[w]
             PROVE  \/ workers'[w].outcome = "failed"
                    \/ \E report : SendsWith(w, report)
  OBVIOUS
<1>1. ASSUME NEW v \in Workers, NEW batch \in Seq(Messages), batch # <<>>,
             StartTask(v, batch)
      PROVE  FALSE
  BY <1>1, StartTaskKeeps DEF TypeInv
<1>2. ASSUME NEW v \in Workers, ~At(v, "idle"), TurnToNext(v) PROVE FALSE
  BY <1>2, TurnToNextKeeps DEF TypeInv
<1>3. ASSUME NEW v \in Workers, FetchBatch(v) PROVE FALSE
  BY <1>1, <1>3, FetchedBatch DEF TypeInv
<1>4. ASSUME NEW v \in Workers, NEW m \in Messages, SendMessage(v, m) PROVE FALSE
  <2>1. <<m>> \in Seq(Messages) /\ <<m>> # <<>>
    OBVIOUS
  <2>2. QED BY <1>1, <1>4, <2>1 DEF SendMessage
<1>5. ASSUME NEW v \in Workers, Claim(v) PROVE FALSE
  <2>1. CASE TurnToNext(v)
    BY <1>2, <1>5, <2>1 DEF Claim, At
  <2>2. CASE workers' = [workers EXCEPT ![v].pc = "send"]
    BY <2>2 DEF TypeInv, WorkersOK, Worker
  <2>3. QED BY <1>5, <2>1, <2>2 DEF Claim
<1>6. ASSUME NEW v \in Workers, Marks(v) PROVE FALSE
  BY <1>2, <1>6 DEF Marks, MarkSent, MarkRetry, MarkFailed, Failing, At
<1>7. ASSUME NEW v \in Workers, MarkingFails(v) PROVE workers'[w].outcome = "failed"
  <2>1. workers' = [workers EXCEPT ![v].outcome = "failed"]
    BY <1>7 DEF MarkingFails
  <2>2. QED BY <2>1 DEF TypeInv, WorkersOK, Worker
<1>8. ASSUME NEW v \in Workers, Crash(v) PROVE FALSE
  BY <1>8 DEF Crash, Resting, TypeInv, WorkersOK
<1>9. ASSUME NEW v \in Workers, Send(v) PROVE \E report : SendsWith(w, report)
  <2>1. PICK report : SendsWith(v, report)
    BY <1>9, SendReports
  <2>2. v = w
    BY <2>1 DEF SendsWith
  <2>3. QED BY <2>1, <2>2
<1>10. QED
  BY <1>3, <1>4, <1>5, <1>6, <1>7, <1>8, <1>9
     DEF Next, Work, Administer, Marks, Queue, RetryTimeComes, CleanUp,
         ReadMessage, ReadLetter, ReadBy, WriteMessage, WriteLetter, vars

-----------------------------------------------------------------------------
(* A processing row has a worker, as long as none crashes *)

(* A worker at "mark" holds the message at hand.                           *)
LEMMA MarkerHolds ==
    ASSUME NEW w \in Workers, At(w, "mark")
    PROVE  Holds(w, Current(w))
BY DEF At, Holds

(* Whoever marks an existing message takes it out of PROCESSING.           *)
LEMMA MarkEndsProcessing ==
    ASSUME TypeInv, NEW w \in Workers, Marks(w), outbox[Current(w)].status = "PROCESSING"
    PROVE  outbox'[Current(w)].status # "PROCESSING"
<1> DEFINE m == Current(w)
<1>1. m \in Messages
  BY CurrentType DEF Marks, MarkSent, MarkRetry, MarkFailed, Failing, At, TypeInv
<1>2. outbox[m] \in Message /\ Exists(m)
  BY <1>1 DEF TypeInv, RowsOK, Exists
<1>3. CASE MarkSent(w)
  BY <1>1, <1>2, <1>3 DEF MarkSent, TypeInv, RowsOK, Message
<1>4. CASE MarkRetry(w)
  BY <1>1, <1>2, <1>4 DEF MarkRetry, TypeInv, RowsOK, Message
<1>5. CASE MarkFailed(w)
  BY <1>1, <1>2, <1>5 DEF MarkFailed, TypeInv, RowsOK, Message
<1>6. QED BY <1>3, <1>4, <1>5 DEF Marks

LEMMA StrandedStep ==
    ASSUME "crash" \notin Faults, TypeInv, NothingStranded, [Next]_vars
    PROVE  NothingStranded'
<1> SUFFICES ASSUME NEW m \in Messages, outbox'[m].status = "PROCESSING"
             PROVE  \E w \in Workers : Holds(w, m)'
  BY DEF NothingStranded
<1>1. ASSUME NEW w \in Workers, Claims(w, m) PROVE \E v \in Workers : Holds(v, m)'
  <2>1. workers[w].pc = "claim" /\ workers' = [workers EXCEPT ![w].pc = "send"]
    BY <1>1 DEF Claims, Claim, At
  <2>2. workers'[w].pc = "send" /\ workers'[w].batch = workers[w].batch
    BY <2>1 DEF TypeInv, WorkersOK, Worker
  <2>3. QED BY <1>1, <2>2 DEF Claims, Holds, Current
<1>2. CASE outbox[m].status = "PROCESSING"
  <2>1. PICK w \in Workers : Holds(w, m)
    BY <1>2 DEF NothingStranded
  <2>2. WorkerStep(w)
    BY WorkerSteps
  <2>3. CASE HoldsSame(w)
    BY <2>1, <2>3 DEF HoldsSame
  <2>4. ASSUME NEW k \in Messages, Claims(w, k) PROVE FALSE
    BY <2>1, <2>4 DEF Claims, Claim, At, Holds
  <2>5. ASSUME Marks(w) PROVE FALSE
    <3>1. Current(w) = m
      BY <2>1 DEF Holds
    <3>2. QED BY <1>2, <2>5, <3>1, MarkEndsProcessing
  <2>6. ~Crash(w)
    BY DEF Crash
  <2>7. QED BY <2>2, <2>3, <2>4, <2>5, <2>6 DEF WorkerStep
<1>3. CASE outbox[m].status # "PROCESSING"
  <2>1. RowStep(m)
    BY RowSteps
  <2>2. \E w \in Workers : Claims(w, m)
    BY <1>3, <2>1 DEF RowStep
  <2>3. QED BY <1>1, <2>2
<1>4. QED BY <1>2, <1>3

(* Unless a worker crashes, every PROCESSING row is in a worker's hands,   *)
(* for any number of workers and administrators.                           *)
THEOREM StrandedCorrect ==
    ASSUME "crash" \notin Faults
    PROVE  Spec => []NothingStranded
<1>1. Init => NothingStranded
  BY DEF Init, NothingStranded, NoMessage
<1>2. TypeInv /\ NothingStranded /\ [Next]_vars => NothingStranded'
  BY StrandedStep
<1>3. QED BY <1>1, <1>2, TypeInvariance, PTL DEF Spec

-----------------------------------------------------------------------------
(* With one administrator a row has one sender *)

OneAdmin == \A a, b \in Admins : a = b

(* The row that the administrator has checked is still failed.             *)
CheckedIsFailed ==
    \A a \in Admins :
        admins[a].kind = "message" => outbox[admins[a].id].status = "FAILED"

SenderInv == TypeInv /\ OneSender /\ CheckedIsFailed

(* A row in a worker's hands changes only by that worker's mark.           *)
LEMMA HeldRowStays ==
    ASSUME SenderInv, [Next]_vars, NEW w \in Workers, NEW m \in Messages,
           Holds(w, m), Holds(w, m)'
    PROVE  outbox'[m].status = "PROCESSING"
<1>1. outbox[m].status = "PROCESSING" /\ \A v \in Workers \ {w} : ~Holds(v, m)
  BY DEF SenderInv, OneSender
<1>2. RowStep(m)
  BY RowSteps DEF SenderInv
<1>3. ASSUME NEW v \in Workers, Marks(v), At(v, "mark"), Current(v) = m PROVE FALSE
  <2>1. v = w
    BY <1>1, <1>3, MarkerHolds
  <2>2. TurnToNext(w) /\ ~At(w, "idle")
    BY <1>3, <2>1 DEF Marks, MarkSent, MarkRetry, MarkFailed, At
  <2>3. workers'[w].pc \in {"idle", "claim"}
    BY <2>2, TurnToNextKeeps DEF SenderInv, TypeInv
  <2>4. QED BY <2>3 DEF Holds
<1>4. ASSUME NEW a \in Admins, WriteMessage(a), admins[a].id = m PROVE FALSE
  BY <1>1, <1>4 DEF SenderInv, CheckedIsFailed, WriteMessage
<1>5. QED BY <1>1, <1>2, <1>3, <1>4 DEF RowStep

LEMMA SenderStep ==
    ASSUME SenderInv, [Next]_vars
    PROVE  OneSender'
<1> SUFFICES ASSUME NEW w \in Workers, NEW m \in Messages, Holds(w, m)'
             PROVE  /\ outbox'[m].status = "PROCESSING"
                    /\ \A v \in Workers \ {w} : ~Holds(v, m)'
  BY DEF OneSender
<1>1. \A v \in Workers : WorkerStep(v)
  BY WorkerSteps DEF SenderInv
<1>2. ASSUME NEW v \in Workers, NEW k \in Messages, Claims(v, k)
      PROVE  \A u \in Workers : ~Holds(u, k)
  BY <1>2 DEF Claims, SenderInv, OneSender
<1>3. CASE Holds(w, m)
  <2>1. outbox'[m].status = "PROCESSING"
    BY <1>3, HeldRowStays
  <2>2. ASSUME NEW v \in Workers \ {w}, Holds(v, m)' PROVE FALSE
    <3>1. ~Holds(v, m)
      BY <1>3 DEF SenderInv, OneSender
    <3>2. Claims(v, m)
      BY <1>1, <2>2, <3>1 DEF WorkerStep, HoldsSame, HoldsNothing
    <3>3. QED BY <1>2, <1>3, <3>2
  <2>3. QED BY <2>1, <2>2
<1>4. CASE ~Holds(w, m)
  <2>1. /\ Claims(w, m) /\ outbox'[m].status = "PROCESSING"
        /\ \A v \in Workers \ {w} : HoldsSame(v)
    BY <1>1, <1>4 DEF WorkerStep, HoldsSame, HoldsNothing
  <2>2. \A v \in Workers : ~Holds(v, m)
    BY <1>2, <2>1
  <2>3. QED BY <2>1, <2>2 DEF HoldsSame
<1>5. QED BY <1>3, <1>4

LEMMA CheckedStep ==
    ASSUME OneAdmin, SenderInv, [Next]_vars
    PROVE  CheckedIsFailed'
<1> SUFFICES ASSUME NEW a \in Admins, admins'[a].kind = "message"
             PROVE  outbox'[admins'[a].id].status = "FAILED"
  BY DEF CheckedIsFailed
<1>1. CASE UNCHANGED admins
  <2> DEFINE m == admins[a].id
  <2>1. m \in Messages /\ outbox[m].status = "FAILED"
    BY <1>1 DEF SenderInv, TypeInv, OthersOK, CheckedIsFailed
  <2>2. RowStep(m)
    BY <2>1, RowSteps DEF SenderInv
  <2>3. ASSUME NEW w \in Workers, At(w, "mark"), Current(w) = m PROVE FALSE
    BY <2>1, <2>3, MarkerHolds DEF SenderInv, OneSender
  <2>4. ASSUME NEW b \in Admins, WriteMessage(b) PROVE FALSE
    <3>1. b = a
      BY DEF OneAdmin
    <3>2. admins' = [admins EXCEPT ![a] = NoRequest]
      BY <2>4, <3>1 DEF WriteMessage
    <3>3. QED BY <3>2 DEF NoRequest, SenderInv, TypeInv, OthersOK
  <2>5. outbox'[m].status = "FAILED"
    BY <2>1, <2>2, <2>3, <2>4 DEF RowStep, Claims
  <2>6. QED BY <1>1, <2>5
<1>2. ASSUME NEW b \in Admins, Administer(b) PROVE outbox'[admins'[a].id].status = "FAILED"
  <2>1. b = a
    BY DEF OneAdmin
  <2>2. ASSUME NEW m \in Messages, ReadMessage(a, m)
        PROVE  outbox'[admins'[a].id].status = "FAILED"
    <3>1. admins'[a].id = m
      BY <2>2 DEF ReadMessage, ReadBy, SenderInv, TypeInv, OthersOK
    <3>2. outbox'[m].status = "FAILED"
      BY <2>2 DEF ReadMessage, ReadBy, Retriable
    <3>3. QED BY <3>1, <3>2
  <2>3. ASSUME NEW i \in DOMAIN letters, ReadLetter(a, i) PROVE FALSE
    <3>1. admins' = [admins EXCEPT ![a] = [kind |-> "letter", id |-> i]]
      BY <2>3 DEF ReadLetter, ReadBy
    <3>2. QED BY <3>1 DEF SenderInv, TypeInv, OthersOK
  <2>4. ASSUME WriteMessage(a) \/ WriteLetter(a) PROVE FALSE
    <3>1. admins' = [admins EXCEPT ![a] = NoRequest]
      BY <2>4 DEF WriteMessage, WriteLetter
    <3>2. QED BY <3>1 DEF NoRequest, SenderInv, TypeInv, OthersOK
  <2>5. QED BY <1>2, <2>1, <2>2, <2>3, <2>4 DEF Administer
<1>3. QED
  BY <1>1, <1>2
     DEF Next, Work, Queue, RetryTimeComes, CleanUp, FetchBatch, SendMessage, Claim, Send,
         MarkSent, MarkRetry, MarkFailed, MarkingFails, Crash, vars

LEMMA SenderInvariance ==
    ASSUME OneAdmin
    PROVE  Spec => []SenderInv
<1>1. Init => SenderInv
  <2>1. Init => OneSender /\ CheckedIsFailed
    BY DEF Init, OneSender, CheckedIsFailed, Holds, Resting, NoRequest
  <2>2. QED BY <2>1, TypeInit DEF SenderInv
<1>2. SenderInv /\ [Next]_vars => SenderInv'
  BY TypeStep, SenderStep, CheckedStep DEF SenderInv
<1>3. QED BY <1>1, <1>2, PTL DEF Spec

(* With at most one administrator at a time, overlapping batches,          *)
(* send_message tasks and crashes never give a message two senders.        *)
THEOREM SenderCorrect ==
    ASSUME OneAdmin
    PROVE  Spec => []OneSender
<1>1. SenderInv => OneSender
  BY DEF SenderInv
<1>2. QED BY SenderInvariance, <1>1, PTL

(* Nor does a sent message ever return to the queue.                       *)
THEOREM SentCorrect ==
    ASSUME OneAdmin
    PROVE  Spec => SentIsFinal
<1>1. ASSUME SenderInv, [Next]_vars, NEW m \in Messages, outbox[m].status = "SENT"
      PROVE  outbox'[m].status \in {"SENT", "absent"}
  <2>1. RowStep(m)
    BY <1>1, RowSteps DEF SenderInv
  <2>2. ASSUME NEW w \in Workers, At(w, "mark"), Current(w) = m PROVE FALSE
    BY <1>1, <2>2, MarkerHolds DEF SenderInv, OneSender
  <2>3. ASSUME NEW a \in Admins, WriteMessage(a), admins[a].id = m PROVE FALSE
    BY <1>1, <2>3 DEF SenderInv, CheckedIsFailed, WriteMessage
  <2>4. QED BY <1>1, <2>1, <2>2, <2>3 DEF RowStep, Claims
<1>2. SenderInv /\ [Next]_vars =>
        [\A m \in Messages :
            outbox[m].status = "SENT" => outbox'[m].status \in {"SENT", "absent"}]_vars
  BY <1>1
<1>3. QED BY <1>2, SenderInvariance, PTL DEF Spec, SentIsFinal

-----------------------------------------------------------------------------
(* A failed row has its dead letter *)

(* Dead letters are never removed, and what they say of the message stays. *)
LEMMA LettersStay ==
    ASSUME TypeInv, [Next]_vars, NEW i \in DOMAIN letters
    PROVE  /\ i \in DOMAIN letters'
           /\ letters'[i].message = letters[i].message
           /\ letters'[i].payload = letters[i].payload
           /\ letters'[i].retries = letters[i].retries
<1>1. letters \in Seq(DeadLetter) /\ DOMAIN letters = 1..Len(letters)
      /\ letters[i] \in DeadLetter
  BY LenProperties, ElementOfSeq DEF TypeInv, OthersOK
<1>2. CASE UNCHANGED letters
  BY <1>2
<1>3. ASSUME NEW w \in Workers, MarkFailed(w) PROVE
           /\ i \in DOMAIN letters' /\ letters'[i] = letters[i]
  <2>1. TypeInv'
    BY TypeStep
  <2>2. PICK letter : letters' = Append(letters, letter)
    BY <1>3 DEF MarkFailed, Bury
  <2>3. QED BY <1>1, <2>2
<1>4. ASSUME NEW a \in Admins, WriteLetter(a) PROVE
           /\ i \in DOMAIN letters'
           /\ letters'[i].message = letters[i].message
           /\ letters'[i].payload = letters[i].payload
           /\ letters'[i].retries = letters[i].retries
  BY <1>1, <1>4 DEF WriteLetter, DeadLetter
<1>5. QED
  BY <1>2, <1>3, <1>4
     DEF Next, Work, Administer, Queue, RetryTimeComes, CleanUp, FetchBatch, SendMessage,
         Claim, Send, MarkSent, MarkRetry, MarkingFails, Crash,
         ReadMessage, ReadLetter, ReadBy, WriteMessage, vars

(* The dead letter accounts for the failure of m after so many retries. *)
Buries(letter, m, retries) ==
    letter.message = m /\ letter.retries = retries /\ letter.retries >= MaxRetries

(* Only a new row changes its payload.                                     *)
LEMMA PayloadSteps ==
    ASSUME TypeInv, [Next]_vars, NEW m \in Messages,
           outbox'[m].payload # outbox[m].payload
    PROVE  /\ m = NextId /\ outbox[m].payload = None
           /\ (\E p \in Payloads : Queue(p)) \/ (\E a \in Admins : WriteLetter(a))
<1> DEFINE New == /\ m = NextId /\ outbox[m].payload = None
                  /\ (\E p \in Payloads : Queue(p)) \/ (\E a \in Admins : WriteLetter(a))
<1>1. CASE UNCHANGED outbox
  BY <1>1
<1>2. ASSUME NEW p \in Payloads, outbox' = [outbox EXCEPT ![NextId] = NewMessage(p)],
             NextId \in Messages
      PROVE  m = NextId /\ outbox[m].payload = None
  <2>1. NextId = m
    BY <1>2 DEF TypeInv, RowsOK
  <2>2. QED BY <1>2, <2>1, NextIdIsFresh DEF TypeInv
<1>3. ASSUME NEW p \in Payloads, Queue(p) PROVE New
  BY <1>2, <1>3 DEF Queue
<1>4. ASSUME NEW a \in Admins, WriteLetter(a) PROVE New
  <2>1. letters[admins[a].id] \in DeadLetter
    BY <1>4, ElementOfSeq, LenProperties DEF WriteLetter, TypeInv, OthersOK
  <2>2. QED BY <1>2, <1>4, <2>1 DEF WriteLetter, DeadLetter
<1>5. outbox[m] \in Message /\ m \in DOMAIN outbox
  BY DEF TypeInv, RowsOK
<1>6. ASSUME NEW k \in Messages, RetryTimeComes(k) \/ CleanUp(k)
      PROVE  New
  <2>1. CASE RetryTimeComes(k)
    BY <1>5, <2>1 DEF RetryTimeComes, TypeInv, RowsOK, Message
  <2>2. CASE CleanUp(k)
    BY <1>5, <2>2 DEF CleanUp, TypeInv, RowsOK, Message
  <2>3. QED BY <1>6, <2>1, <2>2
<1>7. ASSUME NEW w \in Workers, Claim(w) PROVE New
  <2>1. CASE outbox' = [outbox EXCEPT ![Current(w)].status = "PROCESSING"]
    BY <1>5, <2>1 DEF TypeInv, RowsOK, Message
  <2>2. \/ outbox' = [outbox EXCEPT ![Current(w)].status = "PROCESSING"]
        \/ UNCHANGED outbox
    BY <1>7, Zenon DEF Claim
  <2>3. QED BY <1>1, <2>1, <2>2
<1>8. ASSUME NEW w \in Workers, Marks(w) PROVE New
  <2>1. CASE MarkSent(w)
    <3>1. CASE outbox' = [outbox EXCEPT ![Current(w)].status = "SENT"]
      BY <1>5, <3>1 DEF TypeInv, RowsOK, Message
    <3>2. QED BY <1>1, <2>1, <3>1 DEF MarkSent
  <2>2. CASE MarkRetry(w)
    BY <1>5, <2>2 DEF MarkRetry, TypeInv, RowsOK, Message
  <2>3. CASE MarkFailed(w)
    BY <1>5, <2>3 DEF MarkFailed, TypeInv, RowsOK, Message
  <2>4. QED BY <1>8, <2>1, <2>2, <2>3 DEF Marks
<1>9. ASSUME NEW a \in Admins, WriteMessage(a) PROVE New
  BY <1>5, <1>9 DEF WriteMessage, TypeInv, RowsOK, Message
<1>10. QED
  BY <1>1, <1>3, <1>4, <1>6, <1>7, <1>8, <1>9
     DEF Next, Work, Administer, Marks, FetchBatch, SendMessage, Send, MarkingFails, Crash,
         ReadMessage, ReadLetter, ReadBy, vars

LEMMA PayloadStays ==
    ASSUME TypeInv, [Next]_vars, NEW m \in Messages, outbox[m].payload # None
    PROVE  outbox'[m].payload = outbox[m].payload
BY PayloadSteps

LEMMA BuriedStep ==
    ASSUME TypeInv, FailedIsBuried, [Next]_vars
    PROVE  FailedIsBuried'
<1> SUFFICES ASSUME NEW m \in Messages, outbox'[m].status = "FAILED"
             PROVE  \E i \in DOMAIN letters' : Buries(letters'[i], m, outbox'[m].retries)
  BY DEF FailedIsBuried, Buries
<1>1. CASE outbox[m].status = "FAILED" /\ outbox'[m].retries = outbox[m].retries
  <2>1. PICK i \in DOMAIN letters : Buries(letters[i], m, outbox[m].retries)
    BY <1>1 DEF FailedIsBuried, Buries
  <2>2. QED BY <1>1, <2>1, LettersStay DEF Buries
<1>2. ASSUME NEW w \in Workers, MarkFailed(w), Current(w) = m
      PROVE  \E i \in DOMAIN letters' : Buries(letters'[i], m, outbox'[m].retries)
  <2> DEFINE n == outbox[m].retries + 1
             letter == [message |-> m, payload |-> outbox[m].payload, retries |-> n,
                        status |-> "FAILED"]
  <2>1. /\ outbox' = [outbox EXCEPT ![m].status = "FAILED", ![m].retries = n]
        /\ letters' = Append(letters, letter)
    BY <1>2 DEF MarkFailed, Bury
  <2>2. outbox'[m].retries = n
    BY <2>1 DEF TypeInv, RowsOK, Message
  <2>3. n >= MaxRetries
    BY <1>2 DEF MarkFailed, Exhausts
  <2> DEFINE last == Len(letters) + 1
  <2>4. letters \in Seq(DeadLetter) /\ Len(letters) \in Nat
    BY LenProperties DEF TypeInv, OthersOK
  <2>5. Buries(letter, m, n)
    BY <2>3 DEF Buries
  <2> HIDE DEF letter
  <2>6. last \in DOMAIN letters' /\ letters'[last] = letter
    BY <2>1, <2>4
  <2> HIDE DEF last, n
  <2>7. Buries(letters'[last], m, outbox'[m].retries)
    BY <2>2, <2>5, <2>6
  <2>8. QED BY <2>6, <2>7
<1>3. RowStep(m)
  BY RowSteps
<1>4. QED BY <1>1, <1>2, <1>3 DEF RowStep

(* A failed message always has a dead letter that accounts for its         *)
(* failure, for any number of workers and administrators and any faults.   *)
THEOREM BuriedCorrect == Spec => []FailedIsBuried
<1>1. Init => FailedIsBuried
  BY DEF Init, FailedIsBuried, NoMessage
<1>2. TypeInv /\ FailedIsBuried /\ [Next]_vars => FailedIsBuried'
  BY BuriedStep
<1>3. QED BY <1>1, <1>2, TypeInvariance, PTL DEF Spec

-----------------------------------------------------------------------------
(* What is marked as sent has arrived *)

Arrived(m) == \E r \in Audience[outbox[m].payload] : copies[m][r] > 0

(* A row in a worker's hands is one that was queued.                       *)
HeldIsQueued ==
    \A w \in Workers, m \in Messages : Holds(w, m) => outbox[m].payload # None

(* A worker about to write "sent" has delivered to somebody.               *)
ReportedHasArrived ==
    \A w \in Workers :
        At(w, "mark") /\ workers[w].outcome = "sent" => Arrived(Current(w))

ArrivalInv == TypeInv /\ HeldIsQueued /\ ReportedHasArrived /\ SentHasArrived

(* Nothing that was delivered is taken back: a step leaves the copies      *)
(* alone or is some worker's send.                                         *)
LEMMA CopiesSteps ==
    ASSUME TypeInv, [Next]_vars
    PROVE  UNCHANGED copies \/ \E v \in Workers : \E report : SendsWith(v, report)
<1>1. ASSUME NEW v \in Workers, Send(v) PROVE \E report : SendsWith(v, report)
  BY <1>1, SendReports
<1>2. QED
  BY <1>1
     DEF Next, Work, Administer, Queue, RetryTimeComes, CleanUp, FetchBatch, SendMessage,
         Claim, MarkSent, MarkRetry, MarkFailed, MarkingFails, Crash,
         ReadMessage, ReadLetter, ReadBy, WriteMessage, WriteLetter, vars

LEMMA ArrivedStays ==
    ASSUME TypeInv, [Next]_vars, NEW m \in Messages, outbox[m].payload \in Payloads,
           Arrived(m)
    PROVE  Arrived(m)'
<1> DEFINE p == outbox[m].payload
<1>1. PICK r \in Audience[p] : copies[m][r] > 0
  BY DEF Arrived
<1>2. r \in Recipients /\ copies \in [Messages -> [Recipients -> Nat]]
  BY <1>1, ConstantsAssumption DEF ConstantsAssumption, TypeInv, OthersOK
<1>3. ASSUME NEW v \in Workers, NEW report, SendsWith(v, report) PROVE copies'[m][r] > 0
  BY <1>1, <1>2, <1>3, ReceivedType, PostsType DEF SendsWith
<1>4. copies'[m][r] > 0
  BY <1>1, <1>3, CopiesSteps
<1>5. outbox'[m].payload = p
  BY PayloadStays, ConstantsAssumption DEF ConstantsAssumption
<1>6. QED BY <1>1, <1>4, <1>5 DEF Arrived

(* A send that is reported as sent has arrived.                            *)
LEMMA SendArrives ==
    ASSUME TypeInv, NEW w \in Workers, NEW report, SendsWith(w, report),
           workers'[w].outcome = "sent", outbox[Current(w)].payload \in Payloads
    PROVE  Arrived(Current(w))'
<1> DEFINE m == Current(w)
           p == outbox[m].payload
<1>1. PICK r \in Audience[p] : report[r].answer = "ok"
  BY DEF SendsWith, Outcome
<1>2. r \in Recipients /\ r \in DOMAIN report /\ m \in Messages
  BY <1>1, ConstantsAssumption DEF ConstantsAssumption, SendsWith
<1>3. report[r].arrived \in Nat /\ report[r].arrived > 0
  <2>1. report[r] \in Reports(p)
    BY <1>1 DEF SendsWith
  <2>2. QED BY <1>1, <2>1, PostsType DEF Reports
<1>4. copies'[m][r] = copies[m][r] + report[r].arrived /\ copies[m][r] \in Nat
  BY <1>2 DEF SendsWith, Received, TypeInv, OthersOK
<1>5. m' = m /\ UNCHANGED outbox
  BY DEF SendsWith, Current
<1>6. copies'[m][r] > 0
  BY <1>3, <1>4
<1>7. QED BY <1>1, <1>5, <1>6 DEF Arrived

LEMMA QueuedStep ==
    ASSUME TypeInv, HeldIsQueued, [Next]_vars
    PROVE  HeldIsQueued'
<1> SUFFICES ASSUME NEW w \in Workers, NEW m \in Messages, Holds(w, m)'
             PROVE  outbox'[m].payload # None
  BY DEF HeldIsQueued
<1>1. ASSUME Holds(w, m) PROVE outbox'[m].payload # None
  BY <1>1, PayloadStays DEF HeldIsQueued
<1>2. ASSUME NEW k \in Messages, Claims(w, k), \A n \in Messages : Holds(w, n)' <=> n = k
      PROVE  outbox'[m].payload # None
  <2>1. m = k
    BY <1>2
  <2>2. outbox[m].payload # None
    BY <1>2, <2>1 DEF Claims, TypeInv, RowsOK
  <2>3. QED BY <2>2, PayloadStays
<1>3. QED BY <1>1, <1>2, WorkerSteps DEF WorkerStep, HoldsSame, HoldsNothing

LEMMA ReportedStep ==
    ASSUME ArrivalInv, [Next]_vars
    PROVE  ReportedHasArrived'
<1> SUFFICES ASSUME NEW w \in Workers, workers'[w].pc = "mark",
                    workers'[w].outcome = "sent"
             PROVE  Arrived(Current(w))'
  BY DEF ReportedHasArrived, At
<1>1. ASSUME workers[w].pc \in {"send", "mark"}, workers'[w].batch = workers[w].batch
      PROVE  /\ Current(w) \in Messages /\ Current(w)' = Current(w)
             /\ outbox[Current(w)].payload \in Payloads
             /\ outbox'[Current(w)].payload = outbox[Current(w)].payload
  <2>1. Current(w) \in Messages /\ Current(w)' = Current(w)
    BY <1>1, CurrentType DEF At, Current, ArrivalInv, TypeInv
  <2>2. outbox[Current(w)].payload # None
    BY <1>1, <2>1 DEF Holds, HeldIsQueued, ArrivalInv
  <2>3. outbox[Current(w)].payload \in Payloads
    BY <2>1, <2>2 DEF ArrivalInv, TypeInv, RowsOK, Message
  <2>4. QED BY <2>1, <2>2, <2>3, PayloadStays DEF ArrivalInv
<1>2. CASE workers'[w] = workers[w]
  <2> DEFINE m == Current(w)
  <2>1. Arrived(m)
    BY <1>2 DEF At, ReportedHasArrived, ArrivalInv
  <2>2. m \in Messages /\ m' = m /\ outbox[m].payload \in Payloads
    BY <1>1, <1>2
  <2> HIDE DEF m
  <2>3. \E r \in Audience[outbox'[m].payload] : copies'[m][r] > 0
    BY <2>1, <2>2, ArrivedStays DEF Arrived, ArrivalInv
  <2>4. QED BY <2>2, <2>3 DEF Arrived, m
<1>3. ASSUME NEW report, SendsWith(w, report)
      PROVE  Arrived(Current(w))'
  BY <1>1, <1>3, SendArrives DEF SendsWith, At, ArrivalInv
<1>4. QED BY <1>2, <1>3, MarkerSteps DEF ArrivalInv

LEMMA ArrivedStep ==
    ASSUME ArrivalInv, [Next]_vars
    PROVE  SentHasArrived'
<1> SUFFICES ASSUME NEW m \in Messages, outbox'[m].status = "SENT"
             PROVE  Arrived(m)'
  BY DEF SentHasArrived, Arrived
<1>1. ASSUME outbox[m].payload \in Payloads, Arrived(m)
      PROVE  Arrived(m)'
  <2>1. outbox[m].payload # None
    BY <1>1, ConstantsAssumption DEF ConstantsAssumption
  <2>2. outbox'[m].payload = outbox[m].payload
    BY <2>1, PayloadStays DEF ArrivalInv
  <2>3. QED BY <1>1, <2>2, ArrivedStays DEF Arrived, ArrivalInv
<1>2. outbox[m] \in Message
  BY DEF ArrivalInv, TypeInv, RowsOK
<1>3. CASE outbox[m].status = "SENT"
  <2>1. outbox[m].payload \in Payloads
    BY <1>2, <1>3 DEF Message, ArrivalInv, TypeInv, RowsOK
  <2>2. QED BY <1>1, <1>3, <2>1 DEF SentHasArrived, Arrived, ArrivalInv
<1>4. ASSUME NEW w \in Workers, Marks(w), At(w, "mark"), Current(w) = m
      PROVE  Arrived(m)'
  <2>1. outbox[m].payload \in Payloads
    BY <1>2, <1>4, MarkerHolds DEF HeldIsQueued, Message, ArrivalInv
  <2>2. CASE MarkSent(w)
    BY <1>1, <1>4, <2>1, <2>2 DEF MarkSent, ReportedHasArrived, ArrivalInv
  <2>3. CASE MarkRetry(w)
    BY <1>2, <1>4, <2>3 DEF MarkRetry, ArrivalInv, TypeInv, RowsOK, Message
  <2>4. CASE MarkFailed(w)
    BY <1>2, <1>4, <2>4 DEF MarkFailed, ArrivalInv, TypeInv, RowsOK, Message
  <2>5. QED BY <1>4, <2>2, <2>3, <2>4 DEF Marks
<1>5. RowStep(m)
  BY RowSteps DEF ArrivalInv
<1>6. QED BY <1>3, <1>4, <1>5 DEF RowStep

(* Whatever the platform answers, a row is SENT only when somebody of its  *)
(* audience has the message, for any number of workers and administrators  *)
(* and with any faults.                                                    *)
THEOREM ArrivedCorrect == Spec => []SentHasArrived
<1>1. Init => ArrivalInv
  <2>1. Init => HeldIsQueued /\ ReportedHasArrived /\ SentHasArrived
    BY DEF Init, HeldIsQueued, ReportedHasArrived, SentHasArrived, Holds, At, Resting,
           NoMessage
  <2>2. QED BY <2>1, TypeInit DEF ArrivalInv
<1>2. ArrivalInv /\ [Next]_vars => ArrivalInv'
  BY TypeStep, QueuedStep, ReportedStep, ArrivedStep DEF ArrivalInv
<1>3. ArrivalInv => SentHasArrived
  BY DEF ArrivalInv
<1>4. QED BY <1>1, <1>2, <1>3, PTL DEF Spec

-----------------------------------------------------------------------------
(* The attempts that a row can still cause are bounded *)

Sends(w, m) == At(w, "send") /\ Current(w) = m

Sending(m) == {w \in Workers : Sends(w, m)}

Asking(m) == {a \in Admins : admins[a].kind = "message" /\ admins[a].id = m}

Waiting(m) == IF outbox[m].status = "PENDING" THEN 1 ELSE 0

(* The attempts at row m that are under way or will follow: workers that   *)
(* are to send it, administrators that are to put it back, and its own     *)
(* turn in the queue.                                                      *)
ToCome(m) == Cardinality(Sending(m)) + Cardinality(Asking(m)) + Waiting(m)

(* The attempts at row m that its retry count and the administrators'      *)
(* requests allow for.                                                     *)
Allowed(m) ==
    1 + (IF outbox[m].retries < MaxRetries THEN outbox[m].retries ELSE MaxRetries - 1)
      + requests

(* After n attempts nobody has more copies than they made requests, and n  *)
(* leaves room for the attempts to come.                                   *)
Counted(m, r) ==
    \E n \in Nat : /\ copies[m][r] <= Posts(outbox[m].payload) * n
                   /\ n + ToCome(m) <= Allowed(m)

(* An administrator asks for a row that was queued. *)
AskedIsQueued ==
    \A a \in Admins : admins[a].kind = "message" => outbox[admins[a].id].payload # None

(* Nobody has received anything of a row that was never queued. *)
UnqueuedUnsent ==
    \A m \in Messages : outbox[m].payload = None => \A r \in Recipients : copies[m][r] = 0

CountInv ==
    /\ TypeInv /\ HeldIsQueued /\ AskedIsQueued /\ UnqueuedUnsent
    /\ \A m \in Used, r \in Recipients : Counted(m, r)

LEMMA TimesOneMore ==
    ASSUME NEW k \in Nat, NEW n \in Nat
    PROVE  k * n \in Nat /\ k * (n + 1) = k * n + k
OBVIOUS

LEMMA TimesMore ==
    ASSUME NEW k \in Nat, NEW n \in Nat, NEW l \in Nat, n <= l
    PROVE  k * n <= k * l
<1>1. PICK d \in Nat : l = n + d
  <2>1. l - n \in Nat /\ l = n + (l - n)
    OBVIOUS
  <2>2. QED BY <2>1
<1>2. k * l = k * n + k * d
  BY <1>1
<1>3. k * d \in Nat /\ k * n \in Nat
  OBVIOUS
<1>4. QED BY <1>2, <1>3

(* Cardinalities of the finite sets of senders and of administrators.      *)
LEMMA Fewer ==
    ASSUME NEW T, IsFiniteSet(T), NEW S \in SUBSET T
    PROVE  /\ Cardinality(S) \in Nat /\ Cardinality(T) \in Nat
           /\ Cardinality(S) <= Cardinality(T)
BY FS_Subset, FS_CardinalityType

LEMMA OneMore ==
    ASSUME NEW T, IsFiniteSet(T), NEW x, NEW S \in SUBSET (T \cup {x})
    PROVE  Cardinality(S) \in Nat /\ Cardinality(S) <= Cardinality(T) + 1
<1>1. /\ IsFiniteSet(T \cup {x})
      /\ Cardinality(T \cup {x}) \in {Cardinality(T), Cardinality(T) + 1}
  BY FS_AddElement
<1>2. Cardinality(T) \in Nat
  BY FS_CardinalityType
<1>3. QED BY <1>1, <1>2, Fewer

LEMMA OneLess ==
    ASSUME NEW T, IsFiniteSet(T), NEW x \in T, NEW S \in SUBSET (T \ {x})
    PROVE  Cardinality(S) \in Nat /\ Cardinality(S) + 1 <= Cardinality(T)
<1>1. IsFiniteSet(T \ {x}) /\ Cardinality(T \ {x}) = Cardinality(T) - 1
  BY FS_RemoveElement
<1>2. Cardinality(T) \in Nat
  BY FS_CardinalityType
<1>3. QED BY <1>1, <1>2, Fewer

LEMMA ActorsFinite ==
    \A S : S \in SUBSET Workers \/ S \in SUBSET Admins
             => IsFiniteSet(S) /\ Cardinality(S) \in Nat
BY ConstantsAssumption, FS_Subset, FS_CardinalityType DEF ConstantsAssumption

LEMMA ToComeType ==
    ASSUME TypeInv, NEW m \in Messages
    PROVE  /\ IsFiniteSet(Sending(m)) /\ Cardinality(Sending(m)) \in Nat
           /\ IsFiniteSet(Asking(m)) /\ Cardinality(Asking(m)) \in Nat
           /\ Waiting(m) \in 0..1 /\ ToCome(m) \in Nat
           /\ Allowed(m) \in Nat /\ requests \in Nat /\ outbox[m].retries \in Nat
           /\ Allowed(m) <= MaxRetries + requests /\ MaxRetries \in Nat \ {0}
<1>1. Sending(m) \in SUBSET Workers /\ Asking(m) \in SUBSET Admins
  BY DEF Sending, Asking
<1>2. /\ IsFiniteSet(Sending(m)) /\ Cardinality(Sending(m)) \in Nat
      /\ IsFiniteSet(Asking(m)) /\ Cardinality(Asking(m)) \in Nat
  BY <1>1, ActorsFinite
<1>3. Waiting(m) \in 0..1
  BY DEF Waiting
<1>4. MaxRetries \in Nat \ {0} /\ requests \in Nat /\ outbox[m].retries \in Nat
  BY ConstantsAssumption DEF ConstantsAssumption, TypeInv, OthersOK, RowsOK, Message
<1>5. Allowed(m) \in Nat /\ Allowed(m) <= MaxRetries + requests
  BY <1>4 DEF Allowed
<1>6. QED BY <1>2, <1>3, <1>4, <1>5 DEF ToCome

LEMMA ToComeTypeNext ==
    ASSUME TypeInv', NEW m \in Messages
    PROVE  /\ Cardinality(Sending(m)') \in Nat /\ Cardinality(Asking(m)') \in Nat
           /\ Waiting(m)' \in 0..1 /\ ToCome(m)' \in Nat
           /\ Allowed(m)' \in Nat /\ requests' \in Nat /\ outbox'[m].retries \in Nat
<1>1. Sending(m)' \in SUBSET Workers /\ Asking(m)' \in SUBSET Admins
  BY DEF Sending, Asking
<1>2. Cardinality(Sending(m)') \in Nat /\ Cardinality(Asking(m)') \in Nat
  BY <1>1, ActorsFinite
<1>3. Waiting(m)' \in 0..1
  BY DEF Waiting
<1>4. MaxRetries \in Nat \ {0} /\ requests' \in Nat /\ outbox'[m].retries \in Nat
  BY ConstantsAssumption DEF ConstantsAssumption, TypeInv, OthersOK, RowsOK, Message
<1>5. Allowed(m)' \in Nat
  <2>1. Allowed(m)' =
          1 + (IF outbox'[m].retries < MaxRetries THEN outbox'[m].retries ELSE MaxRetries - 1)
            + requests'
    BY Zenon DEF Allowed
  <2>2. \A x, y \in Nat : 1 + (IF x < MaxRetries THEN x ELSE MaxRetries - 1) + y \in Nat
    BY <1>4
  <2>3. QED BY <1>4, <2>1, <2>2, Zenon
<1>6. QED BY <1>2, <1>3, <1>4, <1>5 DEF ToCome

(* Nothing that is allowed is taken back, and what a request or a retry    *)
(* that is not the last adds.                                              *)
LEMMA AllowedSteps ==
    ASSUME TypeInv, TypeInv', NEW m \in Messages,
           outbox'[m].retries >= outbox[m].retries, requests' >= requests
    PROVE  /\ Allowed(m) <= Allowed(m)'
           /\ requests' = requests + 1 => Allowed(m) + 1 <= Allowed(m)'
           /\ outbox'[m].retries = outbox[m].retries + 1 /\ outbox'[m].retries < MaxRetries
                => Allowed(m) + 1 <= Allowed(m)'
<1>1. Allowed(m)' =
        1 + (IF outbox'[m].retries < MaxRetries THEN outbox'[m].retries ELSE MaxRetries - 1)
          + requests'
  BY Zenon DEF Allowed
<1>2. /\ MaxRetries \in Nat \ {0} /\ requests \in Nat /\ requests' \in Nat
      /\ outbox[m].retries \in Nat /\ outbox'[m].retries \in Nat
  BY ToComeType, ToComeTypeNext
<1> DEFINE allowance(x, y) ==
        1 + (IF x < MaxRetries THEN x ELSE MaxRetries - 1) + y
<1>3. \A x, y, u, v \in Nat : u >= x /\ v >= y =>
          /\ allowance(x, y) <= allowance(u, v)
          /\ v = y + 1 => allowance(x, y) + 1 <= allowance(u, v)
          /\ u = x + 1 /\ u < MaxRetries => allowance(x, y) + 1 <= allowance(u, v)
  BY <1>2
<1>4. /\ Allowed(m) = allowance(outbox[m].retries, requests)
      /\ Allowed(m)' = allowance(outbox'[m].retries, requests')
  BY <1>1, Zenon DEF Allowed
<1> HIDE DEF allowance
<1>5. QED BY <1>2, <1>3, <1>4

(* A step that gives nobody a message leaves a row counted if it adds no   *)
(* attempt that is not allowed.                                            *)
LEMMA CountedKeeps ==
    ASSUME TypeInv, TypeInv', NEW m \in Messages, NEW r \in Recipients, Counted(m, r),
           copies'[m] = copies[m], outbox'[m].payload = outbox[m].payload,
           ToCome(m)' + Allowed(m) <= ToCome(m) + Allowed(m)'
    PROVE  Counted(m, r)'
<1>1. PICK n \in Nat : /\ copies[m][r] <= Posts(outbox[m].payload) * n
                       /\ n + ToCome(m) <= Allowed(m)
  BY DEF Counted
<1>2. /\ ToCome(m) \in Nat /\ Allowed(m) \in Nat
      /\ ToCome(m)' \in Nat /\ Allowed(m)' \in Nat
  BY ToComeType, ToComeTypeNext
<1>3. n + ToCome(m)' <= Allowed(m)'
  BY <1>1, <1>2
<1>4. copies'[m][r] <= Posts(outbox'[m].payload) * n
  BY <1>1
<1>5. QED BY <1>3, <1>4 DEF Counted, Posts

(* No step but a claim gives a worker a message to send.                   *)
SendsNoMore == \A w \in Workers, m \in Messages : Sends(w, m)' => Sends(w, m)

LEMMA SendsSteps ==
    ASSUME TypeInv, [Next]_vars
    PROVE  \/ SendsNoMore
           \/ \E w \in Workers :
                /\ Claims(w, Current(w)) /\ workers'[w].batch = workers[w].batch
                /\ \A v \in Workers \ {w} : workers'[v] = workers[v]
<1>1. ASSUME UNCHANGED workers PROVE SendsNoMore
  BY <1>1 DEF SendsNoMore, Sends, At, Current
<1>2. ASSUME NEW w \in Workers, workers'[w].pc \in {"idle", "claim", "mark"},
             \A v \in Workers \ {w} : workers'[v] = workers[v]
      PROVE  SendsNoMore
  BY <1>2 DEF SendsNoMore, Sends, At, Current
<1>3. ASSUME NEW w \in Workers, NEW batch \in Seq(Messages), batch # <<>>,
             StartTask(w, batch)
      PROVE  SendsNoMore
  BY <1>2, <1>3, StartTaskKeeps DEF TypeInv
<1>4. ASSUME NEW w \in Workers, ~At(w, "idle"), TurnToNext(w) PROVE SendsNoMore
  BY <1>2, <1>4, TurnToNextKeeps DEF TypeInv
<1>5. ASSUME NEW w \in Workers, FetchBatch(w) PROVE SendsNoMore
  BY <1>3, <1>5, FetchedBatch DEF TypeInv
<1>6. ASSUME NEW w \in Workers, NEW m \in Messages, SendMessage(w, m) PROVE SendsNoMore
  <2>1. <<m>> \in Seq(Messages) /\ <<m>> # <<>>
    OBVIOUS
  <2>2. QED BY <1>1, <1>3, <1>6, <2>1 DEF SendMessage
<1>7. ASSUME NEW w \in Workers, Claim(w)
      PROVE  \/ SendsNoMore
             \/ /\ Claims(w, Current(w)) /\ workers'[w].batch = workers[w].batch
                /\ \A v \in Workers \ {w} : workers'[v] = workers[v]
  <2>1. CASE TurnToNext(w)
    BY <1>4, <1>7, <2>1 DEF Claim, At
  <2>2. CASE /\ outbox[Current(w)].status = "PENDING"
             /\ workers' = [workers EXCEPT ![w].pc = "send"]
    BY <1>7, <2>2 DEF Claims, TypeInv, WorkersOK, Worker
  <2>3. QED BY <1>7, <2>1, <2>2 DEF Claim
<1>8. ASSUME NEW w \in Workers, Marks(w) PROVE SendsNoMore
  BY <1>4, <1>8 DEF Marks, MarkSent, MarkRetry, MarkFailed, Failing, At
<1>9. ASSUME NEW w \in Workers, MarkingFails(w) PROVE SendsNoMore
  <2>1. /\ workers'[w].pc = "mark"
        /\ \A v \in Workers \ {w} : workers'[v] = workers[v]
    BY <1>9 DEF MarkingFails, At, TypeInv, WorkersOK, Worker
  <2>2. QED BY <1>2, <2>1
<1>10. ASSUME NEW w \in Workers, Crash(w) PROVE SendsNoMore
  BY <1>2, <1>10 DEF Crash, Resting, TypeInv, WorkersOK
<1>11. ASSUME NEW w \in Workers, Send(w) PROVE SendsNoMore
  BY <1>2, <1>11, SendReports DEF SendsWith
<1>12. QED
  BY <1>1, <1>5, <1>6, <1>7, <1>8, <1>9, <1>10, <1>11
     DEF Next, Work, Administer, Marks, Queue, RetryTimeComes, CleanUp,
         ReadMessage, ReadLetter, ReadBy, WriteMessage, WriteLetter, vars

(* Nothing of row m is delivered and it keeps its payload.                 *)
RowKeeps(m) == copies'[m] = copies[m] /\ outbox'[m].payload = outbox[m].payload

(* A step that adds no attempt at row m and takes back no allowance.       *)
LEMMA NoAttemptAdded ==
    ASSUME TypeInv, TypeInv', NEW m \in Messages, NEW r \in Recipients, Counted(m, r),
           RowKeeps(m), SendsNoMore, Asking(m)' \subseteq Asking(m),
           outbox'[m].status = "PENDING" => outbox[m].status = "PENDING",
           outbox'[m].retries >= outbox[m].retries, requests' >= requests
    PROVE  Counted(m, r)'
<1>1. Sending(m)' \subseteq Sending(m)
  BY DEF Sending, SendsNoMore
<1>2. /\ Cardinality(Sending(m)') <= Cardinality(Sending(m))
      /\ Cardinality(Asking(m)') <= Cardinality(Asking(m))
  BY <1>1, Fewer, ToComeType
<1>3. Waiting(m)' <= Waiting(m)
  BY DEF Waiting
<1>4. ToCome(m)' = Cardinality(Sending(m)') + Cardinality(Asking(m)') + Waiting(m)'
  BY Zenon DEF ToCome
<1>5. ToCome(m) = Cardinality(Sending(m)) + Cardinality(Asking(m)) + Waiting(m)
  BY DEF ToCome
<1>6. ToCome(m)' <= ToCome(m)
  BY <1>2, <1>3, <1>4, <1>5, ToComeType, ToComeTypeNext
<1>7. Allowed(m) <= Allowed(m)'
  BY AllowedSteps
<1>8. ToCome(m)' + Allowed(m) <= ToCome(m) + Allowed(m)'
  BY <1>6, <1>7, ToComeType, ToComeTypeNext
<1>9. QED BY <1>8, CountedKeeps DEF RowKeeps

(* A worker claims row m: its turn in the queue becomes a send.            *)
LEMMA ClaimKeepsCounted ==
    ASSUME TypeInv, TypeInv', NEW m \in Messages, NEW r \in Recipients, Counted(m, r),
           NEW w \in Workers, Claims(w, Current(w)), workers'[w].batch = workers[w].batch,
           \A v \in Workers \ {w} : workers'[v] = workers[v]
    PROVE  Counted(m, r)'
<1> DEFINE k == Current(w)
<1>1. outbox' = [outbox EXCEPT ![k].status = "PROCESSING"] /\ outbox[k].status = "PENDING"
  BY DEF Claims, Claim
<1>2. UNCHANGED <<admins, requests, copies>>
  BY DEF Claims, Claim
<1>3. \A v \in Workers : Sends(v, m)' => Sends(v, m) \/ (v = w /\ m = k)
  BY DEF Sends, At, Current
<1>4. Asking(m)' = Asking(m)
  BY <1>2 DEF Asking
<1>5. CASE m # k
  <2>1. outbox'[m] = outbox[m]
    BY <1>1, <1>5 DEF TypeInv, RowsOK
  <2>2. Sending(m)' \subseteq Sending(m)
    BY <1>3, <1>5 DEF Sending
  <2>3. Cardinality(Sending(m)') <= Cardinality(Sending(m))
    BY <2>2, Fewer, ToComeType
  <2>4. Waiting(m)' = Waiting(m) /\ Allowed(m)' = Allowed(m)
    BY <1>2, <2>1 DEF Waiting, Allowed
  <2>5. ToCome(m)' = Cardinality(Sending(m)') + Cardinality(Asking(m)) + Waiting(m)
    BY <1>4, <2>4, Zenon DEF ToCome
  <2>6. ToCome(m) = Cardinality(Sending(m)) + Cardinality(Asking(m)) + Waiting(m)
    BY DEF ToCome
  <2>7. ToCome(m)' + Allowed(m) <= ToCome(m) + Allowed(m)'
    BY <2>3, <2>4, <2>5, <2>6, ToComeType, ToComeTypeNext
  <2>8. QED BY <1>2, <2>1, <2>7, CountedKeeps
<1>6. CASE m = k
  <2>1. /\ outbox'[m].status = "PROCESSING" /\ outbox'[m].retries = outbox[m].retries
        /\ outbox'[m].payload = outbox[m].payload
    BY <1>1, <1>6 DEF TypeInv, RowsOK, Message
  <2>2. Sending(m)' \subseteq Sending(m) \cup {w}
    BY <1>3 DEF Sending
  <2>3. Cardinality(Sending(m)') <= Cardinality(Sending(m)) + 1
    BY <2>2, OneMore, ToComeType
  <2>4. Waiting(m)' = 0 /\ Waiting(m) = 1 /\ Allowed(m)' = Allowed(m)
    BY <1>1, <1>2, <1>6, <2>1 DEF Waiting, Allowed
  <2>5. ToCome(m)' = Cardinality(Sending(m)') + Cardinality(Asking(m)) + 0
    BY <1>4, <2>4, Zenon DEF ToCome
  <2>6. ToCome(m) = Cardinality(Sending(m)) + Cardinality(Asking(m)) + Waiting(m)
    BY DEF ToCome
  <2>7. ToCome(m)' + Allowed(m) <= ToCome(m) + Allowed(m)'
    BY <2>3, <2>4, <2>5, <2>6, ToComeType, ToComeTypeNext
  <2>8. QED BY <1>2, <2>1, <2>7, CountedKeeps
<1>7. QED BY <1>5, <1>6

(* A send is one attempt more and one less to come.                        *)
LEMMA SendKeepsCounted ==
    ASSUME TypeInv, TypeInv', SendsNoMore, NEW m \in Messages, NEW r \in Recipients,
           Counted(m, r), NEW w \in Workers, NEW report, SendsWith(w, report)
    PROVE  Counted(m, r)'
<1>1. UNCHANGED <<outbox, admins, requests>>
  BY DEF SendsWith
<1>2. Asking(m)' = Asking(m) /\ Waiting(m)' = Waiting(m) /\ Allowed(m)' = Allowed(m)
  BY <1>1 DEF Asking, Waiting, Allowed
<1>3. CASE m # Current(w)
  <2>1. copies'[m] = copies[m]
    BY <1>3 DEF SendsWith, TypeInv, OthersOK
  <2>2. outbox[m].retries \in Nat /\ requests \in Nat
    BY ToComeType
  <2>3. QED BY <1>1, <1>2, <2>1, <2>2, NoAttemptAdded DEF RowKeeps
<1>4. CASE m = Current(w)
  <2> DEFINE k == Posts(outbox[m].payload)
  <2>1. PICK n \in Nat : copies[m][r] <= k * n /\ n + ToCome(m) <= Allowed(m)
    BY DEF Counted
  <2>2. w \in Sending(m) /\ Sending(m)' \subseteq Sending(m) \ {w}
    BY <1>4 DEF SendsWith, Sending, Sends, SendsNoMore, At
  <2>3. Cardinality(Sending(m)') + 1 <= Cardinality(Sending(m))
    BY <2>2, OneLess, ToComeType
  <2>4. ToCome(m)' = Cardinality(Sending(m)') + Cardinality(Asking(m)) + Waiting(m)
    BY <1>2, Zenon DEF ToCome
  <2>5. ToCome(m) = Cardinality(Sending(m)) + Cardinality(Asking(m)) + Waiting(m)
    BY DEF ToCome
  <2>6. (n + 1) + ToCome(m)' <= Allowed(m)'
    BY <1>2, <2>1, <2>3, <2>4, <2>5, ToComeType, ToComeTypeNext
  <2>7. copies'[m][r] <= copies[m][r] + k /\ copies[m][r] \in Nat /\ copies'[m][r] \in Nat
    <3>1. /\ report \in [Audience[outbox[m].payload] -> Reports(outbox[m].payload)]
          /\ copies' = [copies EXCEPT ![m] = Received(m, report)]
      BY <1>4 DEF SendsWith
    <3>2. copies'[m][r] = Received(m, report)[r]
      BY <3>1 DEF TypeInv, OthersOK
    <3>3. copies'[m][r] \in copies[m][r]..copies[m][r] + k /\ copies[m][r] \in Nat
      BY <3>1, <3>2, ReceivedType
    <3>4. k \in Nat
      BY PostsType
    <3> HIDE DEF k
    <3>5. QED BY <3>3, <3>4
  <2>8. k \in Nat /\ Posts(outbox[m].payload)' = k
    BY <1>1, PostsType DEF Posts
  <2> HIDE DEF k
  <2>9. copies'[m][r] <= k * (n + 1)
    <3>1. k * n \in Nat /\ k * (n + 1) = k * n + k
      BY <2>8, TimesOneMore
    <3>2. QED BY <2>1, <2>7, <2>8, <3>1
  <2>10. copies'[m][r] <= Posts(outbox[m].payload)' * (n + 1)
    BY <2>8, <2>9
  <2>11. n + 1 \in Nat
    OBVIOUS
  <2>12. QED BY <2>6, <2>10, <2>11 DEF Counted
<1>5. QED BY <1>3, <1>4

(* An attempt that failed is paid for by the retry count.                  *)
LEMMA RetryKeepsCounted ==
    ASSUME TypeInv, TypeInv', SendsNoMore, NEW m \in Messages, NEW r \in Recipients,
           Counted(m, r), NEW w \in Workers, MarkRetry(w)
    PROVE  Counted(m, r)'
<1> DEFINE k == Current(w)
<1>1. UNCHANGED <<admins, requests, copies>>
  BY DEF MarkRetry
<1>2. outbox' = [outbox EXCEPT ![k].status = "PENDING", ![k].retries = @ + 1, ![k].due = FALSE]
  BY DEF MarkRetry
<1>3. outbox[m].retries \in Nat /\ requests \in Nat /\ MaxRetries \in Nat
  BY ToComeType
<1>4. Asking(m)' = Asking(m)
  BY <1>1 DEF Asking
<1>5. CASE m # k
  <2>1. outbox'[m] = outbox[m]
    BY <1>2, <1>5 DEF TypeInv, RowsOK
  <2>2. QED BY <1>1, <1>3, <1>4, <2>1, NoAttemptAdded DEF RowKeeps
<1>6. CASE m = k
  <2>1. outbox'[m].retries = outbox[m].retries + 1 /\ outbox'[m].payload = outbox[m].payload
    BY <1>2, <1>6 DEF TypeInv, RowsOK, Message
  <2>2. outbox'[m].retries < MaxRetries
    BY <1>3, <1>6, <2>1 DEF MarkRetry, Exhausts
  <2>3. Allowed(m) + 1 <= Allowed(m)'
    BY <1>1, <1>3, <2>1, <2>2, AllowedSteps
  <2>4. Sending(m)' \subseteq Sending(m)
    BY DEF Sending, SendsNoMore
  <2>5. Cardinality(Sending(m)') <= Cardinality(Sending(m))
    BY <2>4, Fewer, ToComeType
  <2>6. ToCome(m)' = Cardinality(Sending(m)') + Cardinality(Asking(m)) + Waiting(m)'
    BY <1>4, Zenon DEF ToCome
  <2>7. ToCome(m) = Cardinality(Sending(m)) + Cardinality(Asking(m)) + Waiting(m)
    BY DEF ToCome
  <2>8. ToCome(m)' <= ToCome(m) + 1
    BY <2>5, <2>6, <2>7, ToComeType, ToComeTypeNext
  <2>9. ToCome(m)' + Allowed(m) <= ToCome(m) + Allowed(m)'
    BY <2>3, <2>8, ToComeType, ToComeTypeNext
  <2>10. QED BY <1>1, <2>1, <2>9, CountedKeeps
<1>7. QED BY <1>5, <1>6

(* A result that is final gives no row another turn.                       *)
LEMMA FinalKeepsCounted ==
    ASSUME TypeInv, TypeInv', SendsNoMore, NEW m \in Messages, NEW r \in Recipients,
           Counted(m, r), NEW w \in Workers, MarkSent(w) \/ MarkFailed(w)
    PROVE  Counted(m, r)'
<1>1. UNCHANGED <<admins, requests, copies>>
  BY DEF MarkSent, MarkFailed
<1>2. Asking(m)' = Asking(m) /\ outbox[m].retries \in Nat /\ requests \in Nat
  BY <1>1, ToComeType DEF Asking
<1>3. /\ outbox'[m].payload = outbox[m].payload
      /\ outbox'[m].retries >= outbox[m].retries
      /\ outbox'[m].status = "PENDING" => outbox[m].status = "PENDING"
  <2>1. CASE MarkSent(w)
    BY <1>2, <2>1 DEF MarkSent, TypeInv, RowsOK, Message
  <2>2. CASE MarkFailed(w)
    BY <1>2, <2>2 DEF MarkFailed, TypeInv, RowsOK, Message
  <2>3. QED BY <2>1, <2>2
<1>4. QED BY <1>1, <1>2, <1>3, NoAttemptAdded DEF RowKeeps

(* An administrator's request adds one to what is to come and to what is   *)
(* allowed.                                                                *)
LEMMA ReadKeepsCounted ==
    ASSUME TypeInv, TypeInv', SendsNoMore, NEW m \in Messages, NEW r \in Recipients,
           Counted(m, r), NEW a \in Admins, NEW kind \in {"message", "letter"}, NEW id,
           ReadBy(a, kind, id)
    PROVE  Counted(m, r)'
<1>1. UNCHANGED <<outbox, workers, copies>> /\ requests' = requests + 1
  BY DEF ReadBy
<1>2. Asking(m)' \subseteq Asking(m) \cup {a}
  BY DEF ReadBy, Asking, TypeInv, OthersOK
<1>3. Cardinality(Asking(m)') <= Cardinality(Asking(m)) + 1
  BY <1>2, OneMore, ToComeType
<1>4. Sending(m)' = Sending(m) /\ Waiting(m)' = Waiting(m)
  BY <1>1 DEF Sending, Sends, At, Current, Waiting
<1>5. Allowed(m) + 1 <= Allowed(m)'
  BY <1>1, AllowedSteps, ToComeType
<1>6. ToCome(m)' = Cardinality(Sending(m)) + Cardinality(Asking(m)') + Waiting(m)
  BY <1>4, Zenon DEF ToCome
<1>7. ToCome(m) = Cardinality(Sending(m)) + Cardinality(Asking(m)) + Waiting(m)
  BY DEF ToCome
<1>8. ToCome(m)' + Allowed(m) <= ToCome(m) + Allowed(m)'
  BY <1>3, <1>5, <1>6, <1>7, ToComeType, ToComeTypeNext
<1>9. QED BY <1>1, <1>8, CountedKeeps

(* When it is written, the attempt that was asked for takes its turn.      *)
LEMMA WriteKeepsCounted ==
    ASSUME TypeInv, TypeInv', SendsNoMore, NEW m \in Messages, NEW r \in Recipients,
           Counted(m, r), NEW a \in Admins, WriteMessage(a)
    PROVE  Counted(m, r)'
<1> DEFINE k == admins[a].id
<1>1. UNCHANGED <<workers, requests, copies>>
      /\ admins' = [admins EXCEPT ![a] = NoRequest] /\ admins[a].kind = "message"
  BY DEF WriteMessage
<1>2. outbox[m].retries \in Nat /\ requests \in Nat
  BY ToComeType
<1>3. Asking(m)' \subseteq Asking(m) \ {a}
  BY <1>1 DEF Asking, NoRequest, TypeInv, OthersOK
<1>4. /\ outbox'[m].payload = outbox[m].payload /\ outbox'[m].retries = outbox[m].retries
      /\ m # k => outbox'[m] = outbox[m]
  BY DEF WriteMessage, TypeInv, RowsOK, Message
<1>5. CASE m # k
  BY <1>1, <1>2, <1>3, <1>4, <1>5, NoAttemptAdded DEF RowKeeps
<1>6. CASE m = k
  <2>1. a \in Asking(m)
    BY <1>1, <1>6 DEF Asking
  <2>2. Cardinality(Asking(m)') + 1 <= Cardinality(Asking(m))
    BY <1>3, <2>1, OneLess, ToComeType
  <2>3. Sending(m)' = Sending(m)
    BY <1>1 DEF Sending, Sends, At, Current
  <2>4. Allowed(m)' = Allowed(m)
    BY <1>1, <1>4, Zenon DEF Allowed
  <2>5. ToCome(m)' = Cardinality(Sending(m)) + Cardinality(Asking(m)') + Waiting(m)'
    BY <2>3, Zenon DEF ToCome
  <2>6. ToCome(m) = Cardinality(Sending(m)) + Cardinality(Asking(m)) + Waiting(m)
    BY DEF ToCome
  <2>7. ToCome(m)' + Allowed(m) <= ToCome(m) + Allowed(m)'
    BY <2>2, <2>4, <2>5, <2>6, ToComeType, ToComeTypeNext
  <2>8. QED BY <1>1, <1>4, <2>7, CountedKeeps
<1>7. QED BY <1>5, <1>6

(* Steps that leave the administrators' questions and the copies alone.    *)
LEMMA QuietKeepsCounted ==
    ASSUME TypeInv, TypeInv', SendsNoMore, NEW m \in Messages, NEW r \in Recipients,
           Counted(m, r), UNCHANGED <<requests, copies>>,
           outbox'[m].payload = outbox[m].payload,
           outbox'[m].retries = outbox[m].retries,
           outbox'[m].status = "PENDING" => outbox[m].status = "PENDING",
           \/ UNCHANGED admins
           \/ \E a \in Admins : admins' = [admins EXCEPT ![a] = NoRequest]
    PROVE  Counted(m, r)'
<1>1. Asking(m)' \subseteq Asking(m)
  BY DEF Asking, NoRequest, TypeInv, OthersOK
<1>2. outbox[m].retries \in Nat /\ requests \in Nat
  BY ToComeType
<1>3. QED BY <1>1, <1>2, NoAttemptAdded DEF RowKeeps

LEMMA CountedStep ==
    ASSUME TypeInv, [Next]_vars, NEW m \in Used, NEW r \in Recipients, Counted(m, r)
    PROVE  Counted(m, r)'
<1>1. TypeInv' /\ m \in Messages /\ outbox[m].payload # None /\ outbox[m] \in Message
  BY TypeStep DEF Used, TypeInv, RowsOK
<1>2. ASSUME NEW w \in Workers, Claims(w, Current(w)), workers'[w].batch = workers[w].batch,
             \A v \in Workers \ {w} : workers'[v] = workers[v]
      PROVE  Counted(m, r)'
  BY <1>1, <1>2, ClaimKeepsCounted
<1> SUFFICES ASSUME SendsNoMore PROVE Counted(m, r)'
  BY <1>2, SendsSteps
<1>3. ASSUME UNCHANGED <<outbox, admins, requests, copies>> PROVE Counted(m, r)'
  BY <1>1, <1>3, QuietKeepsCounted
<1>4. ASSUME NextId \in Messages, NEW p, outbox' = [outbox EXCEPT ![NextId] = NewMessage(p)],
             UNCHANGED <<requests, copies>>,
             UNCHANGED admins \/ \E a \in Admins : admins' = [admins EXCEPT ![a] = NoRequest]
      PROVE  Counted(m, r)'
  <2>1. m # NextId
    BY <1>1, <1>4, NextIdIsFresh DEF TypeInv
  <2>2. outbox'[m] = outbox[m]
    BY <1>1, <1>4, <2>1 DEF TypeInv, RowsOK
  <2>3. QED BY <1>1, <1>4, <2>2, QuietKeepsCounted
<1>5. ASSUME NEW p \in Payloads, Queue(p) PROVE Counted(m, r)'
  BY <1>4, <1>5 DEF Queue
<1>6. ASSUME NEW k \in Messages, RetryTimeComes(k) \/ CleanUp(k) PROVE Counted(m, r)'
  <2>1. /\ outbox'[m].payload = outbox[m].payload /\ outbox'[m].retries = outbox[m].retries
        /\ outbox'[m].status = "PENDING" => outbox[m].status = "PENDING"
    <3>1. CASE RetryTimeComes(k)
      BY <1>1, <3>1 DEF RetryTimeComes, TypeInv, RowsOK, Message
    <3>2. CASE CleanUp(k)
      BY <1>1, <3>2 DEF CleanUp, TypeInv, RowsOK, Message
    <3>3. QED BY <1>6, <3>1, <3>2
  <2>2. UNCHANGED <<admins, requests, copies>>
    BY <1>6 DEF RetryTimeComes, CleanUp
  <2>3. QED BY <1>1, <2>1, <2>2, QuietKeepsCounted
<1>7. ASSUME NEW w \in Workers, Claim(w) PROVE Counted(m, r)'
  <2>1. UNCHANGED <<admins, requests, copies>>
    BY <1>7 DEF Claim
  <2>2. CASE UNCHANGED outbox
    BY <1>3, <2>1, <2>2
  <2>3. CASE outbox' = [outbox EXCEPT ![Current(w)].status = "PROCESSING"]
    <3>1. /\ outbox'[m].payload = outbox[m].payload /\ outbox'[m].retries = outbox[m].retries
          /\ outbox'[m].status = "PENDING" => outbox[m].status = "PENDING"
      BY <1>1, <2>3 DEF TypeInv, RowsOK, Message
    <3>2. QED BY <1>1, <2>1, <3>1, QuietKeepsCounted
  <2>4. QED BY <1>7, <2>2, <2>3, Zenon DEF Claim
<1>8. ASSUME NEW w \in Workers, Send(w) PROVE Counted(m, r)'
  BY <1>1, <1>8, SendReports, SendKeepsCounted
<1>9. ASSUME NEW w \in Workers, Marks(w) PROVE Counted(m, r)'
  BY <1>1, <1>9, RetryKeepsCounted, FinalKeepsCounted DEF Marks
<1>10. ASSUME NEW a \in Admins, Administer(a) PROVE Counted(m, r)'
  <2>1. ASSUME NEW k \in Messages, ReadMessage(a, k) PROVE Counted(m, r)'
    BY <1>1, <2>1, ReadKeepsCounted DEF ReadMessage
  <2>2. ASSUME NEW i \in DOMAIN letters, ReadLetter(a, i) PROVE Counted(m, r)'
    BY <1>1, <2>2, ReadKeepsCounted DEF ReadLetter
  <2>3. CASE WriteMessage(a)
    BY <1>1, <2>3, WriteKeepsCounted
  <2>4. CASE WriteLetter(a)
    BY <1>4, <2>4 DEF WriteLetter
  <2>5. QED BY <1>10, <2>1, <2>2, <2>3, <2>4 DEF Administer
<1>11. QED
  BY <1>3, <1>5, <1>6, <1>7, <1>8, <1>9, <1>10
     DEF Next, Work, Marks, FetchBatch, SendMessage, MarkingFails, Crash, vars

LEMMA AskedStep ==
    ASSUME TypeInv, AskedIsQueued, [Next]_vars
    PROVE  AskedIsQueued'
<1> SUFFICES ASSUME NEW a \in Admins, admins'[a].kind = "message"
             PROVE  outbox'[admins'[a].id].payload # None
  BY DEF AskedIsQueued
<1>1. CASE admins'[a] = admins[a]
  <2>1. admins[a].id \in Messages /\ outbox[admins[a].id].payload # None
    BY <1>1 DEF AskedIsQueued, TypeInv, OthersOK
  <2>2. QED BY <1>1, <2>1, PayloadStays
<1>2. ASSUME NEW b \in Admins, NEW m \in Messages, ReadMessage(b, m), b = a
      PROVE  outbox'[admins'[a].id].payload # None
  <2>1. admins'[a].id = m /\ UNCHANGED outbox /\ outbox[m].status = "FAILED"
    BY <1>2 DEF ReadMessage, ReadBy, Retriable, TypeInv, OthersOK
  <2>2. QED BY <2>1 DEF TypeInv, RowsOK
<1>3. ASSUME NEW b \in Admins, Administer(b), b # a PROVE admins'[a] = admins[a]
  BY <1>3 DEF Administer, ReadMessage, ReadLetter, ReadBy, WriteMessage, WriteLetter,
              TypeInv, OthersOK
<1>4. ASSUME NEW i \in DOMAIN letters, ReadLetter(a, i) PROVE FALSE
  <2>1. admins' = [admins EXCEPT ![a] = [kind |-> "letter", id |-> i]]
    BY <1>4 DEF ReadLetter, ReadBy
  <2>2. QED BY <2>1 DEF TypeInv, OthersOK
<1>5. ASSUME WriteMessage(a) \/ WriteLetter(a) PROVE FALSE
  <2>1. admins' = [admins EXCEPT ![a] = NoRequest]
    BY <1>5 DEF WriteMessage, WriteLetter
  <2>2. QED BY <2>1 DEF NoRequest, TypeInv, OthersOK
<1>6. ASSUME NEW b \in Admins, Administer(b) PROVE outbox'[admins'[a].id].payload # None
  BY <1>1, <1>2, <1>3, <1>4, <1>5, <1>6 DEF Administer
<1>7. QED
  BY <1>1, <1>6
     DEF Next, Work, Queue, RetryTimeComes, CleanUp, FetchBatch, SendMessage, Claim, Send,
         MarkSent, MarkRetry, MarkFailed, MarkingFails, Crash, vars

LEMMA UnsentStep ==
    ASSUME TypeInv, HeldIsQueued, UnqueuedUnsent, [Next]_vars
    PROVE  UnqueuedUnsent'
<1> SUFFICES ASSUME NEW m \in Messages, outbox'[m].payload = None, NEW r \in Recipients
             PROVE  copies'[m][r] = 0
  BY DEF UnqueuedUnsent
<1>1. outbox[m].payload = None
  BY PayloadStays
<1>2. copies[m][r] = 0
  BY <1>1 DEF UnqueuedUnsent
<1>3. ASSUME NEW w \in Workers, NEW report, SendsWith(w, report) PROVE copies'[m][r] = 0
  <2>1. Current(w) # m
    BY <1>1, <1>3 DEF SendsWith, At, Holds, HeldIsQueued
  <2>2. QED BY <1>2, <1>3, <2>1 DEF SendsWith, TypeInv, OthersOK
<1>4. QED BY <1>2, <1>3, CopiesSteps

(* A new row has its first attempt before it.                              *)
LEMMA NewRowCounted ==
    ASSUME CountInv, [Next]_vars, NEW m \in Used', m \notin Used, NEW r \in Recipients
    PROVE  Counted(m, r)'
<1>1. /\ TypeInv /\ TypeInv' /\ m \in Messages
      /\ outbox[m].payload = None /\ outbox'[m].payload # None
  BY TypeStep DEF CountInv, Used
<1>2. (\E p \in Payloads : Queue(p)) \/ (\E a \in Admins : WriteLetter(a))
  BY <1>1, PayloadSteps
<1>3. UNCHANGED <<workers, requests, copies>>
      /\ \A a \in Admins : admins'[a].kind = "message" => admins'[a] = admins[a]
  <2>1. CASE \E p \in Payloads : Queue(p)
    BY <2>1 DEF Queue
  <2>2. CASE \E a \in Admins : WriteLetter(a)
    BY <1>1, <2>2 DEF WriteLetter, NoRequest, TypeInv, OthersOK
  <2>3. QED BY <1>2, <2>1, <2>2
<1>4. Sending(m)' = {}
  <2>1. \A w \in Workers : ~Sends(w, m)
    BY <1>1 DEF CountInv, HeldIsQueued, Holds, Sends, At
  <2>2. QED BY <1>3, <2>1 DEF Sending, Sends, At, Current
<1>5. Asking(m)' = {}
  BY <1>1, <1>3 DEF Asking, CountInv, AskedIsQueued
<1>6. copies'[m][r] = 0
  BY <1>1, <1>3 DEF CountInv, UnqueuedUnsent
<1>7. ToCome(m)' = Cardinality({}) + Cardinality({}) + Waiting(m)'
  BY <1>4, <1>5, Zenon DEF ToCome
<1>8. Cardinality({}) = 0
  BY FS_EmptySet
<1>9. ToCome(m)' <= 1
  BY <1>1, <1>7, <1>8, ToComeTypeNext
<1>10. 1 <= Allowed(m)'
  <2>1. Allowed(m)' =
          1 + (IF outbox'[m].retries < MaxRetries THEN outbox'[m].retries ELSE MaxRetries - 1)
            + requests'
    BY Zenon DEF Allowed
  <2>2. \A x, y \in Nat :
          1 <= 1 + (IF x < MaxRetries THEN x ELSE MaxRetries - 1) + y
    BY ConstantsAssumption DEF ConstantsAssumption
  <2>3. outbox'[m].retries \in Nat /\ requests' \in Nat
    BY <1>1, ToComeTypeNext
  <2>4. QED BY <2>1, <2>2, <2>3, Zenon
<1>11. 0 + ToCome(m)' <= Allowed(m)'
  BY <1>1, <1>9, <1>10, ToComeTypeNext
<1>12. copies'[m][r] <= Posts(outbox[m].payload)' * 0
  <2>1. Posts(outbox[m].payload)' = Posts(outbox'[m].payload)
    BY DEF Posts
  <2>2. QED BY <1>6, <2>1, PostsType
<1>13. QED BY <1>11, <1>12 DEF Counted

(* Whatever workers and administrators run, die, overlap or fail to write  *)
(* a result, a message is attempted max_retries times and once more for    *)
(* each request, so nobody gets more copies of it than these attempts make *)
(* requests to the platform.                                               *)
THEOREM AttemptsCorrect == Spec => []AttemptsBounded
<1>1. Init => CountInv
  <2>1. Init => Used = {} /\ HeldIsQueued /\ AskedIsQueued
    BY DEF Init, Used, HeldIsQueued, AskedIsQueued, Holds, Resting, NoMessage, NoRequest
  <2>2. Init => UnqueuedUnsent
    BY DEF Init, UnqueuedUnsent
  <2>3. QED BY <2>1, <2>2, TypeInit DEF CountInv
<1>2. CountInv /\ [Next]_vars => CountInv'
  <2> SUFFICES ASSUME CountInv, [Next]_vars PROVE CountInv'
    OBVIOUS
  <2>1. TypeInv' /\ HeldIsQueued' /\ AskedIsQueued' /\ UnqueuedUnsent'
    BY TypeStep, QueuedStep, AskedStep, UnsentStep DEF CountInv
  <2>2. \A m \in Used', r \in Recipients : Counted(m, r)'
    BY CountedStep, NewRowCounted DEF CountInv
  <2>3. QED BY <2>1, <2>2 DEF CountInv
<1>3. CountInv => AttemptsBounded
  <2> SUFFICES ASSUME CountInv, NEW m \in Messages, NEW r \in Recipients
               PROVE  copies[m][r] <= Posts(outbox[m].payload) * (MaxRetries + requests)
    BY DEF AttemptsBounded
  <2> DEFINE k == Posts(outbox[m].payload)
             most == MaxRetries + requests
  <2>1. /\ k \in Nat /\ most \in Nat /\ copies[m][r] \in Nat
        /\ ToCome(m) \in Nat /\ Allowed(m) \in Nat /\ Allowed(m) <= most
    <3>1. TypeInv
      BY DEF CountInv
    <3>2. k \in Nat /\ copies[m][r] \in Nat
      BY <3>1, PostsType DEF TypeInv, OthersOK
    <3>3. QED BY <3>1, <3>2, ToComeType
  <2> HIDE DEF k, most
  <2>2. k * most \in Nat
    BY <2>1
  <2>3. CASE m \in Used
    <3>1. PICK n \in Nat : copies[m][r] <= k * n /\ n + ToCome(m) <= Allowed(m)
      BY <2>3 DEF CountInv, Counted, k
    <3>2. n <= most
      BY <2>1, <3>1
    <3>3. k * n <= k * most /\ k * n \in Nat
      BY <2>1, <3>2, TimesMore
    <3>4. copies[m][r] <= k * most
      BY <2>1, <2>2, <3>1, <3>3
    <3>5. QED BY <3>4 DEF k, most
  <2>4. CASE m \notin Used
    <3>1. copies[m][r] = 0
      BY <2>4 DEF Used, CountInv, UnqueuedUnsent
    <3>2. copies[m][r] <= k * most
      BY <2>2, <3>1
    <3>3. QED BY <3>2 DEF k, most
  <2>5. QED BY <2>3, <2>4
<1>4. QED BY <1>1, <1>2, <1>3, PTL DEF Spec

=============================================================================
