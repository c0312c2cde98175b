-------------------------------- MODULE Webhook --------------------------------
(***************************************************************************)
(* Idempotent processing of incoming WhatsApp messages: the table          *)
(* webhook_events and the request handlers around it                       *)
(* (app/api/webhooks/whatsapp.py and whatsapp_cloud.py).                   *)
(*                                                                         *)
(* A gateway delivers messages in batches, and may deliver one again.  A   *)
(* request handles its batch in one database session: it acquires a        *)
(* message by a row "processing", does its work, and marks the row         *)
(* "completed".  A failure leaves the row, and after 120 seconds another   *)
(* delivery of the message may take it over.                               *)
(***************************************************************************)
EXTENDS Integers, Sequences, FiniteSets

CONSTANTS
    Messages,       \* message ids
    Requests,       \* requests that may be open at the same time
    Gateways,       \* "wppconnect" and "cloud", the two webhooks
    MaxBatch,       \* bound on the messages in one request
    MaxDeliveries,  \* bound on requests
    Faults,         \* what may go wrong, see below
    None

(* "error": the work raises an exception.  "database": it raises one that  *)
(* leaves the transaction aborted.  "mark": the completion is not written. *)
(* "crash": the process dies.  "slow": the work outlasts the 120 seconds.  *)
ASSUME ConstantsAssumption ==
    /\ Gateways \subseteq {"wppconnect", "cloud"}
    /\ MaxBatch \in Nat \ {0} /\ MaxDeliveries \in Nat
    /\ Faults \subseteq {"error", "database", "mark", "crash", "slow"}

VARIABLES
    events,      \* status of each webhook_events row
    recent,      \* messages whose row was (re)acquired less than 120 s ago
    requests,    \* what each request is doing
    deliveries,  \* requests so far
    effects,     \* how often the work of each message was committed in full
    unmarked     \* messages whose work was committed and its completion lost

vars == <<events, recent, requests, deliveries, effects, unmarked>>

-----------------------------------------------------------------------------
(* Requests *)

(* "aborted": the session's transaction failed and was not rolled back.    *)
Request == [pc : {"idle", "acquire", "work", "mark"},
            gateway : {"wppconnect", "cloud", None},
            batch : Seq(Messages),
            aborted : BOOLEAN]

Idle == [pc |-> "idle", gateway |-> None, batch |-> <<>>, aborted |-> FALSE]

At(r, pc) == requests[r].pc = pc

Current(r) == Head(requests[r].batch)

(* The request has acquired m and has not finished with it. *)
WorksOn(r, m) == requests[r].pc \in {"work", "mark"} /\ Current(r) = m

Batches == UNION {[1..n -> Messages] : n \in 1..MaxBatch}

(* Seven days after its completion the row of a message is deleted; by     *)
(* then the gateways have given up delivering it.                          *)
Forgotten(m) == events[m] = "absent" /\ effects[m] > 0

Receive(r, gateway, batch) ==
    /\ At(r, "idle") /\ deliveries < MaxDeliveries
    /\ \A i \in DOMAIN batch : ~Forgotten(batch[i])
    /\ requests' = [requests EXCEPT ![r] = [pc |-> "acquire", gateway |-> gateway,
                                            batch |-> batch, aborted |-> FALSE]]
    /\ deliveries' = deliveries + 1
    /\ UNCHANGED <<events, recent, effects, unmarked>>

(* Fault: the end of the batch is not noticed. *)
TurnPastEnd(r, aborted) ==
    requests' = [requests EXCEPT ![r].pc = "acquire", ![r].batch = Tail(@),
                                 ![r].aborted = aborted]

(* The rest of the batch, in the same session. *)
TurnToNext(r, aborted) ==
    LET rest == Tail(requests[r].batch) IN
    requests' = [requests EXCEPT ![r] =
        IF rest = <<>> THEN Idle
        ELSE [pc |-> "acquire", gateway |-> @.gateway, batch |-> rest, aborted |-> aborted]]

-----------------------------------------------------------------------------
(* _try_acquire_message *)

(* Fault: a row that is being processed can always be taken over. *)
StaleAtOnce(m) == events[m] = "processing"

(* Fault: the UPDATE does not look at the status. *)
StaleWhateverStatus(m) == events[m] # "absent" /\ m \notin recent

Stale(m) == events[m] = "processing" /\ m \notin recent

(* INSERT in a savepoint, or UPDATE ... WHERE processing AND created_at is *)
(* older than the threshold; committed before the work starts.             *)
Acquire(r) ==
    /\ At(r, "acquire") /\ ~requests[r].aborted
    /\ LET m == Current(r) IN
       /\ events[m] = "absent" \/ Stale(m)
       /\ events' = [events EXCEPT ![m] = "processing"]
       /\ recent' = recent \cup {m}
    /\ requests' = [requests EXCEPT ![r].pc = "work"]
    /\ UNCHANGED <<deliveries, effects, unmarked>>

(* A message that is completed or in progress is skipped. *)
Skip(r) ==
    /\ At(r, "acquire") /\ ~requests[r].aborted
    /\ events[Current(r)] # "absent" /\ ~Stale(Current(r))
    /\ TurnToNext(r, FALSE)
    /\ UNCHANGED <<events, recent, deliveries, effects, unmarked>>

(* In an aborted transaction the savepoint fails.  The WPPConnect webhook  *)
(* logs it and goes on to the next message; the Cloud webhook lets the     *)
(* exception end the request.                                              *)
AcquireFails(r) ==
    /\ At(r, "acquire") /\ requests[r].aborted
    /\ \/ requests[r].gateway = "wppconnect" /\ TurnToNext(r, TRUE)
       \/ requests[r].gateway = "cloud" /\ requests' = [requests EXCEPT ![r] = Idle]
    /\ UNCHANGED <<events, recent, deliveries, effects, unmarked>>

-----------------------------------------------------------------------------
(* The work, and its completion *)

Work(r) ==
    /\ At(r, "work")
    /\ effects' = [effects EXCEPT ![Current(r)] = @ + 1]
    /\ requests' = [requests EXCEPT ![r].pc = "mark"]
    /\ UNCHANGED <<events, recent, deliveries, unmarked>>

(* Fault: "completed" is written whether the work succeeded or not. *)
WorkFailsMarking(r) ==
    /\ At(r, "work") /\ "error" \in Faults
    /\ requests' = [requests EXCEPT ![r].pc = "mark"]
    /\ UNCHANGED <<events, recent, deliveries, effects, unmarked>>

(* Neither webhook rolls back; a failed statement aborts the transaction.  *)
(* Parts of the work may have been committed before.                       *)
WorkFails(r) ==
    /\ At(r, "work")
    /\ \/ "error" \in Faults /\ TurnToNext(r, FALSE)
       \/ "database" \in Faults /\ TurnToNext(r, TRUE)
    /\ UNCHANGED <<events, recent, deliveries, effects, unmarked>>

(* _mark_message_completed, by message id alone. *)
Mark(r) ==
    /\ At(r, "mark")
    /\ events' = [events EXCEPT ![Current(r)] = "completed"]
    /\ TurnToNext(r, FALSE)
    /\ UNCHANGED <<recent, deliveries, effects, unmarked>>

(* An error while marking is logged.  A failed UPDATE leaves the           *)
(* transaction aborted, a failed COMMIT may end it.                        *)
MarkFails(r) ==
    /\ At(r, "mark") /\ "mark" \in Faults
    /\ unmarked' = unmarked \cup {Current(r)}
    /\ \E aborted \in BOOLEAN : TurnToNext(r, aborted)
    /\ UNCHANGED <<events, recent, deliveries, effects>>

Crash(r) ==
    /\ ~At(r, "idle") /\ "crash" \in Faults
    /\ unmarked' = IF At(r, "mark") THEN unmarked \cup {Current(r)} ELSE unmarked
    /\ requests' = [requests EXCEPT ![r] = Idle]
    /\ UNCHANGED <<events, recent, deliveries, effects>>

-----------------------------------------------------------------------------
(* Time *)

(* 120 seconds pass.  Unless it is slow, a request is done with a message  *)
(* by then.                                                                *)
LeaseEnds(m) ==
    /\ m \in recent
    /\ "slow" \in Faults \/ \A r \in Requests : ~WorksOn(r, m)
    /\ recent' = recent \ {m}
    /\ UNCHANGED <<events, requests, deliveries, effects, unmarked>>

(* cleanup_old_webhook_events: completed, and a week old. *)
CleanUp(m) ==
    /\ events[m] = "completed" /\ m \notin recent
    /\ \A r \in Requests : \A i \in DOMAIN requests[r].batch : requests[r].batch[i] # m
    /\ events' = [events EXCEPT ![m] = "absent"]
    /\ UNCHANGED <<recent, requests, deliveries, effects, unmarked>>

-----------------------------------------------------------------------------
Init ==
    /\ events = [m \in Messages |-> "absent"]
    /\ recent = {}
    /\ requests = [r \in Requests |-> Idle]
    /\ deliveries = 0
    /\ effects = [m \in Messages |-> 0]
    /\ unmarked = {}

Step(r) ==
    \/ Acquire(r) \/ Skip(r) \/ AcquireFails(r)
    \/ Work(r) \/ WorkFails(r) \/ Mark(r) \/ MarkFails(r) \/ Crash(r)

Next ==
    \/ \E r \in Requests :
        \/ \E g \in Gateways, batch \in Batches : Receive(r, g, batch)
        \/ Step(r)
    \/ \E m \in Messages : LeaseEnds(m) \/ CleanUp(m)

Spec == Init /\ [][Next]_vars

-----------------------------------------------------------------------------
(* Properties *)

(* Type invariant. *)
TypeOK ==
    /\ events \in [Messages -> {"absent", "processing", "completed"}]
    /\ recent \subseteq Messages
    /\ requests \in [Requests -> Request]
    /\ \A r \in Requests : At(r, "idle") <=> requests[r].batch = <<>>
    /\ deliveries \in 0..MaxDeliveries
    /\ effects \in [Messages -> Nat]
    /\ unmarked \subseteq Messages

(* A message is in the hands of one request at a time, however often it is *)
(* delivered at once and whatever fails (whatsapp.py 32-38).               *)
OneWorker ==
    \A r1, r2 \in Requests, m \in Messages :
        WorksOn(r1, m) /\ WorksOn(r2, m) => r1 = r2

(* The work of a message is repeated only if its completion was lost       *)
(* ("prevents double processing of webhook messages", PROJECT_MAP.md 79).  *)
DoneOnce == \A m \in Messages : effects[m] > 1 => m \in unmarked

(* A message is not recorded as completed before its work is.              *)
CompletedIsDone == \A m \in Messages : events[m] = "completed" => effects[m] > 0

=============================================================================
