--------------------------------- MODULE Outbox ---------------------------------
(***************************************************************************)
(* The transactional outbox: app/domain/services/outbox_service.py, the    *)
(* Celery tasks that empty it (app/workers/tasks.py) and the admin routes  *)
(* that send a failed message again (app/api/routes/admin_debug.py).       *)
(*                                                                         *)
(* A worker is one running Celery task.  The periodic task fetches a batch *)
(* of ids and then handles them one by one, each in a session of its own:  *)
(* claim the row by a conditional UPDATE, send, write the result.  Nothing *)
(* ties a PROCESSING row to the worker that claimed it.                    *)
(***************************************************************************)
EXTENDS Integers, Sequences, FiniteSets

CONSTANTS
    Payloads,        \* what producers ask to have sent
    Recipients,      \* chats and phone numbers
    Audience,        \* the recipients of each payload
    OnWhatsApp,      \* payloads for WhatsApp; the others are for Telegram
    Urgent,          \* payloads also handed to send_message at once (panel OTP)
    MaxMessages,     \* bound on outbox rows, ids are 1..MaxMessages
    MaxRetries,      \* max_retries of a row
    MaxPosts,        \* WHATSAPP_MAX_RETRIES: requests to the platform in one attempt
    BatchSize,       \* limit of get_pending_messages
    Workers,         \* tasks that may run at the same time
    Admins,          \* admin requests that may be open at the same time
    MaxRequests,     \* bound on admin requests
    Faults,          \* which faults happen: "crash" of a worker, "marking" not committed
    None

ASSUME ConstantsAssumption ==
    /\ Audience \in [Payloads -> SUBSET Recipients]
    /\ OnWhatsApp \subseteq Payloads /\ Urgent \subseteq Payloads
    /\ MaxMessages \in Nat /\ BatchSize \in Nat \ {0}
    /\ MaxRetries \in Nat \ {0} /\ MaxPosts \in Nat \ {0}
    /\ IsFiniteSet(Workers) /\ IsFiniteSet(Admins)
    /\ MaxRequests \in Nat /\ Faults \subseteq {"crash", "marking"}
    /\ None \notin Payloads

VARIABLES
    outbox,    \* outbox_messages: the row of each id
    letters,   \* dead_letter_messages, in order of creation
    urgent,    \* ids of send_message tasks not started yet
    workers,   \* what each worker is doing
    admins,    \* what each admin request has read
    requests,  \* admin requests so far
    copies     \* history: how often the text of each row reached each recipient

vars == <<outbox, letters, urgent, workers, admins, requests, copies>>

-----------------------------------------------------------------------------
(* Rows *)

Messages == 1..MaxMessages

(* "due": next_retry_at is NULL or has passed. *)
Message == [status : {"absent", "PENDING", "PROCESSING", "SENT", "FAILED"},
            payload : Payloads \cup {None},
            retries : Nat,
            due : BOOLEAN]

NewMessage(p) == [status |-> "PENDING", payload |-> p, retries |-> 0, due |-> TRUE]

NoMessage == [status |-> "absent", payload |-> None, retries |-> 0, due |-> FALSE]

DeadLetter == [message : Messages, payload : Payloads, retries : Nat,
               status : {"FAILED", "RETRIED"}]

(* Ids are never reused: the next one follows the largest given out. *)
Used == {m \in Messages : outbox[m].payload # None}

NextId == Cardinality(Used) + 1

-----------------------------------------------------------------------------
(* Producers *)

Queued(p) == \E m \in Used : outbox[m].payload = p

(* The queue_* methods add the row to the caller's transaction; the panel  *)
(* also starts a send_message task for the code it just queued.            *)
Queue(p) ==
    /\ ~Queued(p) /\ NextId \in Messages
    /\ outbox' = [outbox EXCEPT ![NextId] = NewMessage(p)]
    /\ urgent' = IF p \in Urgent THEN urgent \cup {NextId} ELSE urgent
    /\ UNCHANGED <<letters, workers, admins, requests, copies>>

(* The time passes that mark_as_failed wrote to next_retry_at. *)
RetryTimeComes(m) ==
    /\ outbox[m].status = "PENDING" /\ ~outbox[m].due
    /\ outbox' = [outbox EXCEPT ![m].due = TRUE]
    /\ UNCHANGED <<letters, urgent, workers, admins, requests, copies>>

-----------------------------------------------------------------------------
(* Workers *)

(* The head of the batch is the message at hand. *)
Worker == [pc : {"idle", "claim", "send", "mark"},
           batch : Seq(Messages),
           outcome : {"sent", "failed", None}]

Resting == [pc |-> "idle", batch |-> <<>>, outcome |-> None]

Current(w) == Head(workers[w].batch)

At(w, pc) == workers[w].pc = pc

(* The worker has claimed the message and has not written its result. *)
Holds(w, m) == workers[w].pc \in {"send", "mark"} /\ Current(w) = m

Awaiting == {m \in Messages : outbox[m].status = "PENDING" /\ outbox[m].due}

(* The oldest messages that are due, oldest first, up to the limit. *)
IsNextBatch(batch) ==
    /\ \A i, j \in DOMAIN batch : i < j => batch[i] < batch[j]
    /\ \A m \in Awaiting :
        \/ \E i \in DOMAIN batch : batch[i] = m
        \/ Len(batch) = BatchSize /\ \A i \in DOMAIN batch : batch[i] < m

StartTask(w, batch) ==
    workers' = [workers EXCEPT ![w] = [Resting EXCEPT !.pc = "claim", !.batch = batch]]

(* Fault: the end of the batch is not noticed. *)
TurnPastEnd(w) ==
    workers' = [workers EXCEPT ![w] =
        [Resting EXCEPT !.pc = "claim", !.batch = Tail(workers[w].batch)]]

(* The worker turns to the next message of its batch. *)
TurnToNext(w) ==
    workers' = [workers EXCEPT ![w] =
        IF Len(workers[w].batch) = 1 THEN Resting
        ELSE [Resting EXCEPT !.pc = "claim", !.batch = Tail(workers[w].batch)]]

(* process_outbox_messages: get_pending_messages, once for the whole batch *)
FetchBatch(w) ==
    /\ At(w, "idle")
    /\ \E n \in 1..BatchSize : \E batch \in [1..n -> Awaiting] :
        IsNextBatch(batch) /\ StartTask(w, batch)
    /\ UNCHANGED <<outbox, letters, urgent, admins, requests, copies>>

SendMessage(w, m) ==
    /\ At(w, "idle") /\ m \in urgent
    /\ urgent' = urgent \ {m}
    /\ IF outbox[m].status = "absent" THEN UNCHANGED workers ELSE StartTask(w, <<m>>)
    /\ UNCHANGED <<outbox, letters, admins, requests, copies>>

(* Fault: the claim is not written, the message is sent as PENDING. *)
ClaimSilently(w) ==
    /\ At(w, "claim")
    /\ IF outbox[Current(w)].status = "PENDING"
       THEN workers' = [workers EXCEPT ![w].pc = "send"]
       ELSE TurnToNext(w)
    /\ UNCHANGED <<outbox, letters, urgent, admins, requests, copies>>

(* UPDATE ... SET PROCESSING WHERE status = PENDING; no row, no sending.   *)
Claim(w) ==
    /\ At(w, "claim")
    /\ IF outbox[Current(w)].status = "PENDING"
       THEN /\ outbox' = [outbox EXCEPT ![Current(w)].status = "PROCESSING"]
            /\ workers' = [workers EXCEPT ![w].pc = "send"]
       ELSE /\ TurnToNext(w)
            /\ UNCHANGED outbox
    /\ UNCHANGED <<letters, urgent, admins, requests, copies>>

(* The requests to the platform in one attempt for one recipient: on       *)
(* WhatsApp both providers try again after a timeout, a broken connection  *)
(* or a transient status.                                                  *)
Posts(p) == IF p \in OnWhatsApp THEN MaxPosts ELSE 1

(* What an attempt comes to for one recipient: the provider's report, and  *)
(* how many of its requests have arrived.  An answer may be lost, so       *)
(* requests may have arrived before a success and in a failure; with an    *)
(* open circuit breaker there is none.                                     *)
Reports(p) == {report \in [answer : {"ok", "failed"}, arrived : 0..Posts(p)] :
                  report.answer = "ok" => report.arrived > 0}

(* Fault: a broadcast counts as sent whatever the platform reported. *)
OutcomeUnchecked(reports) ==
    IF DOMAIN reports # {} THEN "sent" ELSE "failed"

(* What the worker concludes from the reports of all recipients.  Every    *)
(* failure is transient: _is_transient_error looks at the status_code of   *)
(* the exception, and every WhatsAppError says 503, whatever the platform  *)
(* has answered; a Telegram send only reports success or not.              *)
Outcome(reports) ==
    IF \E r \in DOMAIN reports : reports[r].answer = "ok" THEN "sent" ELSE "failed"

(* One recipient, or a broadcast to all of them in parallel.               *)
Send(w) ==
    /\ At(w, "send")
    /\ LET m == Current(w)
           p == outbox[m].payload
       IN \E reports \in [Audience[p] -> Reports(p)] :
            /\ workers' = [workers EXCEPT ![w].pc = "mark", ![w].outcome = Outcome(reports)]
            /\ copies' = [copies EXCEPT ![m] =
                    [r \in Recipients |->
                        @[r] + IF r \in DOMAIN reports THEN reports[r].arrived ELSE 0]]
    /\ UNCHANGED <<outbox, letters, urgent, admins, requests>>

(* mark_as_* do nothing about a row that was deleted (but see CleanUp). *)
Exists(m) == outbox[m].status # "absent"

MarkSent(w) ==
    /\ At(w, "mark") /\ workers[w].outcome = "sent"
    /\ outbox' = IF Exists(Current(w))
                 THEN [outbox EXCEPT ![Current(w)].status = "SENT"] ELSE outbox
    /\ TurnToNext(w)
    /\ UNCHANGED <<letters, urgent, admins, requests, copies>>

(* Fault: one attempt too many. *)
ExhaustsLate(m) == outbox[m].retries + 1 > MaxRetries

Exhausts(m) == outbox[m].retries + 1 >= MaxRetries

Failing(w) ==
    At(w, "mark") /\ workers[w].outcome = "failed" /\ Exists(Current(w))

(* Fault: the failed message gets no dead letter. *)
BuryNothing(m, retries) ==
    letters' = letters

Bury(m, retries) ==
    letters' = Append(letters, [message |-> m, payload |-> outbox[m].payload,
                                retries |-> retries, status |-> "FAILED"])

(* Fault: a message that will be tried again stays PROCESSING. *)
MarkRetryInProcess(w) ==
    /\ Failing(w) /\ ~Exhausts(Current(w))
    /\ outbox' = [outbox EXCEPT ![Current(w)].retries = @ + 1, ![Current(w)].due = FALSE]
    /\ TurnToNext(w)
    /\ UNCHANGED <<letters, urgent, admins, requests, copies>>

(* mark_as_failed: the next attempt waits for the backoff to pass.         *)
MarkRetry(w) ==
    /\ Failing(w) /\ ~Exhausts(Current(w))
    /\ outbox' = [outbox EXCEPT ![Current(w)].status = "PENDING",
                                ![Current(w)].retries = @ + 1,
                                ![Current(w)].due = FALSE]
    /\ TurnToNext(w)
    /\ UNCHANGED <<letters, urgent, admins, requests, copies>>

(* mark_as_failed: no attempts left.                                       *)
MarkFailed(w) ==
    /\ Failing(w) /\ Exhausts(Current(w))
    /\ LET m == Current(w)
           retries == outbox[m].retries + 1
       IN /\ outbox' = [outbox EXCEPT ![m].status = "FAILED", ![m].retries = retries]
          /\ Bury(m, retries)
    /\ TurnToNext(w)
    /\ UNCHANGED <<urgent, admins, requests, copies>>

(* The commit of mark_as_sent fails: the handler of                        *)
(* _process_single_message records a failure instead.                      *)
MarkingFails(w) ==
    /\ "marking" \in Faults /\ At(w, "mark") /\ workers[w].outcome = "sent"
    /\ workers' = [workers EXCEPT ![w].outcome = "failed"]
    /\ UNCHANGED <<outbox, letters, urgent, admins, requests, copies>>

(* The worker is killed, passes its time limit of 300 s or fails outside   *)
(* the handler.  A redelivered periodic task is a new FetchBatch.          *)
Crash(w) ==
    /\ "crash" \in Faults /\ ~At(w, "idle")
    /\ workers' = [workers EXCEPT ![w] = Resting]
    /\ UNCHANGED <<outbox, letters, urgent, admins, requests, copies>>

-----------------------------------------------------------------------------
(* Administration *)

(* What an admin request has checked: a message or a dead letter to write. *)
Request == [kind : {"none", "message", "letter"}, id : Nat]

NoRequest == [kind |-> "none", id |-> 0]

ReadBy(a, kind, id) ==
    /\ admins[a] = NoRequest /\ requests < MaxRequests
    /\ requests' = requests + 1
    /\ admins' = [admins EXCEPT ![a] = [kind |-> kind, id |-> id]]
    /\ UNCHANGED <<outbox, letters, urgent, workers, copies>>

Retriable(m) == outbox[m].status = "FAILED"

(* POST /outbox/messages/{id}/retry selects the row without a lock ...     *)
ReadMessage(a, m) ==
    /\ Retriable(m)
    /\ ReadBy(a, "message", m)

(* Fault: the retry count starts again. *)
WriteMessageAfresh(a) ==
    /\ admins[a].kind = "message"
    /\ LET m == admins[a].id
       IN outbox' = IF Exists(m)
            THEN [outbox EXCEPT ![m].status = "PENDING", ![m].due = TRUE, ![m].retries = 0]
            ELSE outbox
    /\ admins' = [admins EXCEPT ![a] = NoRequest]
    /\ UNCHANGED <<letters, urgent, workers, requests, copies>>

(* ... and then sets it to PENDING; the retry count stays.                 *)
WriteMessage(a) ==
    /\ admins[a].kind = "message"
    /\ LET m == admins[a].id
       IN outbox' = IF Exists(m)
            THEN [outbox EXCEPT ![m].status = "PENDING", ![m].due = TRUE] ELSE outbox
    /\ admins' = [admins EXCEPT ![a] = NoRequest]
    /\ UNCHANGED <<letters, urgent, workers, requests, copies>>

(* POST /dead-letter/messages/{id}/retry: retry_dead_letter selects the    *)
(* letter without a lock ...                                               *)
ReadLetter(a, i) ==
    /\ letters[i].status = "FAILED"
    /\ ReadBy(a, "letter", i)

(* ... then adds a new message and marks the letter.                       *)
WriteLetter(a) ==
    /\ admins[a].kind = "letter" /\ NextId \in Messages
    /\ outbox' = [outbox EXCEPT ![NextId] = NewMessage(letters[admins[a].id].payload)]
    /\ letters' = [letters EXCEPT ![admins[a].id].status = "RETRIED"]
    /\ admins' = [admins EXCEPT ![a] = NoRequest]
    /\ UNCHANGED <<urgent, workers, requests, copies>>

(* cleanup_old_messages: a message that was sent thirty days ago.  A task   *)
(* lasts 300 s, so no worker still has such a message in hand.             *)
CleanUp(m) ==
    /\ outbox[m].status = "SENT" /\ \A w \in Workers : ~Holds(w, m)
    /\ outbox' = [outbox EXCEPT ![m].status = "absent"]
    /\ UNCHANGED <<letters, urgent, workers, admins, requests, copies>>

-----------------------------------------------------------------------------
Init ==
    /\ outbox = [m \in Messages |-> NoMessage]
    /\ letters = <<>>
    /\ urgent = {}
    /\ workers = [w \in Workers |-> Resting]
    /\ admins = [a \in Admins |-> NoRequest]
    /\ requests = 0
    /\ copies = [m \in Messages |-> [r \in Recipients |-> 0]]

Work(w) ==
    \/ FetchBatch(w)
    \/ \E m \in Messages : SendMessage(w, m)
    \/ Claim(w)
    \/ Send(w)
    \/ MarkSent(w)
    \/ MarkRetry(w)
    \/ MarkFailed(w)

Administer(a) ==
    \/ \E m \in Messages : ReadMessage(a, m)
    \/ WriteMessage(a)
    \/ \E i \in DOMAIN letters : ReadLetter(a, i)
    \/ WriteLetter(a)

Next ==
    \/ \E p \in Payloads : Queue(p)
    \/ \E m \in Messages : RetryTimeComes(m) \/ CleanUp(m)
    \/ \E w \in Workers : Work(w) \/ MarkingFails(w) \/ Crash(w)
    \/ \E a \in Admins : Administer(a)

Spec == Init /\ [][Next]_vars

(* Celery beat starts the periodic task every ten seconds, a running task  *)
(* goes on, and time passes.                                               *)
FairSpec ==
    /\ Spec
    /\ \A w \in Workers : WF_vars(Work(w))
    /\ \A m \in Messages : WF_vars(RetryTimeComes(m))

-----------------------------------------------------------------------------
(* Properties *)

(* The type invariant: rows, dead letters and workers are well formed, and *)
(* a worker that is not idle has a message at hand.                        *)
TypeOK ==
    /\ outbox \in [Messages -> Message]
    /\ letters \in Seq(DeadLetter)
    /\ urgent \subseteq Messages
    /\ workers \in [Workers -> Worker]
    /\ \A w \in Workers : At(w, "idle") <=> workers[w].batch = <<>>
    /\ admins \in [Admins -> Request]
    /\ requests \in 0..MaxRequests
    /\ copies \in [Messages -> [Recipients -> Nat]]

(* Between its claim and its result a message belongs to one worker, and   *)
(* is PROCESSING: overlapping batches and send_message tasks never send    *)
(* the same row at the same time (_process_single_message's claim).        *)
OneSender ==
    \A w \in Workers, m \in Messages : Holds(w, m) =>
        /\ outbox[m].status = "PROCESSING"
        /\ \A v \in Workers \ {w} : ~Holds(v, m)

(* A message that is being processed is in some worker's hands: nothing is *)
(* left in a state that get_pending_messages never looks at.               *)
NothingStranded ==
    \A m \in Messages : outbox[m].status = "PROCESSING" => \E w \in Workers : Holds(w, m)

(* SENT is only written once somebody of the audience has the message, for *)
(* broadcasts with partial failures and retried messages too.              *)
SentHasArrived ==
    \A m \in Messages : outbox[m].status = "SENT" =>
        \E r \in Audience[outbox[m].payload] : copies[m][r] > 0

(* A message is attempted max_retries times, and once more for each        *)
(* request of an administrator, however workers die, results are lost and  *)
(* administrators write over each other and over workers.  So even if      *)
(* every request to the platform arrives and no answer does, nobody gets   *)
(* more copies than these attempts make requests.                          *)
AttemptsBounded ==
    \A m \in Messages : \A r \in Recipients :
        copies[m][r] <= Posts(outbox[m].payload) * (MaxRetries + requests)

(* A FAILED message always has a dead letter that says so, with its        *)
(* attempts used up.                                                       *)
FailedIsBuried ==
    \A m \in Messages : outbox[m].status = "FAILED" =>
        \E i \in DOMAIN letters :
            /\ letters[i].message = m
            /\ letters[i].retries = outbox[m].retries /\ letters[i].retries >= MaxRetries

(* A message that was sent is never put back into the queue.               *)
SentIsFinal ==
    [][\A m \in Messages :
        outbox[m].status = "SENT" => outbox'[m].status \in {"SENT", "absent"}]_vars

(* Every queued message is sent or given up, unless a worker dies.         *)
EveryMessageSettles ==
    \A m \in Messages :
        outbox[m].status = "PENDING" ~> outbox[m].status \notin {"PENDING", "PROCESSING"}

=============================================================================
