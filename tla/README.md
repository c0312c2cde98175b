# Shipment-bot: a TLA+ model

Shipment-bot lets senders publish deliveries over WhatsApp and Telegram, couriers
capture them against a wallet, stations approve and earn commissions on them, and
drivers search for rides. It is a FastAPI application and a set of Celery tasks over
one PostgreSQL database and Redis. This directory holds TLA+ models of its core, TLC
configurations that check them on small instances, and TLAPS proofs of what matters
most. Paths below are relative to `src/app/` unless they say otherwise.

Contents: [inventory](#inventory) · [modules](#modules) · [the delivery lifecycle](#the-delivery-lifecycle) ·
[the outbox](#the-outbox) · [the webhooks](#the-webhooks) · [the circuit breaker](#the-circuit-breaker) ·
[drivers](#drivers) · [conversations](#conversations) · [station owners and the panel](#station-owners-and-the-panel) ·
[runs](#runs) · [proofs](#proofs) · [disagreements found](#disagreements-found) ·
[what is not modelled](#what-is-not-modelled) · [plan](#plan)

## Inventory

| Component | State it keeps | Operations | What is hard, and what makes it correct |
|---|---|---|---|
| Capture (`domain/services/capture_service.py`) | `deliveries`, `courier_wallets`, `wallet_ledger` | capture, capture by link token, release | Concurrent captures; the lock on the delivery, then on the wallet; SQLAlchemy's identity map. One courier pays, holds what was paid for, and never passes the credit limit. |
| Shipment workflow (`shipment_workflow_service.py`) | approval columns of `deliveries` | request, approve, reject | Two dispatchers answer at once; approval and charge in one transaction. A station's delivery is captured through an approval. |
| Deliveries (`delivery_service.py`, `api/routes/deliveries.py`) | `deliveries`, `station_ledger` | create, deliver, cancel, expire | A cancel or an expiry overlaps a capture. Final states are final, cancelled deliveries are paid for by nobody, delivered ones have their commission. |
| Wallets (`wallet_service.py`) | `courier_wallets`, `wallet_ledger` | debit, credit, queries | The ledger explains the balance. The services above write both tables themselves; `debit` and `credit` have no production caller. |
| Outbox (`outbox_service.py`, `workers/tasks.py`) | `outbox_messages`, `dead_letter_messages` | queue, fetch, claim, send, mark, bury, clean up | Overlapping workers, lost answers, crashes, retries. One sender per message, bounded attempts, everything settles, failures are recorded. |
| Outbox administration (`api/routes/admin_debug.py`) | same tables | retry a message, retry a dead letter | Unlocked check, later write. One more attempt per request; what was sent stays sent. |
| Circuit breaker (`core/circuit_breaker.py`) | counters in memory, one per process and service | execute | Late results, limited probes. Opens on consecutive failures only, bounds its probes, does not stay half-open. |
| Station administration (`station_service.py`, `api/routes/panel/*`) | stations, owners, dispatchers, wallet, manual charges, blacklist | add and remove people, charge, change the rate, block automatically | Concurrent removal of the last owners, concurrent charges, idempotent blocking. |
| Conversations (`state_machine/*`, routed by `api/webhooks/*`) | `conversation_sessions`: state and JSON context of each user and platform | one transition per message | Two messages of one user at once; stale context; transitions outside the tables; two platforms of one user. |
| Webhooks (`api/webhooks/*`) | `webhook_events` | acquire, route, complete | Repeated and concurrent deliveries of one message, handlers that outlive their lease or fail half-way. |
| Driver services (`driver_*_service.py`, `ride_posting_service.py`) | driver sessions, searches, profiles | start, touch, remind, disconnect; create, pause, resume searches; trial, purchase, expiry | A task and a message of the driver interleave; limits checked before an insert; purchases read before they write. |
| Panel authentication (`core/auth.py`, `api/routes/panel/auth.py`) | Redis: codes, attempt counters, refresh tokens | request and verify a code, refresh | Counters and one-time use with several Redis calls. |
| Periodic tasks (`workers/tasks.py`, `workers/celery_app.py`) | the tables above | every 10 s to monthly | Runs of a task overlap each other and the requests. |
| Everything else | see [below](#what-is-not-modelled) | | |

How they interact: webhooks and routes call the services inside one database session
per request; services queue messages by inserting outbox rows in the same transaction;
the outbox task sends them through a provider guarded by a circuit breaker; periodic
tasks work on the same tables in sessions of their own. There is no message queue
between components but the outbox, and no in-memory state shared between requests but
the circuit breakers.

## Modules

| Module | What it is |
|---|---|
| `DeliveryLifecycle.tla` | deliveries, wallets, ledgers and blacklist under concurrent sessions |
| `DeliveryContract.tla` | what the delivery services promise: atomic captures, releases and decisions |
| `Outbox.tla` | the transactional outbox, its workers and administrators |
| `Webhook.tla` | idempotent processing of incoming WhatsApp messages |
| `CircuitBreaker.tla` | one circuit breaker and its overlapping calls |
| `Drivers.tla` | a driver's session, searches and subscription under messages and periodic tasks |
| `Answers.tla` | the form of every conversation handler: an answer, and what it does to the context |
| `SenderFlow.tla`, `CourierFlow.tla`, `DispatcherFlow.tla`, `StationOwnerFlow.tla`, `DriverFlow.tla`, `AdminFlow.tla` | the handlers of each role, one operator per state, and the transition tables |
| `Handlers.tla` | the handlers of all flows: what a message to a person in a state can come to |
| `Dialogue.tla` | a person with a conversation; what the three webhooks share |
| `TelegramRouting.tla`, `WhatsAppRouting.tla`, `CloudRouting.tla` | which handler or menu a message of a person reaches, per webhook |
| `Conversation.tla` | the composition: messages of one person, decisions of others, deaths of the process |
| `StationOwners.tla` | who owns a station, in rows and in the old column, and the role that follows |
| `PanelAccess.tla` | extends `StationOwners` by the panel's door: codes, counters, logins, refresh tokens |
| `*_proofs.tla` | TLAPS proofs about the module of that name; those about `StationOwners` are in `PanelAccess_proofs` |
| `MC*.tla`, `*.cfg` | instances for TLC |

`DeliveryLifecycle` implements `DeliveryContract` and `PanelAccess` implements
`StationOwners`. `Conversation` extends `Handlers`, which has an instance of each flow, and
instantiates `Dialogue` and the routings with these handlers.

Definitions whose comment starts with "Fault:" belong to no specification. Each is a
plausible bug, an alternative to the definition that follows it, and shows that a
property is able to fail: with the fault in its place TLC finds the property violated.
`PROJECT.json` names the source lines of every definition.

## The delivery lifecycle

`DeliveryLifecycle` models the database session, because that is where the difficulty
is. `database.py` creates sessions with `expire_on_commit=False` on PostgreSQL's default
isolation, READ COMMITTED, and the services use `SELECT ... FOR UPDATE`. Three facts
follow, stated at the head of the module: a locking select waits and then holds the row
until commit or rollback; a session's identity map returns an object it has already
loaded *with its loaded attributes*, also from a locking select, as no query asks for
`populate_existing`; a flush writes only the attributes that differ from the loaded ones.

| Model | Code |
|---|---|
| `deliveries`, `wallets`, `balance`, `ledger`, `commissions`, `blacklist` | committed rows of the tables, reduced to the columns the services decide on |
| `tx[s]` | the open transaction of session `s`: where it is (`pc`), what it does, and `obj`, the delivery object loaded before the lock |
| `rowLock`, `walletLock` | row locks |
| `Begin` | the entry points: `CaptureRoute` and `DeliverRoute` load nothing first; `FollowLink`, `DispatcherDecides`, `CancelRoute` and `SelectExpired` do |
| `LockDelivery`, `LockWallet`, `FindNoWallet`, `InsertWallet`, `Capture`, `ReleaseDelivery` | the two-lock operations, one step per lock and one per commit |
| `Request`, `Reject`, `MarkDelivered`, `AutoCancel`, `Refuse` | operations under one lock, from lock to commit in one step |
| `Cancel` | the unlocked update of `cancel_delivery` |
| `AddToBlacklist`, `RemoveFromBlacklist` | the station owners' transactions |

Abstractions. A step from a lock to the commit is one action when no other row is locked
in between: others can neither write the row nor see the uncommitted change. A refusal
releases its locks in the same step; the request still has to answer its user and close
the session, and longer-held locks only delay others. Couriers are approved throughout,
since approval is never revoked. A delivery's creation is the initial state. Money is
integers: the code adds and subtracts exact decimals only. The commission is the fact
that the station ledger has its row; the station wallet is locked, updated and committed
inside `MarkDelivered`'s transaction and meets no other operation of the module.
Deadlines are not modelled: any uncaptured delivery may be expired when the task runs.

Properties. `LedgerExplainsBalance` and `CreditRespected` say that no interleaving loses a
charge or passes a limit. `HolderIsCharged` says that whoever holds a delivery has paid,
even though stale objects overwrite the status. `DeliveredIsCommissioned` ties the status
to the station's ledger. They hold of every interleaving of all entry points.
`StationCaptureApproved` and the refinement `ImplementsContract` do not, because of the
capture route, the identity map and the unlocked cancel. They hold under conditions, which the
proofs state and two runs choose:

- `StationCaptureApproved` where no session serves the capture route (`NoCaptureRoute`). That
  route accepts a pending station delivery for its requester, with no dispatcher
  (`capture_service.py` 120), although the comment at 115 says that a station's delivery must go
  through the approval; two requests are enough there.
- `ImplementsContract` where no request moves a delivery between another's read of it and its
  lock (`Apart`). `contract_one_at_a_time` has this because requests that load an uncaptured
  delivery before they lock it are served one after the other, while deliveries and releases run
  beside them (`OneMover`); `contract_lock_first` because every route locks before it reads
  (`LocksFirst`), with any number of sessions.

`DeliveryContract` is the abstract specification: one atomic step for each operation, on
`status`, `wanted`, `holder` and `charged`. The refinement mapping takes the status and
holder from the rows and `charged` from the ledgers, so every commit is one step of the
contract and everything before it a stutter. That whoever has paid holds the delivery, that nobody pays
for a cancelled one and that final states are final are properties of the contract
(`DeliveryContract_proofs`), so they come with the refinement.

Fairness (`FairSpec`): strong fairness of each session's steps. PostgreSQL queues the
waiters of a row, and a handler that can go on does go on, so a session whose next step is
enabled again and again takes it. Nothing says that a session begins another request.

## The outbox

| Model | Code |
|---|---|
| `outbox`, `letters` | rows of `outbox_messages` and `dead_letter_messages` |
| `urgent` | `send_message` tasks queued by the panel for one-time codes |
| `workers[w]` | a running task: the ids of its batch, the step it is at, the outcome it will write |
| `admins[a]` | an admin request between its read and its write |
| `copies` | history: how often the text of each row reached each recipient |
| `FetchBatch`, `SendMessage`, `Claim`, `Send`, `MarkSent`, `MarkRetry`, `MarkFailed` | the task, one action per transaction or platform call |
| `MarkingFails`, `Crash` | a commit that fails after the send; a worker that dies |
| `ReadMessage`, `WriteMessage`, `ReadLetter`, `WriteLetter` | the two unlocked admin routes |
| `RetryTimeComes`, `CleanUp` | time passes; the daily cleanup |

Abstractions. Time is one flag per row, `due`: `next_retry_at` has passed. An attempt, which is a
send with the repetitions inside the provider, is one action. Both WhatsApp providers repeat their
request after a timeout, a broken connection or a transient status, up to `WHATSAPP_MAX_RETRIES`
times (`MaxPosts`); Telegram gets one request. What an attempt comes to for a recipient is the
provider's answer and how many of its requests arrived (`Reports`): at least one if the answer is
"ok", and any number in a failure, as answers get lost; with an open circuit breaker none. `copies`
counts these arrivals, which no component of the system can see; it serves the properties only.
Every failure is transient in the model, because it is in the code (see [below](#disagreements-found)).
`mark_as_failed` is one step, though it reads before it writes: two workers mark the same row only
after the writes of two administrators, when its retry count is past the limit, so that either
write leaves it FAILED and buried. Each payload is queued once by its producer, and a redelivered
periodic task is another `FetchBatch`; a redelivered `send_message` task is not modelled.

Properties. `OneSender`: between claim and result a message is PROCESSING and one worker's.
`NothingStranded`: a PROCESSING message is in some worker's hands. `AttemptsBounded`: a message is
attempted `max_retries` times, and once more for each request of an administrator, even if workers
die, results are lost, and administrators write over each other; so nobody gets more copies of a
row than these attempts make requests. With three requests in an attempt and three retries that is
nine copies where every answer is lost, not three. `SentHasArrived`: SENT means that somebody has
it, partial broadcasts and failed commits included. `FailedIsBuried`: a failed message has a dead
letter that accounts for its retry count. `EveryMessageSettles`: every queued message ends up sent
or failed. `SentIsFinal`, that nothing returns to the queue once sent, is false of two
administrators who overlap; it is a theorem about one and checked by no run.

`NothingStranded` and `EveryMessageSettles` are false once a worker crashes, as its message stays
PROCESSING, and `OneSender` once two administrators overlap.

Fairness: each worker's task makes progress, since Celery beat starts the periodic task
every ten seconds and a started task goes on, and each backoff passes. Without the
fault "crash" nothing takes the message away from its worker.

## The webhooks

| Model | Code |
|---|---|
| `events`, `recent` | status of each `webhook_events` row; whether its `created_at` is younger than 120 s |
| `requests[r]` | an open request: its gateway, the rest of its batch, where it is with the first message, and whether its transaction is aborted |
| `effects`, `unmarked` | history: how often a message's work was done; whose completion was lost |
| `Receive` | a delivery by a gateway, of any batch, repeated ids included |
| `Acquire`, `Skip`, `AcquireFails` | `_try_acquire_message` and what its two callers do with its exception |
| `Work`, `WorkFails`, `Mark`, `MarkFails` | processing, its exception handler and the `finally` |
| `LeaseEnds`, `CleanUp`, `Crash` | time, the cleanup of completed rows a week old, the end of a process |

Abstractions. The work of a message is one step. Its services have models of their own, and
what it commits before it fails is not followed; `effects` counts complete ones. The insert in
a savepoint and the conditional update are one step, since each decides by one statement on
one row and commits. Messages without an id and empty ones never reach the table. The driver's
notification key (`whatsapp.py` 1179) uses the same two functions in the course of a work.
`CleanUp` waits for requests that hold the id: seven days against two minutes. A message
that was forgotten is delivered no more, as gateways give up earlier.

Failures are the constant `Faults`: an exception in the work ("error"), one that leaves the
transaction aborted ("database"), a completion that is not written ("mark"), the end of the
process ("crash"), and a work that outlasts its 120 seconds ("slow").

Properties. `OneWorker`: a message is in the hands of one request at a time. `DoneOnce`: its
work is repeated only if its completion was lost. `CompletedIsDone`: what is blocked for ever was
done. The first two hold under all faults but "slow": a lease that is not renewed cannot outlive
its holder, and the code accepts that (`whatsapp.py` 40). That a message passed over is a
duplicate is no property: after a database error neither webhook rolls back, `Skip` passes over
the rest of the batch, and the gateway is answered 200.

## The circuit breaker

One step is one section under the breaker's lock: `AdmitClosed`, `AdmitFirstProbe`,
`AdmitProbe` for the decision, `Succeed*` and `Fail*` for a result, which may come in any
later state of the circuit. `cooled` says that `timeout_seconds` have passed since the last
failure; a late failure while open clears it, as the code does. `failure_count` is reset only
in CLOSED and would grow without bound; it saturates at `FailureCap >= FailureThreshold`,
which changes nothing, as it is only compared with the threshold. `streak` and `probes` are
history variables. `execute` records nothing for a `CancelledError`, which is no `Exception`;
nothing in the application cancels a call, so the model has no such step.

Properties. `FailuresAreConsecutive`: a closed circuit has counted exactly the failures since
the last success, so failures from before a recovery never help to open it again.
`ProbesLimited`: a half-open circuit lets at most `half_open_max_calls + 1` calls through;
the one that half-opens it is not counted (`circuit_breaker.py` 158), although the comment at
36 speaks of the maximum of calls. `ProbingEnds`: a half-open circuit that admits no more
probes leaves that state. It assumes that every call ends (weak fairness of `Report`); both
platform clients have timeouts.

## Drivers

| Model | Code |
|---|---|
| `session`, `searches`, `profile` | the driver's rows of `driver_sessions`, `driver_searches` and the subscription columns of `driver_profiles` |
| `request[m]` | a message: what it read of the session, then of the searches |
| `task`, `expiry` | what `check_driver_sessions` and `check_driver_subscriptions` have read |
| `approval[a]` | an approval of a payment between `ReadProfile` and `Purchase` |
| `owed` | history: days of paid subscription the driver has not had yet |
| `Receive`, `Touch`, `Create`, `Insert`, `ChooseDeleted`, `Delete`, `DeleteAll`, `PauseAll`, `ChooseResumed`, `Resume` | a message from the touch of its session to its last write |
| `FetchExpiring` to `Disconnect` | the task of every minute, one action per query or write |
| `ActivateTrial`, `ReadProfile`, `Purchase`, `ReadLapsed`, `Expire` | the subscription |
| `SessionAges`, `DayPasses` | time |

Nothing here is locked, so every operation is split where it awaits between a read and a
write. The age of a session is one of three classes, and days are counted; a message, an
approval and the daily task each end before time moves twice. Drivers share no rows: one is
enough. `AskLocation` and `CancelLocation` belong to the conversation and are here because
the limit on searches relies on when a location is still awaited.

Properties. `LimitHeld`: never more active searches than the limit, even though the session
task pauses searches between a count and its write. `DeletedIsFinal`: a resume does not bring
back what was deleted. `PaidDaysKept`: no purchase, trial or daily run shortens what was paid.
`ExpiredIsDisconnected`: an expired session ends. The first two hold where the driver's
messages follow each other, the third where payments are approved one at a time. With two
messages at once, two creations both count before either inserts (`LimitHeld`) and a resume
that chose a search writes over its deletion (`DeletedIsFinal`); two approvals that read the
same profile lose one purchase (`PaidDaysKept`). The code has no lock that excludes either.

Fairness: `CheckSessions` (Celery beat starts the task every minute) and the progress of each
message. Nothing says that a driver writes, pays, or that time passes.

## Conversations

A handler of `state_machine/` takes a message and the context and returns a text, a state and
a change of the context. A flow module has one operator per handler: the set of its possible
`Answer`s. An answer has the state it moves to, the keys it sets (`put`) and clears (`drop`),
the operation it asks of the rest of the system (`does`) and the keys it reads from the context
with a default (`uses`). Texts are abstracted to what a handler tells apart, and an answer
depends on nothing else but what it reads of the context and the person. `HandleMessage` of a
flow is the method of that name: abandoning a form by a menu button, cleaning the context, and
`transition_to` or, if that refuses, `force_state`, which is why the tables of `states.py`
restrict nothing by themselves.

| Model | Code |
|---|---|
| `person.role`, `approval`, `verification`, `dispatcher`, `owner`, ... | the user's row and links to stations; a dispatcher's link is "real" or "lent" by an administrator's switch |
| `person.here`, `person.ctx` | `conversation_sessions`: flow and state; the keys of the context that have a value |
| `person.heard` | history: the handler that ran last, and the replies it used without having them |
| `Message(text)` | a message on the story's platform, from the webhook to the saved answer |
| `DieInMenu`, `DieJoining`, `DieInHandler` | the process ends between two commits of a message |
| `ApproveCourier`, ..., `Block` | decisions of administrators, owners and the operator |

Each message is one step: of one person, messages follow each other, and the interleaving of
another's decision with the inside of a message is not modelled, other than by a death.

Properties. `DraftComplete`: no operation is performed, and nothing repeated to the user,
without the replies it reads, and a menu holds no remains of a form. Every handler reads with
`context.get(key, default)`, so a missing reply shows nowhere. The first half is said of every
webhook and flow. The second is said of all flows on Telegram; on WhatsApp of the dispatcher's and
the driver's, which are only entered in a state of theirs, while a sender's menu there may hold the
rest of a form from before two changes of role (see [below](#disagreements-found)). `FormsInOrder`:
a question is only reached from the one before it, whatever is forced. `HandledForRole`: a role's
handler runs only for somebody who has that role or link, in whatever state the conversation was
left when it was taken away. `VisitIsUndone`: after an administrator's visit to a role, their own
approval is back. `LentIsReturned`: on Telegram the link that the switch made is remembered until
it is ended; a step may forget it only by replacing the whole context behind the back of the visit,
which a death between the menu and the keys does, and a decision about a driver. On WhatsApp the way
back itself forgets it.

## Station owners and the panel

| Model | Code |
|---|---|
| `row`, `heir`, `role` | `station_owners`, `Station.owner_id`, `User.role` |
| `ReadForAdding`, `CommitAddition`, `AdditionFails` | `add_owner`: reads, then the commit, which the unique key may refuse |
| `ReadForRemoval`, `Decide`, `CommitRemoval` | `remove_owner`: reads, the flush (which locks what it wrote), the decision about the role, the commit |
| `ReadForListing`, `Migrate` | `get_owners`, which gives a row to an owner of the old column |
| `code`, `tries`, `early`, `cooling`, `login` | keys of Redis: code, attempt counter (an integer, and whether it will expire before the code), cooldown, refresh tokens |
| `AskForCode`, `StoreCode`, `ForgetTries` | `request_otp`, one action per command of Redis |
| `BringCode`, `CountTry`, `Compare`, `ReturnTry`, `ConsumeCode`, `ClearTries` | `verify_otp_endpoint` and `verify_otp` |
| `LoginWithTelegram`, `SwitchStation`, `TakeToken`, `CheckOwner`, `MintToken` | the other ways in, and renewal |
| `Abort`, `CodeExpires`, `TriesExpire`, `CooldownEnds`, `TokenExpires` | a request that stops half-way; time |

Properties. `RoleFollowsOwnership`: the role STATION_OWNER and the ownership of a station, kept
in two places, agree after every commit. `RemovedStaysOut`: the migration of an old station,
another removal or the choice of a new `owner_id` never bring a removed owner back. Both need
the constant `Clash` to be FALSE: no two requests about the same person or station overlap,
additions aside. Nothing in the code ensures it, and with `Clash = TRUE` TLC violates both: two
owners who are removed at once each leave the station to the other, and an addition that
overlaps a removal of the same person leaves the role of the later commit. Each request decided
from reads that are out of date when it commits.

`OneTokenPerLogin`: of two requests with one refresh token (GETDEL) one is renewed, so a login
never becomes two. `GrantedToOwners`: a login or renewal is granted only for a station that its
user owned at some time since the request began. `GuessesBounded`: a code meets a bounded number
of wrong guesses, although the counter is deleted by several requests at several moments and may
fall below zero: a request that returns its try after another has deleted the counter decrements a
key that is not there (`core/auth.py` 218). With `n` requests at a time the bound is
`MaxTries * (n + 2) + n`: each deletion allows another `MaxTries` and belongs to one of the requests
that overlap the code's, or to an expiry before the code's, of which there is one; each of them may
return one try too many. Two
requests with the right code may both log in, since comparing and deleting the code are two
commands; this makes two logins, which the properties allow.

## Runs

| Run | Shows | Instance |
|---|---|---|
| `lifecycle_station` | `TypeOK`, `HolderIsCharged`, `DeliveredIsCommissioned` hold of all entry points at once | 1 station delivery, 2 couriers (one without a wallet, one whom the station may block), 2 sessions |
| `contract_one_at_a_time` | `ImplementsContract`, `StationCaptureApproved`, `EveryRequestEnds` | one direct and one station delivery, all entry points in one session, deliveries and releases in another |
| `contract_lock_first` | `ImplementsContract`, and the money: `LedgerExplainsBalance`, `CreditRespected` | 3 sessions, 2 direct deliveries of fees 2 and 4, limits -4 and -2: each courier can exhaust its wallet exactly and be refused |
| `links_race` | violated: `OneCourierCharged` | 2 links of one delivery |
| `outbox_workers` | `TypeOK`, `OneSender`, `NothingStranded`, `AttemptsBounded`, `EveryMessageSettles` | 2 workers with batches of 2, an urgent direct message and a broadcast to 2, up to 2 requests in an attempt, every report |
| `outbox_admin` | `SentHasArrived`, `AttemptsBounded`, `FailedIsBuried` with crashes and failing commits | 2 workers, 2 administrators who overlap, with 3 requests between them |
| `breaker` | `TypeOK`, `FailuresAreConsecutive`, `ProbesLimited`, `ProbingEnds` | the thresholds of the application (5, 2, 3), 4 calls |
| `webhook` | `TypeOK`, `OneWorker`, `DoneOnce`, `CompletedIsDone` with every fault but "slow" | 2 requests at a time, 4 in all, batches of up to 2 of 2 messages, both gateways |
| `drivers` | `LimitHeld`, `PaidDaysKept`, `DeletedIsFinal`, `ExpiredIsDisconnected` | 1 message and 1 approval at a time against both tasks; 2 searches under a limit of 1, a route and a GPS search; 2 payments |
| `conversation` | `TypeOK`, `DraftComplete`, `FormsInOrder`, `HandledForRole`, `LentIsReturned`, `VisitIsUndone` | on each webhook: a newcomer, an owner, a dispatcher, a courier, an administrator, each with one disturbance; administrators who switch roles, listed and not |
| `conversation_whatsapp` | violated: `LentIsReturnedOnWhatsApp` | the same stories |
| `panel_access` | `RoleFollowsOwnership`, `RemovedStaysOut`, `OneTokenPerLogin`, `GuessesBounded`, `GrantedToOwners` | 2 stations, 3 users, up to 2 owner requests and 2 panel requests, 2 tries; four stories, see `MCPanelAccess` |

Why the bounds are enough. Two sessions produce every pairwise interleaving, and the
conflicts here are pairwise: between two holders of one lock, or between a read and a write;
`contract_lock_first` has a third to queue behind both. The unique ledger key ends the
captures of one delivery by one courier after the first, so the state space is finite without
a bound on requests. Two retries separate "will be tried again" from "given up"; two rows
let batches overlap, be split and be out of date; a dead letter that is retried needs the
second row. Two requests in an attempt separate "once" from "more than once" (`MaxPosts`). With two
administrators and three requests both may write one row after one check, and another retry
follows; there an attempt has one request, as the bound counts attempts. In `webhook` two requests that hold the same two messages in either order, and two
more deliveries after their end, give every takeover of a row. In `drivers` a limit of 1 with 2
searches is the smallest where a pause in between makes room for one too many, and a month of 2
days after a trial of 1 lets payment, trial and daily task overlap; `MaxSearches` and
`MaxApprovals` bound counters. Conversations have no bound on messages at all: states, keys and
persons are finite, and only the disturbances are counted. One meets every state of every form,
but not what several leave together, and administrators who switch roles have none, as the visits
alone make most of the states; the theorems of `Conversation_proofs` are about any number for
anybody, and three disturbances have shown a case that one does not reach. Two
stations separate "the last one" from "another is left", three users leave an heir to choose
after a removal; panel requests and owner requests meet in the fourth story of `MCPanelAccess`,
with two of one and one of the other. `MaxTries` is 2, so a try is returned below and at the
limit. Symmetry is over workers in `outbox_admin`, messages and requests in `webhook`, and stations,
requests, visits and users who are not guests in `panel_access`; those runs check no liveness.

Deadlock is checked in the lifecycle runs, `drivers`, both conversation runs and `panel_access`;
in the others the system may stop, when all messages are settled or nobody calls, and
`CHECK_DEADLOCK FALSE` says so. A call that never reports (4 calls, all running) is a legitimate
end of `breaker` too.

## Proofs

Every theorem holds for every value of the constants under the module's named assumption
(`ConstantsAssumption`, `ConfigAssumption`), which TLC also evaluates in the runs.

`DeliveryLifecycle_proofs` proves five properties of every interleaving of every entry point,
for any deliveries, couriers, sessions and entry points:

- `TypeCorrect`: `TypeOK` is not inductive alone: the refinement of `pc` and `op` is needed to
  know that a session that is about to write has a delivery and a courier. `TypeInv` adds it.
- `LedgerCorrect` and `CreditCorrect`: `WalletInv` adds that a session at "write" holds its
  courier's wallet lock, that `seen` is therefore still the balance, that it passed the limit
  check, and that only a courier with a wallet has a ledger. A post under the lock then
  extends the ledger by what the balance moves, and nobody else touches it.
- `HolderCorrect` and `CommissionCorrect`: `HolderInv` adds what each session knows from the
  object it loaded. The point is that stale objects do harm, but not this harm: a flush
  only writes what changed, so the courier column changes only with a debit or a refund.

`ApprovalCorrect` proves `StationCaptureApproved` where no session serves the capture route: what a
link captures without a dispatcher is then a direct delivery, and a stale object that is flushed
over a row leaves the decision that was taken on it.

`Outbox_proofs` proves, for any number of workers, administrators and messages:

- `TypeCorrect`, with the fact that the rows in use are always the ids `1..n`, which makes the
  next id fresh;
- `StrandedCorrect`, provided that no worker crashes: each step that takes a worker away from
  a message also takes the message out of PROCESSING;
- `SenderCorrect` and `SentCorrect`, provided that administrators act one at a time: `SenderInv`
  adds that a message an administrator is about to write is FAILED, hence in no worker's
  hands;
- `BuriedCorrect`, without conditions: the dead letter is written with the status, and the retry
  count of a FAILED row does not change before it is queued again;
- `ArrivedCorrect`, without conditions: a worker that is about to write "sent" has seen its
  message arrive (`ReportedHasArrived`), and a row that arrived has arrived for good;
- `AttemptsCorrect`, without conditions. What a row can still cause is counted (`ToCome`): workers
  about to send it, administrators about to queue it, and its turn if it is queued. Together with
  the attempts made so far this stays within one, the retries that were written, as far as they
  leave an attempt, and the requests of administrators (`Counted`), and the copies stay within the
  requests of the attempts made. A worker that dies only takes from it, and an administrator who
  writes over a result has been counted since the read.

`CircuitBreaker_proofs` proves `TypeCorrect`, `ConsecutiveCorrect` and `ProbesCorrect` for all
thresholds and any number of calls. The inductive invariant adds that `probes` exceeds
`half_open_calls` by exactly the uncounted first one while the circuit is half-open.

`Webhook_proofs` proves, for any messages, requests, batches and deliveries:

- `TypeCorrect`, and `CompletedCorrect` with the fact that a request that is about to mark its
  message has done it: for all faults;
- `WorkerCorrect` and `DoneOnceCorrect`, provided that no work is slow: `Leased` adds that a row
  someone works on is "processing" and its lease runs, so nobody takes it over; `EffectInv` adds
  that done work is completed, about to be, or forgotten with no request listing it.

`DeliveryContract_proofs` proves of the contract that exactly the holders of captured and
delivered deliveries have paid (`HoldersPayCorrect`), so at most one courier has
(`OnePaysCorrect`). `DeliveryLifecycle_proofs` then proves the refinement:

- `ContractCorrect`: `Spec /\ []Apart => ImplementsContract`, for any sessions and entry points.
  `Apart` is about states of the run: while a session works on an object that it read without a
  lock, others only deliver or release that delivery. `AtomicInv` says what this buys: an object
  that still admits an operation is the row (`CurrentInv`), as an old one shows a captured delivery
  and is refused; and what a session has checked under the lock stays so until it writes
  (`CheckedInv`). Then a commit writes what the row allows, which is a step of the contract; every
  other step stutters. `links_race` shows that the condition cannot be dropped.
- `OneChargedCorrect`: in the same runs at most one courier has paid, the contract's theorem read
  through the refinement.
- `ServedContract`, `LockFirstOneCharged`: the same without a condition on the run, where every route
  locks before it reads or one session serves all that move an uncaptured delivery, because either
  keeps requests `Apart`. These are the conditions of `contract_lock_first` and
  `contract_one_at_a_time`.

`Drivers_proofs` proves `TypeCorrect`; `PaidCorrect` where payments are approved one at a time,
from the fact that what an approval has read of the trial and the paid days is still so; and, where
messages are handled one at a time, `DeletedCorrect` (a search chosen to be resumed is not deleted
before the write, as only messages delete) and `LimitCorrect` (the room a message has counted can
only grow before it writes, as the task only pauses).

`PanelAccess_proofs` begins with the owners: `RoleCorrect` and `RemovedCorrect` where requests do not
clash, for any stations, persons and requests. The invariant says of each request that what it has
read is still so in the rows it is about to write, which the separation of requests keeps. It goes
on with the panel: that it implements `OwnersSpec`, so `PanelRoleCorrect` and all of the above hold
behind its door, and `PanelTypeCorrect`, `TokenCorrect`, `GrantCorrect` and `GuessesCorrect`.
`PanelInv` adds that a renewal's login is that of its user and station and has no other token, and
that a visit about to mint has seen its station owned. `Guarded` charges each deletion of the
counter to a request: as long as the code lives, the wrong guesses so far, those under way, what
the counter still allows, and `MaxTries` for every deletion to come stay below the bound.

`Conversation_proofs` proves all six properties of conversations, for any person who begins in a menu
or before the first message with nothing remembered (`ConversationAssumption`), any settings, any
webhook, and any number of disturbances:

- Handlers. For each flow a table says which replies a state relies on (`SenderNeeds`, ...) and which
  a state may keep (`SenderAllows`, ...). Every answer of every handler is `Sound` and orderly: it moves
  along a declared transition or to the entry of a form, reads no reply that its state does not
  rely on, and leaves the next state what that relies on and nothing that it may not keep.
- Persons. `Served` says the same of a person that a flow has served, with the operations of the
  handler and the forced states: ready for the next handler, in order, and entitled to the flow.
- Webhooks. `Replied`, `RepliedOnWhatsApp`: every branch of the three routings keeps the keys of a
  visit, forgets them, returns, or switches, and passes each person only to handlers it is entitled to.
- The invariant, `Inv`, adds to the properties that the person is ready for the handler of the
  state (`Ready`), that only visitors have keys of a visit (`Clean`), that the approval kept for
  the way back is the one of before the switch (`Undoable`), and that what is left of a form
  belongs to the flow the person is in (`TidyHere`). `Untouched` and `Disturbed` carry it over
  decisions and deaths.

The states and keys are finite, but TLC has only the persons and the few disturbances of
`MCConversation`; with more of them the second half of `DraftComplete` is false on WhatsApp of the
flows it leaves out, and `LentIsReturned` is false without its exception.

Only model-checked: the liveness properties (`EveryRequestEnds`, `EveryMessageSettles`,
`ProbingEnds`, `ExpiredIsDisconnected`), which are out of the prover's reach. Every other property of
a passing run is a theorem.

## Disagreements found

Two are runs whose property a document, a comment or a test states and the code violates;
`PROJECT.json` quotes them.

- `links_race`: two couriers who follow the same link at the same time both capture the
  delivery and both pay, because the object each session loaded hides what the lock returned.
- `conversation_whatsapp`: an administrator who comes back from a dispatcher's role on either
  WhatsApp webhook keeps the association with the station, which the comment at
  `_admin_context.py` 87 says is ended; on Telegram it is.

Others were met while modelling; the models have them, or the conditions of their runs and
theorems exclude them.

Deliveries and messages:
- The expiry worker and the dispatcher's webhook also lock a delivery that they loaded before
  (`workers/tasks.py` 1617, `api/webhooks/telegram.py` 1838), as the links do: a delivery captured
  in between is cancelled or opened again, and its courier has paid. The comment at
  `delivery_service.py` 338 says that the worker fetches each delivery again. A cancel that read
  the delivery while it was open overwrites a capture (`delivery_service.py` 254).
- A message whose worker dies after the claim stays PROCESSING (`workers/tasks.py` 282), and one
  fetched with a batch may be retried before its backoff has passed.
- No failure is ever permanent: `_is_transient_error` (`workers/tasks.py` 125) reads `status_code` of
  the exception, and every `WhatsAppError` carries 503 (`core/exceptions.py` 344), whatever the platform
  answered. The comments at `workers/tasks.py` 128 and `outbox_service.py` 466 say that a 4xx goes
  to the dead letters at once; it is retried like the rest.
- Two administrators may retry one failed message (`admin_debug.py` 285) or dead letter
  (`outbox_service.py` 528); the slower queues what was sent, and two workers may then send one
  row. A dead letter stays open when its message is retried through its own route.
- After a database error the WhatsApp webhooks pass over the rest of the batch
  (`whatsapp.py` 2228); uncommitted changes of a message that failed are committed with the
  acquisition of the next (`whatsapp.py` 63).

Drivers:
- The two-message and two-approval counterexamples [above](#drivers). An approval button works
  again each time it is pressed and grants the months again (`telegram.py` 1751).
- The daily task may write "expired" over a purchase it has not read
  (`driver_subscription_service.py` 322), and the reminder task its flag over a new beginning
  (`driver_session_service.py` 166). Resuming and a GPS search skip the subscription's gate.

Conversations:
- A join button turns an administrator's visit into the role for good; on the Cloud API joining
  also loses what the way back needs. On WhatsApp "#" of a listed administrator drops
  `original_role`.
- A verification decision replaces whatever conversation the driver is in, an administrator's keys
  included; so does a process that dies after the menu was forced and before the keys are put back
  (`telegram.py`, `_route_to_role_menu`). A lent association then stays. An owner's association
  from a switch is never removed, and adding an administrator as owner replaces their role.
- Operations commit before the state is written, so a process that dies in between repeats them
  on the next "yes". The sender's confirmation at the end of the form creates nothing.
- A courier may name a package in the menu (MENU to DEPOSIT_UPLOAD, declared nowhere), and
  `changing_area` stays set when they go back. On WhatsApp a sender left in another role's state
  gets the welcome until "#". A sender there who is approved as a courier in the middle of a form,
  then becomes an owner and is removed again finds the rest of the form in the sender's menu. A
  driver who leaves the dispatcher's menu on the Cloud API lands in the sender's.
- Of two messages of one person handled at once, one loses its change of the context
  (`manager.py` 135).

Stations and the panel:
- A counter of attempts that was deleted meanwhile is decremented below zero, without an expiry
  (`core/auth.py` 218); the code then allows one more try.
- Overlapping removals, [above](#station-owners-and-the-panel). `remove_owner` falls back to
  COURIER or SENDER, although its comment speaks of the original role.
- Nothing sets `is_paid`, so a courier taken off the blacklist is blocked again by the next
  automatic run.

## What is not modelled

- Stations' money and settings (`station_service.py`): the station wallet and manual charges are
  single transactions under a wallet lock, of the same shape as the couriers' in
  `DeliveryLifecycle`; settings, groups and working hours are single-row updates; automatic
  blocking of a billing cycle reads reports. Owners, dispatchers in conversation and the
  blacklist as captures read it are modelled.
- The insides of one message of a conversation against others' commits, and two messages of one
  person at once; see `Conversation` for what is there instead.
- Courier approval (`courier_approval_service.py`): locked single-row transactions; one step in
  `Conversation`.
- Reports, exports, audit log, pricing, panel views: read-only or append-only.
- Notifications, alerts, health checks: formatting and input/output.
- The WhatsApp gateway, the providers' HTTP and the frontend: no state of the system; a send's
  outcome is modelled at its caller.
- Media, group messages and approval buttons in the webhooks: the buttons are decisions of others
  in `Conversation` and approvals in `Drivers`.
- The delay before a retry (`_calculate_backoff_seconds`): plain arithmetic with tests of its own;
  the outbox knows whether it has passed.
- `WalletService.debit` and `credit`: no production caller.
- Start-up, configuration, logging, rate limits, signatures, text validation, migrations.

## Plan

Done: all components above with their runs; proofs of every safety and action property the passing
runs check, without restrictions or under a named condition; the refinement of the contract
wherever requests are apart. Next, in order of importance:

1. `StationLedger`: station wallet, commissions and manual charges in one module; the ledger
   explains its balance, automatic blocking is idempotent.
2. The commits inside a message: of `update_context` and `force_state` of two messages of one
   person, with the flows reduced to reads and writes of the context.
3. Composition of `Webhook` with the outbox: a repeated message does not repeat what it queued.
4. Proofs about 1 and 3.
