-------------------------------- MODULE Drivers --------------------------------
(***************************************************************************)
(* One driver of iDriver: the session that ends after 24 hours of silence, *)
(* the searches, and the subscription they depend on                       *)
(* (app/domain/services/driver_session_service.py,                         *)
(* driver_search_service.py, driver_subscription_service.py, the requests  *)
(* of state_machine/driver_handler.py and two tasks of workers/tasks.py).  *)
(*                                                                         *)
(* No operation takes a lock.  A message of the driver, the session task   *)
(* (every minute), the subscription task (daily) and an administrator's    *)
(* approval each read rows, decide, and later write what they changed.     *)
(* Drivers share no rows, so one is enough.                                *)
(***************************************************************************)
EXTENDS Integers, FiniteSets

CONSTANTS
    Messages,        \* messages of the driver that may be handled at the same time
    Admins,          \* administrators that may approve at the same time
    Routes,          \* origin and destination of a search
    Gps,             \* the route of a search around the driver's location
    MaxSearches,     \* bound on the searches ever created
    MaxActive,       \* MAX_ACTIVE_SEARCHES_PER_USER
    TrialDays,       \* TRIAL_DURATION_DAYS
    MonthDays,       \* SUBSCRIPTION_MONTH_DAYS
    Months,          \* SUBSCRIPTION_PRICES: the packages on sale
    MaxApprovals,    \* bound on approved payments
    None

ASSUME ConstantsAssumption ==
    /\ MaxSearches \in Nat /\ MaxActive \in Nat
    /\ TrialDays \in Nat /\ MonthDays \in Nat /\ MaxApprovals \in Nat
    /\ Months \subseteq Nat
    /\ Gps \notin Routes /\ None \notin Routes /\ None # Gps

VARIABLES
    session,     \* the driver's row of driver_sessions, or None
    searches,    \* the rows of driver_searches, by id
    located,     \* the conversation waits for the driver's location
    profile,     \* the subscription of the driver's profile, None before registration
    request,     \* what each message is doing
    task,        \* what check_driver_sessions is doing
    approval,    \* what each administrator's approval is doing
    expiry,      \* what check_driver_subscriptions has read
    owed,        \* days of paid subscription the driver has not had yet
    approvals    \* approved payments so far

vars == <<session, searches, located, profile, request, task, approval, expiry, owed, approvals>>

messageVars == <<session, searches, located, request>>
paymentVars == <<profile, approval, expiry, owed, approvals>>

-----------------------------------------------------------------------------
(* Rows *)

SearchIds == 1..MaxSearches

(* "fresh", in the two minutes before its end, past 24 hours.              *)
Ages == {"fresh", "expiring", "expired"}

Session == [active : BOOLEAN, age : Ages, reminded : BOOLEAN]

Search == [route : Routes \cup {Gps, None}, status : {"none", "active", "paused", "deleted"}]

(* Days until trial_expires_at and subscription_expires_at.                *)
Profile == [status : {"trial", "active", "expired"}, trial : Nat, paid : Nat]

Request == [pc : {"idle", "touch", "handle", "insert", "resume", "delete"},
            saw : Session \cup {None},
            ids : SUBSET SearchIds,
            route : Routes \cup {Gps, None}]

ASSUME NoneAssumption == None \notin Session \cup Profile

Quiet == [pc |-> "idle", saw |-> None, ids |-> {}, route |-> None]

WithStatus(status) == {i \in SearchIds : searches[i].status = status}

Active == WithStatus("active")

SetStatus(ids, status) ==
    searches' = [i \in SearchIds |->
        IF i \in ids THEN [searches[i] EXCEPT !.status = status] ELSE searches[i]]

Goto(m, pc) == request' = [request EXCEPT ![m].pc = pc]

Done(m) == request' = [request EXCEPT ![m] = Quiet]

-----------------------------------------------------------------------------
(* touch_session, on every message of the driver *)

Receive(m) ==
    /\ request[m].pc = "idle"
    /\ request' = [request EXCEPT ![m] = [Quiet EXCEPT !.pc = "touch", !.saw = session]]
    /\ UNCHANGED <<session, searches, located, task>> /\ UNCHANGED paymentVars

(* The flush writes the columns that differ from the row as it was read:   *)
(* is_active only if it was FALSE, the reminder only if there was one.     *)
Touched(saw) ==
    [active |-> ~saw.active \/ session.active,
     age |-> "fresh",
     reminded |-> ~saw.reminded /\ session.reminded]

Touch(m) ==
    LET saw == request[m].saw IN
    /\ request[m].pc = "touch"
    /\ \/ saw = None /\ session = None
          /\ session' = [active |-> TRUE, age |-> "fresh", reminded |-> FALSE]
          /\ Goto(m, "handle")
       \/ saw = None /\ session # None      \* user_id is unique: the message fails
          /\ Done(m) /\ UNCHANGED session
       \/ saw # None /\ session' = Touched(saw) /\ Goto(m, "handle")
    /\ UNCHANGED <<searches, located, task>> /\ UNCHANGED paymentVars

-----------------------------------------------------------------------------
(* The subscription *)

(* _is_profile_active *)
HasAccess ==
    /\ profile # None
    /\ \/ profile.status = "active" /\ profile.paid > 0
       \/ profile.status = "trial" /\ profile.trial > 0

(* activate_trial, at the end of the registration. *)
ActivateTrial ==
    /\ profile = None
    /\ profile' = [status |-> "trial", trial |-> TrialDays, paid |-> 0]
    /\ UNCHANGED <<approval, expiry, owed, approvals, task>> /\ UNCHANGED messageVars

(* An administrator presses the approval button under a payment.           *)
ReadProfile(a, months) ==
    /\ approval[a] = None /\ profile # None /\ approvals < MaxApprovals
    /\ approval' = [approval EXCEPT ![a] = [months |-> months, read |-> profile]]
    /\ approvals' = approvals + 1
    /\ UNCHANGED <<profile, expiry, owed, task>> /\ UNCHANGED messageVars

(* Fault: the new period always starts today. *)
StartToday(read) == 0

(* The end of what was paid, else the end of the trial, else today.        *)
StartFrom(read) == IF read.paid > 0 THEN read.paid ELSE read.trial

(* purchase_subscription.  A status read as ACTIVE is not written again.   *)
Purchase(a) ==
    /\ approval[a] # None
    /\ LET read == approval[a].read
           days == approval[a].months * MonthDays IN
       /\ profile' = [profile EXCEPT
            !.paid = StartFrom(read) + days,
            !.status = IF read.status = "active" THEN @ ELSE "active"]
       /\ owed' = owed + days
    /\ approval' = [approval EXCEPT ![a] = None]
    /\ UNCHANGED <<expiry, approvals, task>> /\ UNCHANGED messageVars

Lapsed ==
    \/ profile.status = "active" /\ profile.paid = 0
    \/ profile.status = "trial" /\ profile.trial = 0

(* expire_lapsed_subscriptions *)
ReadLapsed ==
    /\ ~expiry /\ profile # None /\ Lapsed
    /\ expiry' = TRUE
    /\ UNCHANGED <<profile, approval, owed, approvals, task>> /\ UNCHANGED messageVars

Expire ==
    /\ expiry
    /\ profile' = [profile EXCEPT !.status = "expired"]
    /\ expiry' = FALSE
    /\ UNCHANGED <<approval, owed, approvals, task>> /\ UNCHANGED messageVars

-----------------------------------------------------------------------------
(* Commands of a message *)

(* A message that changes none of these rows, or is refused. *)
Finish(m) ==
    /\ request[m].pc = "handle" /\ Done(m)
    /\ UNCHANGED <<session, searches, located, task>> /\ UNCHANGED paymentVars

(* The search for a location waits for it, once the subscription is checked. *)
AskLocation(m) ==
    /\ request[m].pc = "handle" /\ ~located /\ HasAccess
    /\ located' = TRUE /\ Done(m)
    /\ UNCHANGED <<session, searches, task>> /\ UNCHANGED paymentVars

CancelLocation(m) ==
    /\ request[m].pc = "handle" /\ located
    /\ located' = FALSE /\ Done(m)
    /\ UNCHANGED <<session, searches, task>> /\ UNCHANGED paymentVars

(* Fault: the limit is reached when it is exceeded. *)
MayCreateOneMore(route) == Cardinality(Active) <= MaxActive

(* create_search: the limit, and no active search of the same route.       *)
MayCreate(route) ==
    /\ Cardinality(Active) < MaxActive
    /\ \A i \in Active : searches[i].route # route

(* _handle_search_command checks the subscription; the location, when it   *)
(* comes, is not checked again.                                            *)
Create(m, route) ==
    /\ request[m].pc = "handle"
    /\ IF route = Gps THEN located ELSE ~located /\ HasAccess
    /\ MayCreate(route)
    /\ request' = [request EXCEPT ![m].pc = "insert", ![m].route = route]
    /\ located' = FALSE
    /\ UNCHANGED <<session, searches, task>> /\ UNCHANGED paymentVars

Insert(m) ==
    /\ request[m].pc = "insert"
    /\ \E i \in SearchIds :
        /\ searches[i].status = "none"
        /\ \A j \in 1..(i - 1) : searches[j].status # "none"
        /\ searches' = [searches EXCEPT ![i] = [route |-> request[m].route, status |-> "active"]]
    /\ Done(m)
    /\ UNCHANGED <<session, located, task>> /\ UNCHANGED paymentVars

(* delete_search reads the row first. *)
ChooseDeleted(m, i) ==
    /\ request[m].pc = "handle" /\ ~located
    /\ searches[i].status \in {"active", "paused"}
    /\ request' = [request EXCEPT ![m].pc = "delete", ![m].ids = {i}]
    /\ UNCHANGED <<session, searches, located, task>> /\ UNCHANGED paymentVars

Delete(m) ==
    /\ request[m].pc = "delete"
    /\ SetStatus(request[m].ids, "deleted")
    /\ Done(m)
    /\ UNCHANGED <<session, located, task>> /\ UNCHANGED paymentVars

(* delete_all_searches: one UPDATE. *)
DeleteAll(m) ==
    /\ request[m].pc = "handle" /\ ~located
    /\ SetStatus(Active \cup WithStatus("paused"), "deleted")
    /\ Done(m)
    /\ UNCHANGED <<session, located, task>> /\ UNCHANGED paymentVars

(* pause_all_searches: one UPDATE. *)
PauseAll(m) ==
    /\ request[m].pc = "handle" /\ ~located
    /\ SetStatus(Active, "paused")
    /\ Done(m)
    /\ UNCHANGED <<session, located, task>> /\ UNCHANGED paymentVars

(* Fault: every search that is not active is brought back. *)
OldestNotActive(slots) == SearchIds \ (Active \cup WithStatus("none"))

(* The oldest paused searches, as many as the limit has room for.          *)
OldestPaused(slots) ==
    {i \in WithStatus("paused") :
        Cardinality({j \in WithStatus("paused") : j < i}) < slots}

ChooseResumed(m) ==
    /\ request[m].pc = "handle" /\ ~located
    /\ Cardinality(Active) < MaxActive
    /\ request' = [request EXCEPT ![m].pc = "resume",
                                  ![m].ids = OldestPaused(MaxActive - Cardinality(Active))]
    /\ UNCHANGED <<session, searches, located, task>> /\ UNCHANGED paymentVars

(* resume_all_searches, by id alone. *)
Resume(m) ==
    /\ request[m].pc = "resume"
    /\ SetStatus(request[m].ids, "active")
    /\ Done(m)
    /\ UNCHANGED <<session, located, task>> /\ UNCHANGED paymentVars

-----------------------------------------------------------------------------
(* check_driver_sessions *)

(* get_expiring_sessions *)
FetchExpiring ==
    /\ task = "idle"
    /\ task' = IF /\ session # None
                  /\ session.active /\ session.age = "expiring" /\ ~session.reminded
               THEN "remind" ELSE "reminded"
    /\ UNCHANGED messageVars /\ UNCHANGED paymentVars

(* mark_reminder_sent, after the message is sent: by id alone. *)
MarkReminder ==
    /\ task = "remind"
    /\ session' = [session EXCEPT !.reminded = TRUE]
    /\ task' = "reminded"
    /\ UNCHANGED <<searches, located, request>> /\ UNCHANGED paymentVars

ReminderFails ==
    /\ task = "remind" /\ task' = "reminded"
    /\ UNCHANGED messageVars /\ UNCHANGED paymentVars

(* Fault: a session that was never reminded is not disconnected. *)
FetchReminded ==
    /\ task = "reminded"
    /\ task' = IF /\ session # None
                  /\ session.active /\ session.age = "expired" /\ session.reminded
               THEN "disconnect" ELSE "idle"
    /\ UNCHANGED messageVars /\ UNCHANGED paymentVars

(* get_expired_sessions *)
FetchExpired ==
    /\ task = "reminded"
    /\ task' = IF session # None /\ session.active /\ session.age = "expired"
               THEN "disconnect" ELSE "idle"
    /\ UNCHANGED messageVars /\ UNCHANGED paymentVars

(* disconnect_session looks at the row the task has read, which still says *)
(* that the session is active.                                             *)
Disconnect ==
    /\ task = "disconnect"
    /\ session' = [session EXCEPT !.active = FALSE]
    /\ SetStatus(Active, "paused")
    /\ task' = "idle"
    /\ UNCHANGED <<located, request>> /\ UNCHANGED paymentVars

-----------------------------------------------------------------------------
(* Time *)

(* A message is handled in seconds: one threshold may pass before it is    *)
(* touched, none between the touch and its end.                            *)
SessionAges ==
    /\ session # None /\ session.age # "expired"
    /\ \A m \in Messages :
        \/ request[m].pc = "idle"
        \/ request[m].pc = "touch" /\ request[m].saw = session
    /\ session' = [session EXCEPT !.age = IF @ = "fresh" THEN "expiring" ELSE "expired"]
    /\ UNCHANGED <<searches, located, request, task>> /\ UNCHANGED paymentVars

DaysLeft(days) == IF days > 0 THEN days - 1 ELSE 0

(* An approval and the daily task each take less than a day.               *)
DayPasses ==
    /\ profile # None /\ profile.trial + profile.paid > 0
    /\ \A a \in Admins : approval[a] = None
    /\ ~expiry
    /\ profile' = [profile EXCEPT !.trial = DaysLeft(@), !.paid = DaysLeft(@)]
    /\ owed' = DaysLeft(owed)
    /\ UNCHANGED <<approval, expiry, approvals, task>> /\ UNCHANGED messageVars

-----------------------------------------------------------------------------
Init ==
    /\ session = None
    /\ searches = [i \in SearchIds |-> [route |-> None, status |-> "none"]]
    /\ located = FALSE
    /\ profile = None
    /\ request = [m \in Messages |-> Quiet]
    /\ task = "idle"
    /\ approval = [a \in Admins |-> None]
    /\ expiry = FALSE
    /\ owed = 0
    /\ approvals = 0

Command(m) ==
    \/ Finish(m) \/ AskLocation(m) \/ CancelLocation(m)
    \/ \E route \in Routes \cup {Gps} : Create(m, route)
    \/ \E i \in SearchIds : ChooseDeleted(m, i)
    \/ DeleteAll(m) \/ PauseAll(m) \/ ChooseResumed(m)

Write(m) == Insert(m) \/ Delete(m) \/ Resume(m)

CheckSessions ==
    \/ FetchExpiring \/ MarkReminder \/ ReminderFails \/ FetchExpired \/ Disconnect

Pay == \E a \in Admins : Purchase(a) \/ \E months \in Months : ReadProfile(a, months)

Next ==
    \/ \E m \in Messages : Receive(m) \/ Touch(m) \/ Command(m) \/ Write(m)
    \/ CheckSessions
    \/ ActivateTrial \/ Pay \/ ReadLapsed \/ Expire
    \/ SessionAges \/ DayPasses

(* The session task runs every minute, and a message is handled to its end. *)
Fairness ==
    /\ WF_vars(CheckSessions)
    /\ \A m \in Messages : WF_vars(Touch(m) \/ Command(m) \/ Write(m))

Spec == Init /\ [][Next]_vars

FairSpec == Spec /\ Fairness

-----------------------------------------------------------------------------
(* Properties *)

(* Type invariant. *)
TypeOK ==
    /\ session \in Session \cup {None}
    /\ searches \in [SearchIds -> Search]
    /\ located \in BOOLEAN
    /\ profile \in Profile \cup {None}
    /\ request \in [Messages -> Request]
    /\ task \in {"idle", "remind", "reminded", "disconnect"}
    /\ approval \in [Admins -> [months : Months, read : Profile] \cup {None}]
    /\ expiry \in BOOLEAN
    /\ owed \in Nat /\ approvals \in Nat

(* When the driver's messages are handled one after the other, the limit   *)
(* on active searches holds, whatever the session task pauses between a    *)
(* count and the write that relies on it (driver_search_service.py 65).    *)
LimitHeld == Cardinality(Active) <= MaxActive

(* A deleted search stays deleted: a resume that chose it while it was     *)
(* paused must not bring it back (driver_search_service.py 303-318).       *)
DeletedIsFinal ==
    [][\A i \in SearchIds : searches[i].status = "deleted" => searches'[i].status = "deleted"]_vars

(* No paid day is lost, to the trial, to a second purchase or to the daily *)
(* task: the subscription ends no earlier than what is owed                *)
(* (driver_subscription_service.py 125-126).                               *)
PaidDaysKept == profile # None => owed <= profile.paid

(* An expired session ends, or the driver writes and begins a new one      *)
(* (tasks.py 961: the task runs every minute).                             *)
ExpiredIsDisconnected ==
    session # None /\ session.active /\ session.age = "expired"
        ~> (session # None => ~session.active \/ session.age = "fresh")

=============================================================================
