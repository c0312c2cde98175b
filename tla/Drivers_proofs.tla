---------------------------- MODULE Drivers_proofs ----------------------------
(***************************************************************************)
(* Proofs about Drivers, for any limits, routes, prices and numbers of     *)
(* messages and administrators.                                            *)
(***************************************************************************)
EXTENDS Drivers, FiniteSetTheorems, TLAPS

-----------------------------------------------------------------------------
(* Type correctness *)

(* TypeOK alone does not say that the rows a step is about to write exist: *)
(* a session and a profile never disappear once they were read.            *)
RowsExist ==
    /\ \A m \in Messages : request[m].saw # None => session # None
    /\ task \in {"remind", "disconnect"} => session # None
    /\ \A a \in Admins : approval[a] # None => profile # None
    /\ expiry => profile # None

TypeInv == TypeOK /\ RowsExist

(* Changing the status of some searches keeps the table well formed.       *)
LEMMA StatusTyped ==
    ASSUME searches \in [SearchIds -> Search], NEW ids,
           NEW status \in {"active", "paused", "deleted"}, SetStatus(ids, status)
    PROVE  searches' \in [SearchIds -> Search]
  <1>1. ASSUME NEW i \in SearchIds
        PROVE  (IF i \in ids THEN [searches[i] EXCEPT !.status = status]
                             ELSE searches[i]) \in Search
    <2>1. searches[i] \in Search OBVIOUS
    <2>2. QED BY <2>1 DEF Search
  <1>2. QED BY <1>1 DEF SetStatus

(* A step that only changes what one message does, and ends it or moves it *)
(* on with typed fields, keeps the requests well formed.                   *)
LEMMA QuietTyped == Quiet \in Request /\ Quiet.saw = None
  BY DEF Quiet, Request

(* A day less is a number of days.                                         *)
LEMMA DaysTyped == \A days \in Nat : DaysLeft(days) \in Nat /\ DaysLeft(days) <= days
  BY DEF DaysLeft

(* Every step keeps the rows well formed, and those that are awaited.      *)
LEMMA TypeStep == TypeInv /\ [Next]_vars => TypeInv'
  <1> SUFFICES ASSUME TypeInv, [Next]_vars PROVE TypeInv' OBVIOUS
  <1> USE ConstantsAssumption, NoneAssumption, QuietTyped DEF TypeInv
  <1>1. ASSUME NEW m \in Messages, Receive(m) PROVE TypeInv'
    <2>1. [Quiet EXCEPT !.pc = "touch", !.saw = session] \in Request
      BY DEF TypeOK, Quiet, Request
    <2>2. request' \in [Messages -> Request]
      BY <1>1, <2>1 DEF Receive, TypeOK
    <2>3. RowsExist'
      BY <1>1 DEF Receive, RowsExist, TypeOK, paymentVars, Quiet
    <2>4. QED BY <1>1, <2>2, <2>3 DEF Receive, TypeOK, paymentVars
  <1>2. ASSUME NEW m \in Messages, Touch(m) PROVE TypeInv'
    <2> DEFINE saw == request[m].saw
    <2>1. request[m] \in Request BY DEF TypeOK
    <2>2. request' \in [Messages -> Request] /\ \A n \in Messages : request'[n].saw \in {None, request[n].saw}
      <3>1. [request[m] EXCEPT !.pc = "handle"] \in Request BY <2>1 DEF Request
      <3>2. QED BY <1>2, <3>1 DEF Touch, TypeOK, Goto, Done, Request
    <2>3. session' \in Session \cup {None} /\ (session # None => session' # None)
      <3>1. CASE saw = None
        <4>1. [active |-> TRUE, age |-> "fresh", reminded |-> FALSE] \in Session
          BY DEF Session, Ages
        <4>2. QED BY <1>2, <3>1, <4>1 DEF Touch, TypeOK
      <3>2. CASE saw # None
        <4>1. session \in Session /\ saw \in Session
          BY <2>1, <3>2 DEF RowsExist, TypeOK, Request
        <4>2. Touched(saw) \in Session BY <4>1 DEF Touched, Session, Ages
        <4>3. QED BY <1>2, <3>2, <4>2 DEF Touch
      <3>3. QED BY <3>1, <3>2
    <2>4. RowsExist' BY <1>2, <2>2, <2>3 DEF Touch, RowsExist, paymentVars
    <2>5. QED BY <1>2, <2>2, <2>3, <2>4 DEF Touch, TypeOK, paymentVars
  <1>3. ASSUME NEW m \in Messages, Command(m) \/ Write(m) PROVE TypeInv'
    <2>1. request[m] \in Request BY DEF TypeOK
    <2>2. /\ request' \in [Messages -> Request]
          /\ \A n \in Messages : request'[n].saw \in {None, request[n].saw}
      <3>1. CASE request' = [request EXCEPT ![m] = Quiet]
        BY <3>1 DEF TypeOK
      <3>2. ASSUME NEW route \in Routes \cup {Gps}, Create(m, route)
            PROVE <2>2!1 /\ <2>2!2
        <4>1. [[request[m] EXCEPT !.pc = "insert"] EXCEPT !.route = route] \in Request
          BY <2>1 DEF Request
        <4>2. QED BY <3>2, <4>1 DEF Create, TypeOK, Request
      <3>3. ASSUME NEW i \in SearchIds, ChooseDeleted(m, i)
            PROVE <2>2!1 /\ <2>2!2
        <4>1. [[request[m] EXCEPT !.pc = "delete"] EXCEPT !.ids = {i}] \in Request
          BY <2>1 DEF Request
        <4>2. QED BY <3>3, <4>1 DEF ChooseDeleted, TypeOK, Request
      <3>4. ASSUME ChooseResumed(m) PROVE <2>2!1 /\ <2>2!2
        <4> DEFINE ids == OldestPaused(MaxActive - Cardinality(Active))
        <4>1. ids \in SUBSET SearchIds BY DEF OldestPaused, WithStatus
        <4> HIDE DEF ids
        <4>2. [[request[m] EXCEPT !.pc = "resume"] EXCEPT !.ids = ids] \in Request
          BY <2>1, <4>1 DEF Request
        <4>3. request' = [request EXCEPT ![m] = [[@ EXCEPT !.pc = "resume"] EXCEPT !.ids = ids]]
          BY <3>4 DEF ChooseResumed, ids
        <4>4. QED BY <4>2, <4>3 DEF TypeOK, Request
      <3>5. QED BY <1>3, <3>1, <3>2, <3>3, <3>4
            DEF Command, Write, Finish, AskLocation, CancelLocation, DeleteAll, PauseAll,
                Insert, Delete, Resume, Done
    <2>3. searches' \in [SearchIds -> Search]
      <3>1. CASE UNCHANGED searches BY <3>1 DEF TypeOK
      <3>2. CASE DeleteAll(m) \/ PauseAll(m) \/ Delete(m) \/ Resume(m)
        BY <3>2, StatusTyped DEF DeleteAll, PauseAll, Delete, Resume, TypeOK
      <3>3. CASE Insert(m)
        <4>1. PICK i \in SearchIds :
                searches' = [searches EXCEPT ![i] = [route |-> request[m].route, status |-> "active"]]
          BY <3>3 DEF Insert
        <4>2. [route |-> request[m].route, status |-> "active"] \in Search
          BY <2>1 DEF Request, Search
        <4>3. QED BY <4>1, <4>2 DEF TypeOK
      <3>4. QED BY <1>3, <3>1, <3>2, <3>3
            DEF Command, Write, Finish, AskLocation, CancelLocation, Create, ChooseDeleted, ChooseResumed
    <2>4. /\ UNCHANGED <<session, task, profile, approval, expiry, owed, approvals>>
          /\ located' \in BOOLEAN
      BY <1>3 DEF TypeOK, Command, Write, Finish, AskLocation, CancelLocation, Create, ChooseDeleted,
                  DeleteAll, PauseAll, ChooseResumed, Insert, Delete, Resume, paymentVars
    <2>5. QED BY <2>2, <2>3, <2>4 DEF TypeOK, RowsExist
  <1>4. ASSUME CheckSessions PROVE TypeInv'
    <2>1. /\ UNCHANGED <<located, request, profile, approval, expiry, owed, approvals>>
          /\ searches' \in [SearchIds -> Search]
      BY <1>4, StatusTyped
      DEF CheckSessions, FetchExpiring, MarkReminder, ReminderFails, FetchExpired, Disconnect,
          messageVars, paymentVars, TypeOK
    <2>2. /\ session' \in Session \cup {None} /\ (session # None => session' # None)
          /\ task' \in {"idle", "remind", "reminded", "disconnect"}
          /\ task' \in {"remind", "disconnect"} => session' # None
      <3>1. CASE UNCHANGED session
        BY <1>4, <3>1
        DEF CheckSessions, FetchExpiring, MarkReminder, ReminderFails, FetchExpired, Disconnect, TypeOK
      <3>2. CASE MarkReminder \/ Disconnect
        <4>1. session \in Session BY <3>2 DEF MarkReminder, Disconnect, TypeOK, RowsExist
        <4>2. /\ [session EXCEPT !.reminded = TRUE] \in Session
              /\ [session EXCEPT !.active = FALSE] \in Session
          BY <4>1 DEF Session
        <4>3. QED BY <3>2, <4>2 DEF MarkReminder, Disconnect
      <3>3. QED BY <1>4, <3>1, <3>2
            DEF CheckSessions, FetchExpiring, ReminderFails, FetchExpired, messageVars
    <2>3. QED BY <2>1, <2>2 DEF TypeOK, RowsExist
  <1>5. ASSUME ActivateTrial \/ ReadLapsed \/ Expire \/ DayPasses PROVE TypeInv'
    <2>1. UNCHANGED <<session, searches, located, request, task, approval, approvals>>
      BY <1>5 DEF ActivateTrial, ReadLapsed, Expire, DayPasses, messageVars
    <2>2. profile' \in Profile \cup {None} /\ (profile # None => profile' # None)
      <3>1. CASE ActivateTrial BY <3>1 DEF ActivateTrial, Profile
      <3>2. CASE ReadLapsed BY <3>2 DEF ReadLapsed, TypeOK
      <3>3. CASE Expire
        <4>1. profile \in Profile BY <3>3 DEF Expire, TypeOK, RowsExist
        <4>2. [profile EXCEPT !.status = "expired"] \in Profile BY <4>1 DEF Profile
        <4>3. QED BY <3>3, <4>2 DEF Expire
      <3>4. CASE DayPasses
        <4>1. profile \in Profile BY <3>4 DEF DayPasses, TypeOK
        <4>2. DaysLeft(profile.trial) \in Nat /\ DaysLeft(profile.paid) \in Nat
          BY <4>1, DaysTyped DEF Profile
        <4>3. QED BY <3>4, <4>1, <4>2 DEF DayPasses, Profile
      <3>5. QED BY <1>5, <3>1, <3>2, <3>3, <3>4
    <2>3. expiry' \in BOOLEAN /\ owed' \in Nat
      BY <1>5, DaysTyped DEF ActivateTrial, ReadLapsed, Expire, DayPasses, TypeOK
    <2>4. expiry' => profile' # None
      BY <1>5, <2>2 DEF ActivateTrial, ReadLapsed, Expire, DayPasses, RowsExist
    <2>5. QED BY <2>1, <2>2, <2>3, <2>4 DEF TypeOK, RowsExist
  <1>6. ASSUME NEW a \in Admins, NEW months \in Months, ReadProfile(a, months) PROVE TypeInv'
    <2>1. [months |-> months, read |-> profile] \in [months : Months, read : Profile]
      BY <1>6 DEF ReadProfile, TypeOK
    <2>2. approval' \in [Admins -> [months : Months, read : Profile] \cup {None}]
      BY <1>6, <2>1 DEF ReadProfile, TypeOK
    <2>3. /\ UNCHANGED <<session, searches, located, request, profile, task, expiry, owed>>
          /\ profile # None /\ approvals' \in Nat
      BY <1>6 DEF ReadProfile, messageVars, TypeOK
    <2>4. QED BY <2>2, <2>3 DEF TypeOK, RowsExist
  <1>7. ASSUME NEW a \in Admins, Purchase(a) PROVE TypeInv'
    <2> DEFINE read == approval[a].read
               days == approval[a].months * MonthDays
    <2>1. approval[a] \in [months : Months, read : Profile] /\ profile \in Profile
      BY <1>7 DEF Purchase, TypeOK, RowsExist
    <2>2. read \in Profile /\ approval[a].months \in Nat BY <2>1
    <2>3. days \in Nat
      <3>1. \A x, y \in Nat : x * y \in Nat OBVIOUS
      <3>2. QED BY <2>2, <3>1
    <2> HIDE DEF days
    <2>4. StartFrom(read) + days \in Nat BY <2>2, <2>3 DEF StartFrom, Profile
    <2>5. profile' \in Profile
      <3>1. profile' = [[profile EXCEPT !.paid = StartFrom(read) + days]
                          EXCEPT !.status = IF read.status = "active" THEN @ ELSE "active"]
        BY <1>7 DEF Purchase, days
      <3>2. QED BY <2>1, <2>4, <3>1 DEF Profile
    <2>6. owed' \in Nat BY <1>7, <2>3 DEF Purchase, TypeOK, days
    <2>7. approval' \in [Admins -> [months : Months, read : Profile] \cup {None}]
      BY <1>7 DEF Purchase, TypeOK
    <2>8. /\ UNCHANGED <<session, searches, located, request, task, expiry, approvals>>
          /\ profile # None
      BY <1>7, <2>1 DEF Purchase, messageVars
    <2>9. QED BY <2>5, <2>6, <2>7, <2>8 DEF TypeOK, RowsExist
  <1>8. ASSUME SessionAges PROVE TypeInv'
    <2>1. session \in Session BY <1>8 DEF SessionAges, TypeOK
    <2>2. session' \in Session
      BY <1>8, <2>1 DEF SessionAges, Session, Ages
    <2>3. QED BY <1>8, <2>2 DEF SessionAges, TypeOK, RowsExist, paymentVars
  <1>9. CASE UNCHANGED vars BY <1>9 DEF vars, TypeOK, RowsExist
  <1>10. QED BY <1>1, <1>2, <1>3, <1>4, <1>5, <1>6, <1>7, <1>8, <1>9 DEF Next, Pay

LEMMA TypeInit == Init => TypeInv
  <1> SUFFICES ASSUME Init PROVE TypeInv OBVIOUS
  <1>1. [route |-> None, status |-> "none"] \in Search BY DEF Search
  <1>2. searches \in [SearchIds -> Search] BY <1>1 DEF Init
  <1>3. request \in [Messages -> Request] BY QuietTyped DEF Init
  <1>4. QED BY <1>2, <1>3, QuietTyped DEF Init, TypeInv, TypeOK, RowsExist

(* Every reachable state is well formed, and the rows that a message, a    *)
(* task or an approval is about to write exist.                            *)
THEOREM TypeCorrect == Spec => [](TypeOK /\ RowsExist)
  <1>1. QED BY TypeInit, TypeStep, PTL DEF Spec, TypeInv

-----------------------------------------------------------------------------
(* Paid days, where administrators approve one after the other *)

OneAdmin == \A a, b \in Admins : a = b

(* PaidDaysKept alone does not survive an approval: the period it writes   *)
(* was computed from an earlier reading of the profile, which must still   *)
(* say how much was paid and how long the trial lasts.                     *)
PaidInv ==
    /\ PaidDaysKept
    /\ profile = None => owed = 0
    /\ \A a \in Admins : approval[a] # None =>
          /\ approval[a].read.paid = profile.paid
          /\ approval[a].read.trial = profile.trial

LEMMA PaidStep ==
    ASSUME OneAdmin, TypeInv, PaidInv, [Next]_vars
    PROVE  PaidInv'
  <1> USE ConstantsAssumption, NoneAssumption
  <1>1. CASE UNCHANGED <<profile, owed, approval>>
    BY <1>1 DEF PaidInv, PaidDaysKept
  <1>2. CASE ActivateTrial
    <2>1. /\ profile = None /\ profile'.paid = 0 /\ profile' # None
          /\ UNCHANGED <<approval, owed>>
      <3>1. [status |-> "trial", trial |-> TrialDays, paid |-> 0] \in Profile BY DEF Profile
      <3>2. QED BY <1>2, <3>1 DEF ActivateTrial
    <2>2. QED BY <2>1 DEF PaidInv, PaidDaysKept, TypeInv, RowsExist
  <1>3. ASSUME NEW a \in Admins, NEW months \in Months, ReadProfile(a, months) PROVE PaidInv'
    <2>1. /\ approval' = [approval EXCEPT ![a] = [months |-> months, read |-> profile]]
          /\ UNCHANGED <<profile, owed>>
      BY <1>3 DEF ReadProfile
    <2>2. approval \in [Admins -> [months : Months, read : Profile] \cup {None}]
      BY DEF TypeInv, TypeOK
    <2>3. QED BY <2>1, <2>2 DEF PaidInv, PaidDaysKept
  <1>4. ASSUME NEW a \in Admins, Purchase(a) PROVE PaidInv'
    <2> DEFINE read == approval[a].read
               days == approval[a].months * MonthDays
    <2>1. /\ approval[a] \in [months : Months, read : Profile]
          /\ profile \in Profile /\ owed \in Nat /\ owed <= profile.paid
          /\ read.paid = profile.paid /\ read.trial = profile.trial
      BY <1>4 DEF Purchase, TypeInv, TypeOK, RowsExist, PaidInv, PaidDaysKept
    <2>2. days \in Nat
      <3>1. \A x, y \in Nat : x * y \in Nat OBVIOUS
      <3>2. QED BY <2>1, <3>1
    <2> HIDE DEF days
    <2>3. owed + days <= StartFrom(read) + days
      BY <2>1, <2>2 DEF StartFrom, Profile
    <2>4. profile'.paid = StartFrom(read) + days /\ owed' = owed + days
      <3>1. DOMAIN profile = {"status", "trial", "paid"} BY <2>1 DEF Profile
      <3>2. QED BY <1>4, <3>1 DEF Purchase, days
    <2>5. \A b \in Admins : approval'[b] = None
      BY <1>4 DEF Purchase, OneAdmin, TypeInv, TypeOK
    <2>6. profile' # None
      <3>1. profile' \in Profile \cup {None} /\ (approval[a] # None => profile' # None)
        <4>1. TypeInv' BY TypeStep
        <4>2. [[profile EXCEPT !.paid = StartFrom(read) + days]
                 EXCEPT !.status = IF read.status = "active" THEN @ ELSE "active"] \in Profile
          <5>1. StartFrom(read) + days \in Nat BY <2>1, <2>2 DEF Profile, StartFrom
          <5>2. QED BY <2>1, <5>1 DEF Profile
        <4>3. QED BY <1>4, <4>2 DEF Purchase, days
      <3>2. QED BY <1>4, <3>1 DEF Purchase
    <2>7. QED BY <2>3, <2>4, <2>5, <2>6 DEF PaidInv, PaidDaysKept
  <1>5. CASE Expire
    <2>1. profile \in Profile BY <1>5 DEF Expire, TypeInv, TypeOK, RowsExist
    <2>2. /\ profile'.paid = profile.paid /\ profile'.trial = profile.trial
          /\ profile' # None /\ UNCHANGED <<owed, approval>>
      <3>1. [profile EXCEPT !.status = "expired"] \in Profile BY <2>1 DEF Profile
      <3>2. QED BY <1>5, <2>1, <3>1 DEF Expire, Profile
    <2>3. QED BY <2>1, <2>2 DEF PaidInv, PaidDaysKept
  <1>6. CASE DayPasses
    <2>1. /\ profile \in Profile /\ owed \in Nat /\ owed <= profile.paid
      BY <1>6 DEF DayPasses, TypeInv, TypeOK, PaidInv, PaidDaysKept
    <2>2. profile'.paid = DaysLeft(profile.paid) /\ profile' # None
      <3>1. [profile EXCEPT !.trial = DaysLeft(@), !.paid = DaysLeft(@)] \in Profile
        BY <2>1, DaysTyped DEF Profile
      <3>2. QED BY <1>6, <2>1, <3>1 DEF DayPasses, Profile
    <2>3. DaysLeft(owed) <= DaysLeft(profile.paid)
      BY <2>1 DEF DaysLeft, Profile
    <2>4. QED BY <1>6, <2>2, <2>3 DEF DayPasses, PaidInv, PaidDaysKept
  <1>7. QED
    <2>1. CASE \E m \in Messages : Receive(m) \/ Touch(m) \/ Command(m) \/ Write(m)
      BY <1>1, <2>1
      DEF Receive, Touch, Command, Write, Finish, AskLocation, CancelLocation, Create, ChooseDeleted,
          DeleteAll, PauseAll, ChooseResumed, Insert, Delete, Resume, paymentVars
    <2>2. CASE CheckSessions \/ SessionAges \/ ReadLapsed \/ UNCHANGED vars
      BY <1>1, <2>2
      DEF CheckSessions, FetchExpiring, MarkReminder, ReminderFails, FetchExpired, Disconnect,
          SessionAges, ReadLapsed, paymentVars, vars
    <2>3. QED BY <1>2, <1>3, <1>4, <1>5, <1>6, <2>1, <2>2 DEF Next, Pay

(* Where administrators approve one after the other, no paid day is lost:  *)
(* not to the trial, not to an earlier package and not to the daily task,  *)
(* which writes the status and leaves the dates alone.                     *)
THEOREM PaidCorrect ==
    ASSUME OneAdmin
    PROVE  Spec => []PaidDaysKept
  <1>1. Init => PaidInv
    BY ConstantsAssumption DEF Init, PaidInv, PaidDaysKept
  <1>2. TypeInv /\ PaidInv /\ [Next]_vars => PaidInv'
    BY PaidStep
  <1>3. PaidInv => PaidDaysKept BY DEF PaidInv
  <1>4. QED BY <1>1, <1>2, <1>3, TypeInit, TypeStep, PTL DEF Spec

-----------------------------------------------------------------------------
(* Searches, where the messages of the driver follow each other *)

OneMessage == \A m, n \in Messages : m = n

(* What a message is about to bring back was not deleted since it was      *)
(* chosen: only another message could have done that.                      *)
ChosenAlive ==
    \A m \in Messages : request[m].pc = "resume" =>
        \A i \in request[m].ids : searches[i].status # "deleted"

(* What a write to the statuses does to one search.                        *)
LEMMA StatusAfter ==
    ASSUME searches \in [SearchIds -> Search], NEW ids,
           NEW status \in {"active", "paused", "deleted"}, SetStatus(ids, status)
    PROVE  \A i \in SearchIds :
               searches'[i].status = IF i \in ids THEN status ELSE searches[i].status
  BY DEF SetStatus, Search

(* The end of a message that writes the table of searches.                 *)
Writes(m) ==
    /\ request' = [request EXCEPT ![m] = Quiet]
    /\ \/ Insert(m) \/ Resume(m) \/ PauseAll(m)
       \/ \E ids \in SUBSET SearchIds : SetStatus(ids, "deleted")

(* Who changes the table of searches, and how.                             *)
LEMMA SearchStep ==
    ASSUME TypeInv, [Next]_vars
    PROVE  \/ UNCHANGED searches
           \/ UNCHANGED request /\ SetStatus(Active, "paused")
           \/ \E m \in Messages : Writes(m)
  <1>1. CASE \E m \in Messages : Receive(m) \/ Touch(m)
    BY <1>1 DEF Receive, Touch
  <1>2. ASSUME NEW m \in Messages, Command(m) \/ Write(m)
        PROVE  UNCHANGED searches \/ Writes(m)
    <2>1. CASE DeleteAll(m)
      <3>1. Active \cup WithStatus("paused") \in SUBSET SearchIds BY DEF Active, WithStatus
      <3>2. QED BY <2>1, <3>1 DEF DeleteAll, Done, Writes
    <2>2. CASE Delete(m)
      <3>1. request[m].ids \in SUBSET SearchIds BY DEF TypeInv, TypeOK, Request
      <3>2. QED BY <2>2, <3>1 DEF Delete, Done, Writes
    <2>3. CASE Insert(m) \/ Resume(m) \/ PauseAll(m)
      BY <2>3 DEF Insert, Resume, PauseAll, Done, Writes
    <2>4. QED BY <1>2, <2>1, <2>2, <2>3
          DEF Command, Write, Finish, AskLocation, CancelLocation, Create, ChooseDeleted, ChooseResumed
  <1>3. CASE CheckSessions
    BY <1>3 DEF CheckSessions, FetchExpiring, MarkReminder, ReminderFails, FetchExpired, Disconnect,
                messageVars
  <1>4. CASE ActivateTrial \/ Pay \/ ReadLapsed \/ Expire \/ SessionAges \/ DayPasses \/ UNCHANGED vars
    BY <1>4 DEF ActivateTrial, Pay, Purchase, ReadProfile, ReadLapsed, Expire, SessionAges, DayPasses,
                messageVars, vars
  <1>5. QED BY <1>1, <1>2, <1>3, <1>4 DEF Next

(* How a message comes to the point where it inserts or resumes.           *)
LEMMA RequestStep ==
    ASSUME TypeInv, [Next]_vars, NEW m \in Messages
    PROVE  \/ request'[m] = request[m]
           \/ request'[m].pc \notin {"insert", "resume"}
           \/ ChooseResumed(m)
           \/ \E route \in Routes \cup {Gps} : Create(m, route)
  <1> USE DEF TypeInv, TypeOK
  <1>1. ASSUME NEW n \in Messages, Receive(n) \/ Touch(n)
        PROVE  request'[m] = request[m] \/ request'[m].pc \notin {"insert", "resume"}
    <2>1. CASE request' = [request EXCEPT ![n] = Quiet] BY <2>1 DEF Quiet
    <2>2. CASE request' = [request EXCEPT ![n] = [Quiet EXCEPT !.pc = "touch", !.saw = session]]
      BY <2>2 DEF Quiet
    <2>3. CASE request' = [request EXCEPT ![n].pc = "handle"]
      <3>1. request[n] \in Request OBVIOUS
      <3>2. QED BY <2>3, <3>1 DEF Request
    <2>4. QED BY <1>1, <2>1, <2>2, <2>3 DEF Receive, Touch, Goto, Done
  <1>2. ASSUME NEW n \in Messages, Command(n) \/ Write(n), n # m
        PROVE  request'[m] = request[m]
    BY <1>2 DEF Command, Write, Finish, AskLocation, CancelLocation, Create, ChooseDeleted,
                DeleteAll, PauseAll, ChooseResumed, Insert, Delete, Resume, Done
  <1>3. ASSUME NEW i \in SearchIds, ChooseDeleted(m, i)
        PROVE  request'[m].pc = "delete"
    <2>1. request[m] \in Request OBVIOUS
    <2>2. QED BY <1>3, <2>1 DEF ChooseDeleted, Request
  <1>4. CASE Command(m) \/ Write(m)
    BY <1>3, <1>4
    DEF Command, Write, Finish, AskLocation, CancelLocation, DeleteAll, PauseAll, Insert, Delete,
        Resume, Done, Quiet
  <1>5. CASE CheckSessions \/ ActivateTrial \/ Pay \/ ReadLapsed \/ Expire \/ SessionAges \/ DayPasses
             \/ UNCHANGED vars
    BY <1>5
    DEF CheckSessions, FetchExpiring, MarkReminder, ReminderFails, FetchExpired, Disconnect,
        ActivateTrial, Pay, Purchase, ReadProfile, ReadLapsed, Expire, SessionAges, DayPasses,
        messageVars, vars
  <1>6. QED BY <1>1, <1>2, <1>4, <1>5 DEF Next

(* A write of the table never revives a deleted search.                    *)
LEMMA DeletedStays ==
    ASSUME TypeInv, ChosenAlive, [Next]_vars, NEW i \in SearchIds, searches[i].status = "deleted"
    PROVE  searches'[i].status = "deleted"
  <1> USE DEF TypeInv, TypeOK
  <1>1. CASE SetStatus(Active, "paused")
    BY <1>1, StatusAfter DEF Active, WithStatus
  <1>2. ASSUME NEW m \in Messages, Writes(m) PROVE searches'[i].status = "deleted"
    <2>1. CASE Insert(m) BY <2>1 DEF Insert
    <2>2. CASE Resume(m) BY <2>2, StatusAfter DEF Resume, ChosenAlive
    <2>3. CASE PauseAll(m) BY <2>3, StatusAfter DEF PauseAll, Active, WithStatus
    <2>4. CASE \E ids \in SUBSET SearchIds : SetStatus(ids, "deleted") BY <2>4, StatusAfter
    <2>5. QED BY <1>2, <2>1, <2>2, <2>3, <2>4 DEF Writes
  <1>3. QED BY <1>1, <1>2, SearchStep

LEMMA ChosenStep ==
    ASSUME OneMessage, TypeInv, ChosenAlive, [Next]_vars
    PROVE  ChosenAlive'
  <1> SUFFICES ASSUME NEW m \in Messages, request'[m].pc = "resume",
                      NEW i \in request'[m].ids
               PROVE  searches'[i].status # "deleted"
    BY DEF ChosenAlive
  <1>1. request[m] \in Request /\ request'[m] \in Request
    BY TypeStep DEF TypeInv, TypeOK
  <1>2. i \in SearchIds BY <1>1 DEF Request
  <1>3. ASSUME NEW n \in Messages, Writes(n) PROVE FALSE
    BY <1>3 DEF Writes, Quiet, TypeInv, TypeOK, OneMessage
  <1>4. \/ UNCHANGED searches
        \/ UNCHANGED request /\ SetStatus(Active, "paused")
    BY <1>3, SearchStep
  <1>5. CASE request'[m] = request[m]
    <2>1. searches[i].status # "deleted" BY <1>5 DEF ChosenAlive
    <2>2. QED BY <1>2, <1>4, <2>1, StatusAfter DEF TypeInv, TypeOK
  <1>6. CASE ChooseResumed(m)
    <2>1. request'[m].ids = OldestPaused(MaxActive - Cardinality(Active)) /\ UNCHANGED searches
      BY <1>1, <1>6 DEF ChooseResumed, TypeInv, TypeOK, Request
    <2>2. QED BY <2>1 DEF OldestPaused, WithStatus
  <1>7. ASSUME NEW route \in Routes \cup {Gps}, Create(m, route) PROVE FALSE
    BY <1>1, <1>7 DEF Create, TypeInv, TypeOK, Request
  <1>8. QED BY <1>5, <1>6, <1>7, RequestStep

(* Where a driver's messages are handled one after the other, a deleted    *)
(* search stays deleted: the searches a resume chose cannot be deleted     *)
(* before it writes them, although it writes them by id alone.             *)
THEOREM DeletedCorrect ==
    ASSUME OneMessage
    PROVE  Spec => DeletedIsFinal
  <1>1. Init => ChosenAlive
    BY DEF Init, ChosenAlive, Quiet
  <1>2. TypeInv /\ ChosenAlive /\ [Next]_vars => ChosenAlive'
    BY ChosenStep
  <1>3. TypeInv /\ ChosenAlive /\ [Next]_vars =>
            [\A i \in SearchIds : searches[i].status = "deleted" => searches'[i].status = "deleted"]_vars
    BY DeletedStays
  <1>4. QED BY <1>1, <1>2, <1>3, TypeInit, TypeStep, PTL DEF Spec, DeletedIsFinal

-----------------------------------------------------------------------------
(* The limit on active searches *)

(* The k oldest of the paused searches are at most k: each of them has a   *)
(* different number, below k, of older ones.                               *)
LEMMA OldestBounded ==
    ASSUME NEW k \in Nat
    PROVE  IsFiniteSet(OldestPaused(k)) /\ Cardinality(OldestPaused(k)) <= k
  <1> USE ConstantsAssumption
  <1> DEFINE P == WithStatus("paused")
             Older(i) == {j \in P : j < i}
             T == {i \in P : Cardinality(Older(i)) < k}
             f == [i \in T |-> Cardinality(Older(i))]
  <1>1. IsFiniteSet(P) /\ P \subseteq Nat
    <2>1. IsFiniteSet(SearchIds) /\ SearchIds \subseteq Nat BY FS_Interval DEF SearchIds
    <2>2. P \in SUBSET SearchIds BY DEF WithStatus
    <2>3. QED BY <2>1, <2>2, FS_Subset
  <1> HIDE DEF P
  <1>2. \A i \in P : IsFiniteSet(Older(i)) /\ Cardinality(Older(i)) \in Nat
    <2> TAKE i \in P
    <2>1. Older(i) \in SUBSET P OBVIOUS
    <2>2. IsFiniteSet(Older(i)) BY <1>1, <2>1, FS_Subset
    <2>3. QED BY <2>2, FS_CardinalityType
  <1>3. \A i, j \in P : i < j => Cardinality(Older(i)) < Cardinality(Older(j))
    <2> SUFFICES ASSUME NEW i \in P, NEW j \in P, i < j
                 PROVE  Cardinality(Older(i)) < Cardinality(Older(j))
      OBVIOUS
    <2>1. Older(i) \in SUBSET Older(j) /\ i \in Older(j) /\ i \notin Older(i)
      <3>1. \A x \in P : x \in Nat BY <1>1
      <3>2. \A x \in P : x < i => x < j BY <3>1
      <3>3. ~(i < i) BY <3>1
      <3>4. QED BY <3>2, <3>3
    <2> HIDE DEF Older
    <2>2. Cardinality(Older(i)) <= Cardinality(Older(j)) /\ Cardinality(Older(i)) # Cardinality(Older(j))
      BY <1>2, <2>1, FS_Subset
    <2>3. QED BY <1>2, <2>2
  <1> DEFINE Below == 0..(k - 1)
  <1>4. f \in [T -> Below]
    <2>1. \A i \in T : Cardinality(Older(i)) \in Below
      <3> HIDE DEF Older
      <3>1. QED BY <1>2
    <2> HIDE DEF Below
    <2>2. QED BY <2>1
  <1>5. \A i, j \in T : f[i] = f[j] => i = j
    <2> SUFFICES ASSUME NEW i \in T, NEW j \in T, f[i] = f[j], i # j PROVE FALSE
      OBVIOUS
    <2>1. i \in P /\ j \in P /\ Cardinality(Older(i)) = Cardinality(Older(j)) OBVIOUS
    <2>2. i < j \/ j < i BY <1>1, <2>1
    <2> HIDE DEF Older, T, f
    <2>3. QED BY <1>2, <1>3, <2>1, <2>2
  <1>6. f \in Injection(T, Below)
    <2> HIDE DEF f, T, Below
    <2>1. QED BY <1>4, <1>5 DEF Injection, IsInjective
  <1>7. IsFiniteSet(Below) /\ Cardinality(Below) = k
    BY FS_Interval
  <1>8. IsFiniteSet(T) /\ Cardinality(T) <= k
    <2> HIDE DEF f, T, Below
    <2>1. QED BY <1>6, <1>7, FS_Injection
  <1>9. T = OldestPaused(k) BY DEF OldestPaused, P
  <1>10. QED BY <1>8, <1>9

(* What a message counted still allows what it is about to write.          *)
RoomLeft ==
    \A m \in Messages :
        /\ request[m].pc = "insert" => Cardinality(Active) < MaxActive
        /\ request[m].pc = "resume" => Cardinality(Active \cup request[m].ids) <= MaxActive

LimitInv == LimitHeld /\ RoomLeft

(* Search ids are a finite set of numbers, whatever is selected from them. *)
LEMMA IdsFinite ==
    ASSUME NEW S \in SUBSET SearchIds
    PROVE  IsFiniteSet(S) /\ Cardinality(S) \in Nat
           /\ \A T \in SUBSET S : Cardinality(T) <= Cardinality(S)
  <1>1. IsFiniteSet(SearchIds)
    BY ConstantsAssumption, FS_Interval DEF SearchIds
  <1>2. IsFiniteSet(S) BY <1>1, FS_Subset
  <1>3. QED BY <1>2, FS_CardinalityType, FS_Subset

(* The active searches after a write of the statuses.                      *)
LEMMA ActiveAfter ==
    ASSUME searches \in [SearchIds -> Search], NEW ids \in SUBSET SearchIds,
           NEW status \in {"active", "paused", "deleted"}, SetStatus(ids, status)
    PROVE  Active' = IF status = "active" THEN Active \cup ids ELSE Active \ ids
  <1>1. Active' = {i \in SearchIds : searches'[i].status = "active"}
    BY DEF Active, WithStatus
  <1>2. QED BY <1>1, StatusAfter DEF Active, WithStatus

(* The searches never get closer to the limit than a message has counted,  *)
(* except by the message's own write.                                      *)
LEMMA ActiveStep ==
    ASSUME TypeInv, LimitInv, [Next]_vars
    PROVE  /\ Active' \in SUBSET SearchIds /\ Cardinality(Active') <= MaxActive
           /\ Active' \in SUBSET Active \/ \E m \in Messages : request' = [request EXCEPT ![m] = Quiet]
  <1> USE DEF TypeInv, TypeOK
  <1>1. Active \in SUBSET SearchIds /\ Active' \in SUBSET SearchIds
    BY DEF Active, WithStatus
  <1>2. Cardinality(Active) <= MaxActive BY DEF LimitInv, LimitHeld
  <1>3. ASSUME Active' \in SUBSET Active PROVE Cardinality(Active') <= MaxActive
    BY <1>1, <1>2, <1>3, IdsFinite, ConstantsAssumption
  <1>4. ASSUME NEW m \in Messages, Writes(m)
        PROVE  Cardinality(Active') <= MaxActive
    <2>1. request[m] \in Request /\ request[m].ids \in SUBSET SearchIds BY DEF Request
    <2>2. CASE Insert(m)
      <3>1. PICK i \in SearchIds :
              searches' = [searches EXCEPT ![i] = [route |-> request[m].route, status |-> "active"]]
        BY <2>2 DEF Insert
      <3>2. Active' = Active \cup {i}
        BY <3>1 DEF Active, WithStatus
      <3>3. Cardinality(Active) < MaxActive BY <2>2 DEF Insert, LimitInv, RoomLeft
      <3>4. Cardinality(Active \cup {i}) <= Cardinality(Active) + 1
        BY <1>1, IdsFinite, FS_AddElement
      <3>5. Cardinality(Active) \in Nat /\ Cardinality(Active \cup {i}) \in Nat
        BY <1>1, IdsFinite
      <3>6. QED BY <3>2, <3>3, <3>4, <3>5, ConstantsAssumption
    <2>3. CASE Resume(m)
      <3>1. Active' = Active \cup request[m].ids
        BY <2>1, <2>3, ActiveAfter DEF Resume
      <3>2. QED BY <2>3, <3>1 DEF Resume, LimitInv, RoomLeft
    <2>4. CASE PauseAll(m) BY <1>1, <1>3, <2>4, ActiveAfter DEF PauseAll
    <2>5. CASE \E ids \in SUBSET SearchIds : SetStatus(ids, "deleted")
      BY <1>3, <2>5, ActiveAfter
    <2>6. QED BY <1>4, <2>2, <2>3, <2>4, <2>5 DEF Writes
  <1>5. CASE \E m \in Messages : Writes(m)
    BY <1>1, <1>4, <1>5 DEF Writes
  <1>6. QED
    <2>1. CASE UNCHANGED searches
      BY <1>1, <1>3, <2>1 DEF Active, WithStatus
    <2>2. CASE SetStatus(Active, "paused")
      BY <1>1, <1>3, <2>2, ActiveAfter
    <2>3. QED BY <1>5, <2>1, <2>2, SearchStep

LEMMA RoomStep ==
    ASSUME OneMessage, TypeInv, LimitInv, [Next]_vars
    PROVE  RoomLeft'
  <1> SUFFICES ASSUME NEW m \in Messages, request'[m].pc \in {"insert", "resume"}
               PROVE  /\ request'[m].pc = "insert" => Cardinality(Active') < MaxActive
                      /\ request'[m].pc = "resume" =>
                            Cardinality(Active' \cup request'[m].ids) <= MaxActive
    BY DEF RoomLeft
  <1>1. request[m] \in Request /\ request'[m] \in Request
    BY TypeStep DEF TypeInv, TypeOK
  <1>2. Active' \in SUBSET Active
    <2>1. ASSUME NEW n \in Messages, request' = [request EXCEPT ![n] = Quiet] PROVE FALSE
      BY <2>1 DEF Quiet, TypeInv, TypeOK, OneMessage
    <2>2. QED BY <2>1, ActiveStep
  <1>3. /\ Active \in SUBSET SearchIds /\ Active' \in SUBSET SearchIds
        /\ request'[m].ids \in SUBSET SearchIds
    BY <1>1 DEF Active, WithStatus, Request
  <1>4. CASE request'[m] = request[m]
    <2>1. Active' \cup request'[m].ids \in SUBSET (Active \cup request[m].ids)
      BY <1>2, <1>4
    <2>2. Cardinality(Active' \cup request'[m].ids) <= Cardinality(Active \cup request[m].ids)
      <3>1. Active \cup request[m].ids \in SUBSET SearchIds BY <1>3, <1>4
      <3>2. QED BY <2>1, <3>1, IdsFinite
    <2>3. Cardinality(Active') <= Cardinality(Active)
      BY <1>2, <1>3, IdsFinite
    <2>4. /\ {Cardinality(Active'), Cardinality(Active), Cardinality(Active' \cup request'[m].ids),
              Cardinality(Active \cup request[m].ids)} \subseteq Nat
      BY <1>3, <1>4, IdsFinite
    <2>5. QED BY <1>4, <2>2, <2>3, <2>4, ConstantsAssumption DEF LimitInv, RoomLeft
  <1>5. CASE ChooseResumed(m)
    <2> DEFINE k == MaxActive - Cardinality(Active)
               ids == OldestPaused(k)
    <2>1. /\ request'[m].ids = ids /\ request'[m].pc = "resume" /\ UNCHANGED searches
          /\ Cardinality(Active) < MaxActive
      BY <1>1, <1>5 DEF ChooseResumed, TypeInv, TypeOK, Request
    <2>2. k \in Nat /\ Cardinality(Active) \in Nat
      BY <1>3, <2>1, IdsFinite, ConstantsAssumption
    <2>3. IsFiniteSet(ids) /\ Cardinality(ids) <= k
      <3> HIDE DEF k
      <3>1. QED BY <2>2, OldestBounded
    <2>4. Active' = Active BY <2>1 DEF Active, WithStatus
    <2> HIDE DEF ids
    <2>5. Cardinality(Active \cup ids) <= Cardinality(Active) + Cardinality(ids)
      <3>1. Cardinality(Active \cup ids) =
              Cardinality(Active) + Cardinality(ids) - Cardinality(Active \cap ids)
        BY <1>3, <2>3, IdsFinite, FS_Union
      <3>2. Cardinality(Active \cap ids) \in Nat
        <4>1. Active \cap ids \in SUBSET SearchIds BY <1>3
        <4>2. QED BY <4>1, IdsFinite
      <3>3. Cardinality(ids) \in Nat BY <2>3, FS_CardinalityType
      <3>4. QED BY <2>2, <3>1, <3>2, <3>3
    <2>6. Cardinality(ids) \in Nat /\ Cardinality(Active \cup ids) \in Nat
      <3>1. Active \cup ids \in SUBSET SearchIds BY <1>3, <2>1
      <3>2. QED BY <2>3, <3>1, IdsFinite, FS_CardinalityType
    <2>7. Cardinality(Active \cup ids) <= MaxActive
      BY <2>2, <2>3, <2>5, <2>6, ConstantsAssumption
    <2>8. QED BY <2>1, <2>4, <2>7
  <1>6. ASSUME NEW route \in Routes \cup {Gps}, Create(m, route)
        PROVE  request'[m].pc = "insert" /\ Cardinality(Active') < MaxActive
    <2>1. request'[m].pc = "insert" /\ UNCHANGED searches /\ Cardinality(Active) < MaxActive
      BY <1>1, <1>6 DEF Create, MayCreate, TypeInv, TypeOK, Request
    <2>2. QED BY <2>1 DEF Active, WithStatus
  <1>7. QED BY <1>4, <1>5, <1>6, RequestStep

(* Where a driver's messages are handled one after the other, there are    *)
(* never more active searches than the limit, although the count and the   *)
(* write that relies on it are separate and the session task pauses        *)
(* searches in between.                                                    *)
THEOREM LimitCorrect ==
    ASSUME OneMessage
    PROVE  Spec => []LimitHeld
  <1>1. Init => LimitInv
    <2> SUFFICES ASSUME Init PROVE LimitInv OBVIOUS
    <2>1. Active = {} BY DEF Init, Active, WithStatus
    <2>2. Cardinality({}) = 0 BY FS_EmptySet
    <2>3. QED BY <2>1, <2>2, ConstantsAssumption DEF Init, LimitInv, LimitHeld, RoomLeft, Quiet
  <1>2. TypeInv /\ LimitInv /\ [Next]_vars => LimitInv'
    <2> SUFFICES ASSUME TypeInv, LimitInv, [Next]_vars PROVE LimitInv' OBVIOUS
    <2>1. LimitHeld' BY ActiveStep DEF LimitHeld
    <2>2. RoomLeft' BY RoomStep
    <2>3. QED BY <2>1, <2>2 DEF LimitInv
  <1>3. LimitInv => LimitHeld BY DEF LimitInv
  <1>4. QED BY <1>1, <1>2, <1>3, TypeInit, TypeStep, PTL DEF Spec

=============================================================================
