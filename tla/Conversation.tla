------------------------------ MODULE Conversation ------------------------------
(***************************************************************************)
(* A person who writes to the bot, on Telegram or on WhatsApp, while       *)
(* others approve them, give them a station or take it away, and while     *)
(* the process may die between two commits of a message.                   *)
(*                                                                         *)
(* The messages of the person follow each other and each is one step; the  *)
(* flows answer in every way they can, whatever the text says.             *)
(***************************************************************************)
EXTENDS Handlers, Naturals

INSTANCE Dialogue

-----------------------------------------------------------------------------
(* Flows, and what their conversations remember *)

Flows == {"sender", "courier", "dispatcher", "station", "driver", "admin"}

(* The questions a form begins with, and the screens of a menu.  A courier *)
(* may name a package in the menu and skip the question for it.            *)
Entries(flow) ==
    {"MENU", "INITIAL"} \cup
    CASE flow = "sender"     -> Sender!Declared.INITIAL \cup Sender!Declared.MENU
      [] flow = "courier"    -> Courier!Declared.INITIAL \cup Courier!Declared.MENU \cup {"DEPOSIT_UPLOAD"}
      [] flow = "dispatcher" -> Dispatcher!Declared.MENU
      [] flow = "station"    -> Station!Declared.MENU
      [] flow = "driver"     -> Driver!Declared.INITIAL \cup Driver!Declared.MENU
      [] flow = "admin"      -> {}

Declared(flow) ==
    CASE flow = "sender"     -> Sender!Declared
      [] flow = "courier"    -> Courier!Declared
      [] flow = "dispatcher" -> Dispatcher!Declared
      [] flow = "station"    -> Station!Declared
      [] flow = "driver"     -> Driver!Declared
      [] flow = "admin"      -> Admin!Declared

(* What the forms of a flow keep in the context.  changing_area stays      *)
(* there when a courier goes back from the question.                       *)
FormKeys(flow) ==
    CASE flow = "sender"     -> Sender!DeliveryKeys
      [] flow = "courier"    -> Courier!KycKeys \ {"changing_area"}
      [] flow = "dispatcher" -> Dispatcher!FormKeys
      [] flow = "station"    -> Station!ManagementKeys
      [] flow = "driver"     -> Driver!RegistrationKeys \cup Driver!SearchKeys \cup Driver!RideKeys
      [] flow = "admin"      -> {}

(* What handlers keep, and what the webhooks keep themselves.              *)
FlowKeys == (UNION {FormKeys(flow) : flow \in Flows}) \cup
            {"name", "changing_area", "pending_menu_action", "subscription_months",
             "support_prompt_shown"}

Keys == FlowKeys \cup Admin!AdminKeys \cup
        {"contact_admin_pending", "admin_root_menu", "entered_as_admin"}

(* The states of a conversation.                                           *)
States == UNION {{flow} \X DOMAIN Declared(flow) : flow \in Flows}

(* A person: see Dialogue.                                                 *)
Person ==
    [role : Roles,
     approval : {"none", "pending", "approved", "rejected", "blocked"},
     terms : BOOLEAN, named : BOOLEAN, phoned : BOOLEAN, driver : BOOLEAN,
     verification : {"none", "pending", "approved", "rejected"},
     dispatcher : {"none", "real", "lent"}, owner : BOOLEAN,
     here : States,
     ctx : SUBSET Keys,
     heard : [flow : Flows \cup {"none"}, missing : SUBSET Keys]]

-----------------------------------------------------------------------------
CONSTANT Stories    \* where and with whom a story may begin, in which settings, and how many
                    \* decisions of others and deaths of the process it has at most

(* A story begins in a menu or before the first message, with nothing      *)
(* remembered and no visit under way.                                      *)
ASSUME ConversationAssumption ==
    \A story \in Stories :
        /\ story.platform \in {"telegram", "whatsapp", "cloud"}
        /\ story.listed \in BOOLEAN
        /\ story.switching \in BOOLEAN
        /\ story.disturbances \in Nat
        /\ story.person \in Person
        /\ story.person.here \in {<<"sender", "INITIAL">>} \cup {<<flow, "MENU">> : flow \in Flows}
        /\ story.person.ctx = {} /\ story.person.heard.missing = {}
        /\ story.person.dispatcher # "lent"

VARIABLES platform,     \* where the person writes
          listed,       \* is the person among the administrators of the settings
          switching,    \* ADMIN_ROLE_SWITCH_ENABLED
          person,       \* the person and the conversation: see Dialogue
          switched,     \* history: what the last switch of role found
          disturbances  \* how often others may still decide something, or the process die

vars == <<platform, listed, switching, person, switched, disturbances>>
fixed == <<platform, listed, switching>>

Telegram == INSTANCE TelegramRouting
WhatsApp == INSTANCE CloudRouting    \* of the Cloud API, and the other's, which it extends

TextsOf(where) ==
    CASE where = "telegram" -> Telegram!Texts
      [] where = "whatsapp" -> WhatsApp!Texts
      [] where = "cloud"    -> WhatsApp!CloudTexts

Texts == UNION {TextsOf(where) : where \in {"telegram", "whatsapp", "cloud"}}

NotSwitched == [approval |-> "none", dispatcher |-> "none"]

Init ==
    /\ \E story \in Stories :
          /\ platform = story.platform
          /\ listed = story.listed
          /\ switching = story.switching
          /\ person = story.person
          /\ disturbances = story.disturbances
    /\ switched = NotSwitched

-----------------------------------------------------------------------------
(* Messages *)

Answers(text) ==
    CASE platform = "telegram" -> Telegram!Answered(person, text)
      [] platform = "whatsapp" -> WhatsApp!Answered(person, text)
      [] platform = "cloud"    -> WhatsApp!AnsweredInCloud(person, text)

(* History: a switch of role remembers what it is to be undone to.         *)
Remember(after) ==
    switched' = IF person.role = "ADMIN" /\ after.role # "ADMIN" /\ Impersonating(after)
                THEN [approval |-> person.approval, dispatcher |-> person.dispatcher]
                ELSE IF after.role = "ADMIN" THEN NotSwitched ELSE switched

Message(text) ==
    /\ text \in TextsOf(platform)
    /\ person' \in Answers(text)
    /\ Remember(person')
    /\ UNCHANGED <<fixed, disturbances>>

-----------------------------------------------------------------------------
Disturb(p) ==
    /\ disturbances > 0
    /\ disturbances' = disturbances - 1
    /\ person' = [p EXCEPT !.heard = Silent]
    /\ UNCHANGED <<fixed, switched>>

(* What a process that dies leaves of a message *)

(* After the menu of the role was forced, before an administrator's keys   *)
(* are put back.                                                           *)
DieInMenu ==
    Disturb(IF platform = "telegram" THEN Telegram!ResolveRoleState(person)
                                  ELSE WhatsApp!ResolveRoleState(person))

(* After the role was changed, before the conversation was.                *)
DieJoining ==
    /\ person.role = "SENDER" /\ ~InMultiStepFlow(person)
    /\ \E role \in {"COURIER", "DRIVER"} : Disturb([person EXCEPT !.role = role])

(* After a handler's operation, before its answer is kept: the form is     *)
(* still open.                                                             *)
DieInHandler ==
    \E flow \in Flows \ {"admin"} :
        /\ person.here[1] = flow
        /\ \E o \in Outcomes(person, flow) : \E p \in Effects(person, o.does) :
               /\ p # person
               /\ Disturb(p)

-----------------------------------------------------------------------------
(* Others *)

(* Somebody who applied and went back to sending is a courier again.       *)
Applicant == [person EXCEPT !.role = IF @ = "SENDER" /\ person.approval = "pending" THEN "COURIER" ELSE @]

ApproveCourier ==
    /\ Applicant.role = "COURIER"
    /\ person.approval \notin {"approved", "blocked"}
    /\ Disturb([Applicant EXCEPT !.approval = "approved"])

RejectCourier ==
    /\ Applicant.role = "COURIER"
    /\ person.approval \notin {"approved", "rejected", "blocked"}
    /\ Disturb([Applicant EXCEPT !.approval = "rejected"])

(* _build_driver_rejection_context *)
RejectionContext == {"reg_name", "reg_age", "reg_vehicle"}

(* Whatever the driver is doing is replaced by what the decision asks for. *)
Decided(decision) ==
    LET p == [person EXCEPT !.verification = decision] IN
    IF decision = "approved" THEN ForceState(p, <<"driver", "MENU">>)
    ELSE [ForceState(p, <<"driver", "VERIFY_COLLECT_SELFIE">>) EXCEPT !.ctx = RejectionContext]

ApproveDriver == person.verification = "pending" /\ Disturb(Decided("approved"))

RejectDriver == person.verification = "pending" /\ Disturb(Decided("rejected"))

(* An owner of the station adds and removes owners and dispatchers.        *)
AddOwner ==
    /\ ~person.owner
    /\ Disturb([person EXCEPT !.owner = TRUE, !.role = "STATION_OWNER"])

RemoveOwner ==
    /\ person.owner
    /\ \E p \in NoLongerOwner(person) : Disturb(p)

AddDispatcher ==
    /\ person.dispatcher = "none"
    /\ Disturb([person EXCEPT !.dispatcher = "real"])

RemoveDispatcher ==
    /\ person.dispatcher # "none"
    /\ Disturb([person EXCEPT !.dispatcher = "none"])

(* The operator of the system closes the station or blocks the person.     *)
CloseStation ==
    /\ person.owner \/ person.dispatcher # "none"
    /\ Disturb([person EXCEPT !.owner = FALSE, !.dispatcher = "none"])

Block ==
    /\ person.approval # "blocked"
    /\ Disturb([person EXCEPT !.approval = "blocked"])

-----------------------------------------------------------------------------
Others ==
    \/ ApproveCourier
    \/ RejectCourier
    \/ ApproveDriver
    \/ RejectDriver
    \/ AddOwner
    \/ RemoveOwner
    \/ AddDispatcher
    \/ RemoveDispatcher
    \/ CloseStation
    \/ Block

Die == DieInMenu \/ DieJoining \/ DieInHandler

Next ==
    \/ \E text \in Texts : Message(text)
    \/ Die
    \/ Others

Spec == Init /\ [][Next]_vars

-----------------------------------------------------------------------------
(* Properties *)

(* The types of the variables; the conversation is always in a state that  *)
(* its flow declares.                                                      *)
TypeOK ==
    /\ platform \in {"telegram", "whatsapp", "cloud"}
    /\ {listed, switching} \subseteq BOOLEAN
    /\ disturbances \in Nat
    /\ person \in Person
    /\ switched \in [approval : {"none", "pending", "approved", "rejected", "blocked"},
                     dispatcher : {"none", "real", "lent"}]

(* No handler performs an operation, or repeats earlier replies, without   *)
(* the replies it reads from the context: the code reads them with a       *)
(* default, so a delivery would have no address and a charge no amount.    *)
(* And a form that was left in any way leaves nothing in the menu for the  *)
(* next one to find.  Dying processes, menus forced in the middle of a     *)
(* form, decisions of others and switches of role all rewrite the context. *)
(* On WhatsApp that is said of the flows that are only entered in a state  *)
(* of theirs: the others can meet the form of an earlier role.             *)
DraftComplete ==
    /\ person.heard.missing = {}
    /\ (/\ person.here[2] = "MENU"
        /\ platform = "telegram" \/ person.here[1] \in {"dispatcher", "driver"})
          => person.ctx \cap FormKeys(person.here[1]) = {}

(* A message is a step that nothing disturbs.                              *)
IsMessage == disturbances' = disturbances

(* A question in the middle of a form is only reached from the question    *)
(* before it.  transition_to checks this, but when it refuses the handlers *)
(* force the state.                                                        *)
FormsInOrder ==
    [][LET from == person.here
           to == person'.here IN
       (IsMessage /\ from[1] = to[1] /\ from # to /\ to[2] \notin Entries(to[1]))
           => to[2] \in Declared(from[1])[from[2]]]_vars

(* The handler of a flow runs only for somebody who has the role, or the   *)
(* station, before the message or by it, and couriers reach the screens of *)
(* their menu only while they are approved: whatever state a conversation  *)
(* was left in when the role, the station or the approval was taken away.  *)
HandledForRole ==
    [][LET flow == person'.heard.flow
           Either(P(_)) == P(person) \/ P(person') IN
       /\ flow = "dispatcher" => Either(LAMBDA p : p.dispatcher # "none")
       /\ flow = "station"    => Either(LAMBDA p : p.owner)
       /\ flow = "courier"    => Either(LAMBDA p : p.role = "COURIER")
       /\ flow = "driver"     => Either(LAMBDA p : p.role = "DRIVER")
       /\ flow = "admin"      => Either(LAMBDA p : p.role = "ADMIN")
       /\ (/\ flow = "courier"
           /\ person'.here # person.here
           /\ person'.here[2] \in Courier!Declared.MENU) => person'.approval = "approved"]_vars

(* An administrator who visits a role comes back with the approval of      *)
(* before the switch, whatever happened to it in the role; on Telegram, no *)
(* message on the way loses what the way back needs.                       *)
VisitIsUndone ==
    [][(IsMessage /\ Impersonating(person)) =>
          /\ (person.role # "ADMIN" /\ person'.role = "ADMIN") => person'.approval = switched.approval
          /\ platform = "telegram" => Impersonating(person') \/ person'.role = "ADMIN"]_vars

(* An association with a station that a switch made is remembered until it *)
(* is ended: it does not outlive the visit.                                *)
ReturnsTheAssociation(where) ==
    (platform \in where /\ person.dispatcher = "lent")
        => "as_dispatcher" \in person.ctx /\ "admin_dispatcher_preexisted" \notin person.ctx

(* What replaces the whole context behind the back of a visit: a death     *)
(* between the menu and the keys, and a decision about a driver.           *)
Replaced == DieInMenu \/ ApproveDriver \/ RejectDriver

(* On Telegram the association ends with the visit: no message forgets it, *)
(* and nothing that others do meanwhile, unless it replaces the context.   *)
LentIsReturned ==
    [][(ReturnsTheAssociation({"telegram"}) /\ ~ReturnsTheAssociation({"telegram"})')
          => Replaced]_vars

(* The same where the return is written out in the webhook: there the      *)
(* association is forgotten and stays (violated).                          *)
LentIsReturnedOnWhatsApp == ReturnsTheAssociation({"whatsapp", "cloud"})
================================================================================
