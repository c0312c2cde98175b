----------------------------- MODULE MCConversation -----------------------------
(***************************************************************************)
(* The stories that are checked.  The telephone and the name only matter   *)
(* to newcomers; an administrator is disturbed only where switching roles  *)
(* is off, since the visits alone make most of the states.                 *)
(***************************************************************************)
EXTENDS Conversation

Newcomer ==
    [role |-> "SENDER", approval |-> "none", terms |-> FALSE, named |-> FALSE, phoned |-> FALSE,
     driver |-> FALSE, verification |-> "none", dispatcher |-> "none", owner |-> FALSE,
     here |-> <<"sender", "INITIAL">>, ctx |-> {}, heard |-> [flow |-> "none", missing |-> {}]]

Known == [Newcomer EXCEPT !.named = TRUE, !.phoned = TRUE, !.here = <<"sender", "MENU">>]

Administrator == [Known EXCEPT !.role = "ADMIN"]

Owner == [Known EXCEPT !.role = "STATION_OWNER", !.owner = TRUE, !.here = <<"station", "MENU">>]

SendingDispatcher == [Known EXCEPT !.dispatcher = "real"]

ApprovedCourier ==
    [Known EXCEPT !.role = "COURIER", !.terms = TRUE, !.approval = "approved",
                  !.here = <<"courier", "MENU">>]

Story(where, who, isListed, mayswitch, bound) ==
    [platform |-> where, person |-> who, listed |-> isListed, switching |-> mayswitch,
     disturbances |-> bound]

Platforms == {"telegram", "whatsapp", "cloud"}

People == {Newcomer, Owner, SendingDispatcher, ApprovedCourier}

MCStories ==
    {Story(where, who, FALSE, TRUE, 1) : where \in Platforms, who \in People} \cup
    {Story(where, Administrator, FALSE, FALSE, 1) : where \in Platforms} \cup
    {Story(where, Administrator, FALSE, TRUE, 0) : where \in Platforms} \cup
    {Story(where, Administrator, TRUE, TRUE, 0) : where \in Platforms \ {"cloud"}}
================================================================================
