----------------------------- MODULE MCPanelAccess -----------------------------
(* Instances of PanelAccess for TLC.  Stations, requests and visits are    *)
(* interchangeable; users are not, one of them is a courier and a guest.   *)
EXTENDS PanelAccess, TLC

CONSTANT u1

Symmetry == Permutations(Stations) \cup Permutations(Requests) \cup Permutations(Visits) \cup
            Permutations(Users \ Guests)

(* Owners alone; the keys of Redis while ownership rests, for one station  *)
(* and for two; logins and renewals while owners change.                   *)
MCStories ==
    {[owners |-> Users \cup {None}, requests |-> 2, visits |-> 0, doors |-> {}],
     [owners |-> {u1, None}, requests |-> 0, visits |-> 1, doors |-> {"code"}],
     [owners |-> {u1}, requests |-> 0, visits |-> 2, doors |-> {"code", "telegram"}],
     [owners |-> Users \cup {None}, requests |-> 1, visits |-> 2, doors |-> {"telegram"}]}
================================================================================
