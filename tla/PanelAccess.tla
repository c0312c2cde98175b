------------------------------ MODULE PanelAccess ------------------------------
(***************************************************************************)
(* The owners of stations at the door of the web panel                     *)
(* (app/core/auth.py, app/api/routes/panel/auth.py): codes sent through    *)
(* the bot, the count of wrong codes, Telegram's login, and refresh tokens *)
(* that are replaced each time they are used; while owners are added and   *)
(* removed (StationOwners).                                                *)
(*                                                                         *)
(* Codes, counters and tokens are keys of Redis: every command is atomic,  *)
(* nothing else is.  A request may stop after any of them.                 *)
(***************************************************************************)
EXTENDS StationOwners, Integers

CONSTANTS
    Guests,       \* the users who come to the panel
    Visits,       \* requests to the panel at the same time
    MaxTries,     \* OTP_MAX_ATTEMPTS
    MaxLogins,    \* bound on the logins ever
    Stories       \* who owns stations at first, how many requests of both kinds overlap, and by
                  \* which doors guests come in

ASSUME PanelAssumption ==
    /\ Guests \subseteq Users /\ IsFiniteSet(Visits)
    /\ MaxTries \in Nat /\ MaxLogins \in Nat
    /\ \A s \in Stories : /\ s.owners \subseteq Users \cup {None}
                          /\ s.requests \in Nat /\ s.visits \in Nat
                          /\ s.doors \subseteq {"code", "telegram"}

VARIABLES
    story,     \* one of the stories
    code,      \* users with a code in Redis
    tries,     \* panel_otp_attempts of each user, 0 when there is none
    early,     \* users whose counter expires before their code
    cooling,   \* users who have to wait before they ask for another code
    login,     \* the logins so far: whose, for which station, and its refresh tokens
    visit,     \* what each request to the panel is doing
    missed     \* history: how many wrong codes were compared with the present one

panelVars == <<story, code, tries, early, cooling, login, visit, missed>>
redisVars == <<code, tries, early, cooling, missed>>
vars == <<ownerVars, panelVars>>

Logins == 1..MaxLogins

Login == [user : Users \cup {None}, station : Stations \cup {None}, tokens : Nat]

NoLogin == [user |-> None, station |-> None, tokens |-> 0]

Visit == [step : {"idle", "asking", "forgetting", "counting", "comparing", "returning",
                  "consuming", "clearing", "renewing", "minting"},
          user : Users \cup {None},
          station : Stations \cup {None},     \* the station to enter
          picker : BOOLEAN,                   \* the station is still to be chosen
          login : Logins \cup {0},            \* the login that is renewed
          owned : SUBSET Stations]            \* history: what the user owned since it began

Away == [step |-> "idle", user |-> None, station |-> None, picker |-> FALSE,
         login |-> 0, owned |-> {}]

TypeOK ==
    /\ story \in Stories
    /\ OwnersTypeOK
    /\ {code, early, cooling} \subseteq SUBSET Users
    /\ tries \in [Users -> Int]
    /\ missed \in [Users -> Nat]
    /\ login \in [Logins -> Login]
    /\ visit \in [Visits -> Visit]

Init ==
    /\ OwnersInit
    /\ story \in Stories
    /\ \A s \in Stations : heir[s] \in story.owners
    /\ code = {} /\ early = {} /\ cooling = {}
    /\ tries = [u \in Users |-> 0]
    /\ missed = [u \in Users |-> 0]
    /\ login = [l \in Logins |-> NoLogin]
    /\ visit = [v \in Visits |-> Away]

-----------------------------------------------------------------------------
(* A guest sends a request, which takes its first step.                    *)
(* The checks of request_otp, verify_otp_endpoint and telegram_login.      *)
MayEnter(u) == role[u] = "STATION_OWNER" /\ StationsOf(u) # {}

Arrive(v, u, what) ==
    /\ visit[v].step = "idle"
    /\ Cardinality({w \in Visits : visit[w].step # "idle"}) < story.visits
    /\ visit' = [visit EXCEPT ![v] = [what EXCEPT !.user = u, !.owned = StationsOf(u)]]
    /\ UNCHANGED <<ownerVars, story>>

Go(v, step) == visit' = [visit EXCEPT ![v].step = step] /\ UNCHANGED <<ownerVars, story>>

Leave(v) == visit' = [visit EXCEPT ![v] = Away] /\ UNCHANGED <<ownerVars, story>>

-----------------------------------------------------------------------------
(* request_otp *)

(* try_set_otp_cooldown_by_phone                                           *)
AskForCode(v, u) ==
    /\ "code" \in story.doors
    /\ u \notin cooling
    /\ cooling' = cooling \cup {u}
    /\ Arrive(v, u, [Away EXCEPT !.step = "asking"])
    /\ UNCHANGED <<code, tries, early, login, missed>>

(* store_otp sets the code, then it deletes the counter.                   *)
StoreCode(v) ==
    LET u == visit[v].user IN
    /\ visit[v].step = "asking"
    /\ MayEnter(u)
    /\ code' = code \cup {u}
    /\ early' = IF tries[u] > 0 THEN early \cup {u} ELSE early
    /\ missed' = [missed EXCEPT ![u] = 0]
    /\ Go(v, "forgetting")
    /\ UNCHANGED <<tries, cooling, login>>

Forget(u) ==
    /\ tries' = [tries EXCEPT ![u] = 0]
    /\ early' = early \ {u}

ForgetTries(v) ==
    /\ visit[v].step = "forgetting"
    /\ Forget(visit[v].user)
    /\ Leave(v)
    /\ UNCHANGED <<code, cooling, login, missed>>

-----------------------------------------------------------------------------
(* verify_otp_endpoint and verify_otp *)

(* Somebody with several stations who chose none is asked which, and keeps *)
(* the code; a choice that is not among them is refused after the code was *)
(* used.  tries[u] <= MaxTries bounds the requests beyond the limit, which *)
(* only count.                                                             *)
BringCode(v, u, choice) ==
    LET mine == StationsOf(u)
        picker == choice = None /\ Cardinality(mine) > 1
        entered == IF choice = None THEN mine ELSE mine \cap {choice}
    IN
    /\ "code" \in story.doors
    /\ MayEnter(u)
    /\ tries[u] <= MaxTries
    /\ \E s \in IF picker \/ entered = {} THEN {None} ELSE entered :
          Arrive(v, u, [Away EXCEPT !.step = "counting", !.picker = picker, !.station = s])
    /\ UNCHANGED <<redisVars, login>>

(* _increment_and_check_otp_attempts: a count of one starts a new life.    *)
CountTry(v) ==
    LET u == visit[v].user IN
    /\ visit[v].step = "counting"
    /\ tries' = [tries EXCEPT ![u] = @ + 1]
    /\ early' = IF tries'[u] = 1 THEN early \ {u} ELSE early
    /\ IF tries'[u] <= MaxTries THEN Go(v, "comparing") ELSE Leave(v)
    /\ UNCHANGED <<code, cooling, login, missed>>

Compare(v, right) ==
    LET u == visit[v].user IN
    /\ visit[v].step = "comparing"
    /\ missed' = IF u \in code /\ ~right THEN [missed EXCEPT ![u] = @ + 1] ELSE missed
    /\ IF ~right \/ u \notin code THEN Leave(v)
       ELSE Go(v, IF visit[v].picker THEN "returning" ELSE "consuming")
    /\ UNCHANGED <<code, tries, early, cooling, login>>

(* Fault: the counter is deleted instead. *)
ReturnAllTries(v) ==
    /\ visit[v].step = "returning"
    /\ Forget(visit[v].user)
    /\ Leave(v)
    /\ UNCHANGED <<code, cooling, login, missed>>

(* The station is asked for: this try does not count.  DECR of a counter   *)
(* that was deleted meanwhile starts a counter below zero.                 *)
ReturnTry(v) ==
    /\ visit[v].step = "returning"
    /\ tries' = [tries EXCEPT ![visit[v].user] = @ - 1]
    /\ Leave(v)
    /\ UNCHANGED <<code, early, cooling, login, missed>>

ConsumeCode(v) ==
    /\ visit[v].step = "consuming"
    /\ code' = code \ {visit[v].user}
    /\ Go(v, "clearing")
    /\ UNCHANGED <<tries, early, cooling, login, missed>>

ClearTries(v) ==
    /\ visit[v].step = "clearing"
    /\ Forget(visit[v].user)
    /\ IF visit[v].station = None THEN Leave(v) ELSE Go(v, "minting")
    /\ UNCHANGED <<code, cooling, login, missed>>

-----------------------------------------------------------------------------
(* telegram_login and telegram_login_select_station, of a signed answer.   *)
LoginWithTelegram(v, u, s) ==
    /\ "telegram" \in story.doors
    /\ role[u] = "STATION_OWNER"
    /\ s \in StationsOf(u)
    /\ Arrive(v, u, [Away EXCEPT !.step = "minting", !.station = s])
    /\ UNCHANGED <<redisVars, login>>

(* switch_station: a valid access token, of a station the user still owns. *)
SwitchStation(v, l, s) ==
    LET u == login[l].user IN
    /\ u # None
    /\ {login[l].station, s} \subseteq StationsOf(u)
    /\ Arrive(v, u, [Away EXCEPT !.step = "minting", !.station = s])
    /\ UNCHANGED <<redisVars, login>>

(* Fault: the token is read, and left to expire. *)
ReadToken(v, l) ==
    /\ login[l].tokens > 0
    /\ Arrive(v, login[l].user,
              [Away EXCEPT !.step = "renewing", !.station = login[l].station, !.login = l])
    /\ UNCHANGED <<redisVars, login>>

(* refresh_access_token: GETDEL takes the token.                           *)
TakeToken(v, l) ==
    /\ login[l].tokens > 0
    /\ login' = [login EXCEPT ![l].tokens = @ - 1]
    /\ Arrive(v, login[l].user,
              [Away EXCEPT !.step = "renewing", !.station = login[l].station, !.login = l])
    /\ UNCHANGED redisVars

(* Fault: any station will do. *)
StillSomeOwner(v) == role[visit[v].user] = "STATION_OWNER"

StillOwner(v) == role[visit[v].user] = "STATION_OWNER" /\ Owns(visit[v].user, visit[v].station)

CheckOwner(v) ==
    /\ visit[v].step = "renewing"
    /\ IF StillOwner(v) THEN Go(v, "minting") ELSE Leave(v)
    /\ UNCHANGED <<redisVars, login>>

(* create_refresh_token: of the login that is renewed, or of a new one.    *)
LoginOf(q) == IF q.login # 0 THEN {q.login} ELSE
    {l \in Logins : login[l] = NoLogin /\ \A k \in 1..(l - 1) : login[k] # NoLogin}

MintToken(v) ==
    LET q == visit[v] IN
    /\ q.step = "minting"
    /\ \E l \in LoginOf(q) :
          login' = [login EXCEPT ![l] = [user |-> q.user, station |-> q.station, tokens |-> @.tokens + 1]]
    /\ Leave(v)
    /\ UNCHANGED redisVars

(* A process dies, Redis fails or an early return is taken.                *)
Abort(v) ==
    /\ visit[v].step # "idle"
    /\ Leave(v)
    /\ UNCHANGED <<redisVars, login>>

-----------------------------------------------------------------------------
(* Keys expire.  The counter lives from a count of one, so it outlives the *)
(* code unless it is older; below zero it may be of any age.               *)

CodeExpires(u) ==
    /\ u \in code
    /\ code' = code \ {u}
    /\ UNCHANGED <<ownerVars, story, tries, early, cooling, login, visit, missed>>

TriesExpire(u) ==
    /\ tries[u] # 0
    /\ u \in early \/ u \notin code \/ tries[u] < 0
    /\ Forget(u)
    /\ UNCHANGED <<ownerVars, story, code, cooling, login, visit, missed>>

CooldownEnds(u) ==
    /\ u \in cooling
    /\ cooling' = cooling \ {u}
    /\ UNCHANGED <<ownerVars, story, code, tries, early, login, visit, missed>>

TokenExpires(l) ==
    /\ login[l].tokens > 0
    /\ login' = [login EXCEPT ![l].tokens = 0]
    /\ UNCHANGED <<ownerVars, story, redisVars, visit>>

-----------------------------------------------------------------------------
VisitStep(v) ==
    \/ \E u \in Guests : AskForCode(v, u)
    \/ StoreCode(v)
    \/ ForgetTries(v)
    \/ \E u \in Guests, choice \in Stations \cup {None} : BringCode(v, u, choice)
    \/ CountTry(v)
    \/ \E right \in BOOLEAN : Compare(v, right)
    \/ ReturnTry(v)
    \/ ConsumeCode(v)
    \/ ClearTries(v)
    \/ \E u \in Guests, s \in Stations : LoginWithTelegram(v, u, s)
    \/ \E l \in Logins, s \in Stations : SwitchStation(v, l, s)
    \/ \E l \in Logins : TakeToken(v, l)
    \/ CheckOwner(v)
    \/ MintToken(v)
    \/ Abort(v)

Expire ==
    \/ \E u \in Guests : CodeExpires(u) \/ TriesExpire(u) \/ CooldownEnds(u)
    \/ \E l \in Logins : TokenExpires(l)

(* A visit remembers what its user owned meanwhile.                        *)
OwnersChange ==
    /\ OwnersNext
    /\ Cardinality({r \in Requests : request'[r].step # "idle"}) <= story.requests
    /\ visit' = [v \in Visits |->
           IF visit[v].user = None THEN visit[v]
           ELSE [visit[v] EXCEPT !.owned = @ \cup
                    {s \in Stations : row'[s][visit[v].user] = "active" \/ heir'[s] = visit[v].user}]]
    /\ UNCHANGED <<redisVars, login, story>>

Next ==
    \/ OwnersChange
    \/ \E v \in Visits : VisitStep(v)
    \/ Expire

Spec == Init /\ [][Next]_vars

-----------------------------------------------------------------------------
(* Properties *)

(* A login has one refresh token, or one request that replaces it: of two  *)
(* requests with the same token only one gets a new one, so a login never  *)
(* becomes two.                                                            *)
OneTokenPerLogin ==
    \A l \in Logins :
        login[l].tokens + Cardinality({v \in Visits : visit[v].login = l}) <= 1

(* A login or a renewal for a station is only granted to somebody who      *)
(* owned it at some time since the request began: tokens do not outlive    *)
(* the removal of an owner by more than the requests then at work.         *)
GrantedToOwners ==
    [][\A l \in Logins, v \in Visits :
          (visit[v].step = "minting" /\ visit'[v].step = "idle" /\ login'[l].tokens > login[l].tokens)
              => login'[l].station \in visit[v].owned]_vars

(* However requests for codes, wrong codes and logins overlap, expire or   *)
(* stop half-way, wrong codes are compared with a code a bounded number of *)
(* times.  Each request that was at work when the code was stored deletes  *)
(* the counter at most once more, or takes back one try that an earlier    *)
(* counter has counted; and the counter expires early at most once.        *)
GuessesBounded ==
    \A u \in Users :
        missed[u] <= MaxTries * (Cardinality(Visits) + 2) + Cardinality(Visits)
================================================================================
