----------------------------- MODULE StationOwners -----------------------------
(***************************************************************************)
(* The owners of stations (app/domain/services/station_service.py 112-423  *)
(* and the routes that call it).  Who owns a station is kept twice: in     *)
(* station_owners, a row for each person and station, and in the older     *)
(* Station.owner_id, which counts for stations whose owner has no row yet. *)
(* The role of a person follows from both.                                 *)
(*                                                                         *)
(* A request reads, decides and commits; nothing is locked before the      *)
(* first write.                                                            *)
(***************************************************************************)
EXTENDS FiniteSets

CONSTANTS
    Stations,
    Users,
    Couriers,    \* users who have a courier's wallet
    Requests,    \* requests that change owners at the same time
    Clash,       \* may requests about one person or one station overlap
    None

Roles == {"SENDER", "COURIER", "STATION_OWNER"}

ASSUME OwnersAssumption ==
    /\ None \notin Stations \cup Users \cup Roles
    /\ Couriers \subseteq Users
    /\ Clash \in BOOLEAN

VARIABLES
    row,       \* the row of station_owners: none, active or inactive
    heir,      \* Station.owner_id, None before the station exists
    role,      \* of each user
    request,   \* what each request has read and is about to write
    removed    \* history: <<user, station>> pairs removed and not added since

ownerVars == <<row, heir, role, request, removed>>

RowStates == {"none", "active", "inactive"}

Request == [step : {"idle", "adding", "removing", "leaving", "listing"},
            station : Stations \cup {None},
            user : Users \cup {None},
            row : RowStates,
            owners : SUBSET Users,
            heir : Users \cup {None},
            role : Roles \cup {None}]

Idle == [step |-> "idle", station |-> None, user |-> None, row |-> "none",
         owners |-> {}, heir |-> None, role |-> None]

OwnersTypeOK ==
    /\ row \in [Stations -> [Users -> RowStates]]
    /\ heir \in [Stations -> Users \cup {None}]
    /\ role \in [Users -> Roles]
    /\ request \in [Requests -> Request]
    /\ removed \subseteq Users \X Stations

-----------------------------------------------------------------------------
(* Queries *)

(* is_owner_of_station: a row, or the old column.                          *)
Owns(u, s) == row[s][u] = "active" \/ heir[s] = u

(* get_stations_by_owner                                                   *)
StationsOf(u) == {s \in Stations : Owns(u, s)}

Active(s) == {u \in Users : row[s][u] = "active"}

(* What a person is who owns nothing.                                      *)
FormerRole(u) == IF u \in Couriers THEN "COURIER" ELSE "SENDER"

-----------------------------------------------------------------------------
(* Stations from before station_owners have only the old column.           *)
OwnersInit ==
    /\ heir \in [Stations -> Users \cup {None}]
    /\ row = [s \in Stations |-> [u \in Users |-> "none"]]
    /\ role = [u \in Users |-> IF \E s \in Stations : heir[s] = u
                               THEN "STATION_OWNER" ELSE FormerRole(u)]
    /\ request = [r \in Requests |-> Idle]
    /\ removed = {}

(* Unless they may clash, requests that overlap are additions or are about *)
(* different persons and different stations.                               *)
Apart(q, s, u, adds) ==
    \/ request[q].step = "idle"
    \/ adds /\ request[q].step = "adding"
    \/ request[q].user # u /\ request[q].station # s

MayBegin(r, s, u, adds) ==
    /\ request[r].step = "idle"
    /\ heir[s] # None
    /\ Clash \/ \A q \in Requests : Apart(q, s, u, adds)

Begin(r, what) ==
    /\ request' = [request EXCEPT ![r] = what]
    /\ UNCHANGED <<row, heir, role, removed>>

End(r) == request' = [request EXCEPT ![r] = Idle]

SetRow(s, u, state) == row' = [row EXCEPT ![s][u] = state]

(* POST /stations of an administrator: one transaction.                    *)
CreateStation(s, u) ==
    /\ heir[s] = None
    /\ Clash \/ \A q \in Requests : Apart(q, s, u, TRUE)
    /\ heir' = [heir EXCEPT ![s] = u]
    /\ SetRow(s, u, "active")
    /\ role' = [role EXCEPT ![u] = "STATION_OWNER"]
    /\ UNCHANGED <<request, removed>>

-----------------------------------------------------------------------------
(* add_owner *)

ReadForAdding(r, s, u) ==
    /\ MayBegin(r, s, u, TRUE)
    /\ row[s][u] # "active"
    /\ Begin(r, [Idle EXCEPT !.step = "adding", !.station = s, !.user = u, !.row = row[s][u],
                             !.role = IF role[u] # "STATION_OWNER" THEN "STATION_OWNER" ELSE None])

(* uq_station_owner: somebody else has inserted the row.                   *)
RowExists(q) == q.row = "none" /\ row[q.station][q.user] # "none"

WithRole(q) == IF q.role = None THEN role ELSE [role EXCEPT ![q.user] = q.role]

CommitAddition(r) ==
    LET q == request[r] IN
    /\ q.step = "adding"
    /\ ~RowExists(q)
    /\ SetRow(q.station, q.user, "active")
    /\ role' = WithRole(q)
    /\ removed' = removed \ {<<q.user, q.station>>}
    /\ End(r)
    /\ UNCHANGED heir

AdditionFails(r) ==
    /\ request[r].step = "adding"
    /\ RowExists(request[r])
    /\ End(r)
    /\ UNCHANGED <<row, heir, role, removed>>

-----------------------------------------------------------------------------
(* remove_owner *)

(* The last owner stays.                                                   *)
ReadForRemoval(r, s, u) ==
    /\ MayBegin(r, s, u, FALSE)
    /\ u \in Active(s)
    /\ Active(s) # {u}
    /\ Begin(r, [Idle EXCEPT !.step = "removing", !.station = s, !.user = u, !.owners = Active(s)])

(* Fault: Station.owner_id keeps the owner who leaves. *)
HeirsNever(q) == {None}

(* Another owner takes over if the one who leaves is Station.owner_id.     *)
Heirs(q) ==
    IF heir[q.station] = q.user THEN q.owners \ {q.user} ELSE {None}

(* The queries flush the deactivated row and the new owner_id, which locks *)
(* both until the commit.                                                  *)
Unlocked(q, h) ==
    \A p \in Requests : request[p].step = "leaving" /\ request[p].station = q.station =>
        request[p].user # q.user /\ (h = None \/ request[p].heir = None)

(* Fault: only the rows are asked, not the old column. *)
DecideByRow(r) ==
    LET q == request[r]
        lost == {s \in Stations : row[s][q.user] = "active"} \subseteq {q.station}
    IN
    /\ q.step = "removing"
    /\ \E h \in Heirs(q) :
          /\ Unlocked(q, h)
          /\ request' = [request EXCEPT ![r] =
                 [q EXCEPT !.step = "leaving", !.heir = h,
                           !.role = IF lost /\ role[q.user] = "STATION_OWNER"
                                    THEN FormerRole(q.user) ELSE None]]
    /\ UNCHANGED <<row, heir, role, removed>>

(* The role falls back if no other station is left, seen with the own      *)
(* changes of this transaction.                                            *)
Decide(r) ==
    LET q == request[r]
        lost == StationsOf(q.user) \subseteq {q.station}
    IN
    /\ q.step = "removing"
    /\ \E h \in Heirs(q) :
          /\ Unlocked(q, h)
          /\ request' = [request EXCEPT ![r] =
                 [q EXCEPT !.step = "leaving", !.heir = h,
                           !.role = IF lost /\ role[q.user] = "STATION_OWNER"
                                    THEN FormerRole(q.user) ELSE None]]
    /\ UNCHANGED <<row, heir, role, removed>>

CommitRemoval(r) ==
    LET q == request[r] IN
    /\ q.step = "leaving"
    /\ SetRow(q.station, q.user, "inactive")
    /\ heir' = IF q.heir = None THEN heir ELSE [heir EXCEPT ![q.station] = q.heir]
    /\ role' = WithRole(q)
    /\ removed' = removed \cup {<<q.user, q.station>>}
    /\ End(r)

-----------------------------------------------------------------------------
(* get_owners, in a conversation: whoever is only in the old column gets a *)
(* row.                                                                    *)
ReadForListing(r, s) ==
    /\ MayBegin(r, s, heir[s], FALSE)
    /\ Begin(r, [Idle EXCEPT !.step = "listing", !.station = s, !.owners = Active(s)])

(* The row of the owner is inserted or activated; if it has meanwhile      *)
(* appeared and is active, the insertion fails.                            *)
Migrate(r) ==
    LET s == request[r].station IN
    /\ request[r].step = "listing"
    /\ IF heir[s] \in request[r].owners \/ row[s][heir[s]] = "active" THEN UNCHANGED row
       ELSE SetRow(s, heir[s], "active")
    /\ End(r)
    /\ UNCHANGED <<heir, role, removed>>

-----------------------------------------------------------------------------
OwnersStep(r) ==
    \/ \E s \in Stations, u \in Users : ReadForAdding(r, s, u)
    \/ CommitAddition(r)
    \/ AdditionFails(r)
    \/ \E s \in Stations, u \in Users : ReadForRemoval(r, s, u)
    \/ Decide(r)
    \/ CommitRemoval(r)
    \/ \E s \in Stations : ReadForListing(r, s)
    \/ Migrate(r)

OwnersNext ==
    \/ \E s \in Stations, u \in Users : CreateStation(s, u)
    \/ \E r \in Requests : OwnersStep(r)

OwnersSpec == OwnersInit /\ [][OwnersNext]_ownerVars

-----------------------------------------------------------------------------
(* Properties *)

(* Whoever owns a station has the role that the panel and the menus ask    *)
(* for, and nobody keeps it without a station; so every station has        *)
(* somebody who can run it.  A role is changed by requests about one       *)
(* station that read the rows and the old column of all others.            *)
RoleFollowsOwnership ==
    \A u \in Users : role[u] = "STATION_OWNER" <=> StationsOf(u) # {}

(* A removed owner stays out until added again: the old column, another    *)
(* owner's removal and the migration of old stations never bring him back. *)
RemovedStaysOut == \A us \in removed : ~Owns(us[1], us[2])
================================================================================
