--------------------------- MODULE PanelAccess_proofs ---------------------------
(***************************************************************************)
(* Proofs about StationOwners and about PanelAccess, which extends it, for *)
(* any users, stations, requests, visits, limits and stories.              *)
(*                                                                         *)
(* The owners come first, for requests of which those that overlap are     *)
(* additions or concern different persons and different stations; then     *)
(* the panel that they enter.                                              *)
(***************************************************************************)
EXTENDS PanelAccess, TLAPS, FiniteSetTheorems

-----------------------------------------------------------------------------
(* The owners: type correctness *)

LEMMA IdleTyped == Idle \in Request /\ Idle.step = "idle"
  BY DEF Idle, Request, RowStates

(* OwnersTypeOK alone does not say that a request at work is about a       *)
(* station, and unless it lists the owners about a person.                 *)
Named ==
    \A r \in Requests :
        /\ request[r].step # "idle" => request[r].station \in Stations
        /\ request[r].step \notin {"idle", "listing"} => request[r].user \in Users

(* Every step keeps rows and requests well formed, overlapping or not.     *)
LEMMA TypeStep == OwnersTypeOK /\ Named /\ [OwnersNext]_ownerVars => OwnersTypeOK'
  <1> SUFFICES ASSUME OwnersTypeOK, Named, [OwnersNext]_ownerVars PROVE OwnersTypeOK' OBVIOUS
  <1> USE OwnersAssumption DEF OwnersTypeOK
  <1>1. ASSUME NEW s \in Stations, NEW u \in Users, CreateStation(s, u) PROVE OwnersTypeOK'
    BY <1>1 DEF CreateStation, SetRow, RowStates, Roles
  <1>2. ASSUME NEW r \in Requests, NEW what \in Request, Begin(r, what) PROVE OwnersTypeOK'
    BY <1>2 DEF Begin
  <1>3. ASSUME NEW r \in Requests, NEW s \in Stations, NEW u \in Users, ReadForAdding(r, s, u)
        PROVE OwnersTypeOK'
    <2>1. [Idle EXCEPT !.step = "adding", !.station = s, !.user = u, !.row = row[s][u],
             !.role = IF role[u] # "STATION_OWNER" THEN "STATION_OWNER" ELSE None] \in Request
      <3>1. row[s][u] \in RowStates OBVIOUS
      <3>2. QED BY <3>1 DEF Idle, Request, Roles
    <2>2. QED BY <1>2, <1>3, <2>1 DEF ReadForAdding
  <1>4. ASSUME NEW r \in Requests, CommitAddition(r) PROVE OwnersTypeOK'
    <2>1. request[r] \in Request OBVIOUS
    <2>2. role' \in [Users -> Roles]
      BY <1>4, <2>1 DEF CommitAddition, WithRole, Request
    <2>3. row' \in [Stations -> [Users -> RowStates]]
      BY <1>4, <2>1 DEF CommitAddition, SetRow, RowStates
    <2>4. QED BY <1>4, <2>2, <2>3, IdleTyped DEF CommitAddition, End
  <1>5. ASSUME NEW r \in Requests, AdditionFails(r) PROVE OwnersTypeOK'
    BY <1>5, IdleTyped DEF AdditionFails, End
  <1>6. ASSUME NEW r \in Requests, NEW s \in Stations, NEW u \in Users, ReadForRemoval(r, s, u)
        PROVE OwnersTypeOK'
    <2>1. [Idle EXCEPT !.step = "removing", !.station = s, !.user = u, !.owners = Active(s)] \in Request
      BY DEF Idle, Request, Active, RowStates
    <2>2. QED BY <1>2, <1>6, <2>1 DEF ReadForRemoval
  <1>7. ASSUME NEW r \in Requests, Decide(r) PROVE OwnersTypeOK'
    <2> DEFINE q == request[r]
    <2>1. q \in Request OBVIOUS
    <2>2. PICK h \in Heirs(q) : \E new \in {FormerRole(q.user), None} :
              request' = [request EXCEPT ![r] = [q EXCEPT !.step = "leaving", !.heir = h, !.role = new]]
      BY <1>7 DEF Decide
    <2>3. h \in Users \cup {None} /\ {FormerRole(q.user), None} \subseteq Roles \cup {None}
      BY <2>1 DEF Heirs, Request, FormerRole, Roles
    <2>4. \A new \in {FormerRole(q.user), None} :
              [q EXCEPT !.step = "leaving", !.heir = h, !.role = new] \in Request
      BY <2>1, <2>3 DEF Request
    <2>5. request' \in [Requests -> Request]
      <3>1. PICK new \in Request : request' = [request EXCEPT ![r] = new] BY <2>2, <2>4
      <3>2. QED BY <3>1
    <2>6. UNCHANGED <<row, heir, role, removed>> BY <1>7 DEF Decide
    <2>7. QED BY <2>5, <2>6
  <1>8. ASSUME NEW r \in Requests, CommitRemoval(r) PROVE OwnersTypeOK'
    <2>1. request[r] \in Request OBVIOUS
    <2>2. role' \in [Users -> Roles]
      BY <1>8, <2>1 DEF CommitRemoval, WithRole, Request
    <2>3. row' \in [Stations -> [Users -> RowStates]] /\ heir' \in [Stations -> Users \cup {None}]
      BY <1>8, <2>1 DEF CommitRemoval, SetRow, RowStates, Request
    <2>4. removed' \in SUBSET (Users \X Stations) BY <1>8 DEF CommitRemoval, Named
    <2>5. QED BY <1>8, <2>2, <2>3, <2>4, IdleTyped DEF CommitRemoval, End
  <1>9. ASSUME NEW r \in Requests, NEW s \in Stations, ReadForListing(r, s) PROVE OwnersTypeOK'
    <2>1. [Idle EXCEPT !.step = "listing", !.station = s, !.owners = Active(s)] \in Request
      BY DEF Idle, Request, Active, RowStates
    <2>2. QED BY <1>2, <1>9, <2>1 DEF ReadForListing
  <1>10. ASSUME NEW r \in Requests, Migrate(r) PROVE OwnersTypeOK'
    <2>1. row' \in [Stations -> [Users -> RowStates]]
      BY <1>10 DEF Migrate, SetRow, RowStates
    <2>2. QED BY <1>10, <2>1, IdleTyped DEF Migrate, End
  <1>11. CASE UNCHANGED ownerVars BY <1>11 DEF ownerVars
  <1>12. QED BY <1>1, <1>3, <1>4, <1>5, <1>6, <1>7, <1>8, <1>9, <1>10, <1>11 DEF OwnersNext, OwnersStep

LEMMA TypeInit == OwnersInit => OwnersTypeOK /\ Named
  BY IdleTyped DEF OwnersInit, OwnersTypeOK, Named, RowStates, Roles, FormerRole

LEMMA NamedStep == OwnersTypeOK /\ Named /\ [OwnersNext]_ownerVars => Named'
  <1> SUFFICES ASSUME OwnersTypeOK, Named, [OwnersNext]_ownerVars PROVE Named' OBVIOUS
  <1>2. ASSUME NEW r \in Requests, End(r) PROVE Named'
    BY <1>2, IdleTyped DEF End, Named, OwnersTypeOK
  <1>3. ASSUME NEW r \in Requests, NEW s \in Stations, NEW u \in Users,
               ReadForAdding(r, s, u) \/ ReadForRemoval(r, s, u)
        PROVE  Named'
    <2>1. /\ request' = [request EXCEPT ![r] = request'[r]]
          /\ request'[r].station = s /\ request'[r].user = u
      BY <1>3 DEF ReadForAdding, ReadForRemoval, Begin, Idle, OwnersTypeOK
    <2>2. QED BY <2>1, SMTT(30) DEF Named, OwnersTypeOK
  <1>4. ASSUME NEW r \in Requests, Decide(r) PROVE Named'
    <2>1. /\ request' = [request EXCEPT ![r] = request'[r]]
          /\ request'[r].station = request[r].station /\ request'[r].user = request[r].user
          /\ request[r].step = "removing"
      <3>1. request[r] \in Request BY DEF OwnersTypeOK
      <3>2. QED BY <1>4, <3>1 DEF Decide, OwnersTypeOK, Request
    <2>2. QED BY <2>1 DEF Named, OwnersTypeOK
  <1>5. ASSUME NEW r \in Requests, NEW s \in Stations, ReadForListing(r, s) PROVE Named'
    <2>1. /\ request' = [request EXCEPT ![r] = request'[r]]
          /\ request'[r].station = s /\ request'[r].step = "listing"
      BY <1>5 DEF ReadForListing, Begin, Idle, OwnersTypeOK
    <2>2. QED BY <2>1 DEF Named, OwnersTypeOK
  <1>6. CASE UNCHANGED request BY <1>6 DEF Named
  <1>7. QED BY <1>2, <1>3, <1>4, <1>5, <1>6
        DEF OwnersNext, OwnersStep, CreateStation, CommitAddition, AdditionFails, CommitRemoval, Migrate,
            ownerVars

(* Every reachable state of the owners' tables is well formed.             *)
THEOREM OwnersTypeCorrect == OwnersSpec => []OwnersTypeOK
  <1>1. QED BY TypeInit, TypeStep, NamedStep, PTL DEF OwnersSpec

-----------------------------------------------------------------------------
(* The owners: what requests that do not clash know of each other *)

(* Two requests at work are additions, or about different stations and     *)
(* different persons.                                                      *)
Separate ==
    \A p, q \in Requests : p # q /\ request[p].step # "idle" /\ request[q].step # "idle" =>
        \/ request[p].step = "adding" /\ request[q].step = "adding"
        \/ /\ request[p].station # request[q].station
           /\ \/ "listing" \in {request[p].step, request[q].step}
              \/ request[p].user # request[q].user

(* What a request has read is still true.                                  *)
Addition(q) ==
    /\ q.role \in {None, "STATION_OWNER"}
    /\ q.role = None => role[q.user] = "STATION_OWNER"

Removal(q) ==
    /\ q.owners \subseteq Active(q.station)
    /\ q.user \in Active(q.station)

Departure(q) ==
    /\ q.heir \in Heirs(q)
    /\ q.role = IF StationsOf(q.user) \subseteq {q.station} THEN FormerRole(q.user) ELSE None

Sound(r) ==
    /\ request[r].step # "idle" => heir[request[r].station] # None
    /\ request[r].step = "adding" => Addition(request[r])
    /\ request[r].step \in {"removing", "leaving"} => Removal(request[r])
    /\ request[r].step = "leaving" => Departure(request[r])

OwnersInv ==
    /\ OwnersTypeOK /\ Named
    /\ Separate
    /\ \A r \in Requests : Sound(r)
    /\ RoleFollowsOwnership
    /\ RemovedStaysOut
    /\ \A us \in removed : heir[us[2]] # None

-----------------------------------------------------------------------------
(* The owners: how a step changes who owns what *)

LEMMA OwnsCreated ==
    ASSUME OwnersInv, NEW s \in Stations, NEW u \in Users, CreateStation(s, u)
    PROVE  \A w \in Users, t \in Stations : Owns(w, t)' <=> Owns(w, t) \/ (w = u /\ t = s)
  BY OwnersAssumption DEF OwnersInv, OwnersTypeOK, CreateStation, SetRow, Owns

LEMMA OwnsAdded ==
    ASSUME OwnersInv, NEW r \in Requests, CommitAddition(r)
    PROVE  \A w \in Users, t \in Stations :
               Owns(w, t)' <=> Owns(w, t) \/ (w = request[r].user /\ t = request[r].station)
  BY DEF OwnersInv, OwnersTypeOK, Named, CommitAddition, SetRow, Owns

(* The heir of a station that loses its owner has owned it before.         *)
LEMMA OwnsRemoved ==
    ASSUME OwnersInv, NEW r \in Requests, CommitRemoval(r)
    PROVE  \A w \in Users, t \in Stations :
               Owns(w, t)' <=> Owns(w, t) /\ ~(w = request[r].user /\ t = request[r].station)
  <1> DEFINE q == request[r]
  <1>1. /\ q.step = "leaving" /\ q.station \in Stations /\ q.user \in Users
        /\ q.owners \subseteq Active(q.station)
        /\ q.heir \in Heirs(q)
    BY DEF OwnersInv, CommitRemoval, Named, Sound, Removal, Departure
  <1>2. /\ row' = [row EXCEPT ![q.station][q.user] = "inactive"]
        /\ heir' = IF q.heir = None THEN heir ELSE [heir EXCEPT ![q.station] = q.heir]
    BY DEF CommitRemoval, SetRow
  <1>3. /\ row \in [Stations -> [Users -> RowStates]]
        /\ heir \in [Stations -> Users \cup {None}]
    BY DEF OwnersInv, OwnersTypeOK
  <1>4. CASE heir[q.station] = q.user
    <2>1. /\ q.heir \in Users /\ q.heir # q.user /\ row[q.station][q.heir] = "active"
          /\ q.heir # None
      BY <1>1, <1>4, OwnersAssumption DEF Heirs, Active
    <2>2. QED BY <1>1, <1>2, <1>3, <1>4, <2>1 DEF Owns, RowStates
  <1>5. CASE heir[q.station] # q.user
    <2>1. q.heir = None BY <1>1, <1>5 DEF Heirs
    <2>2. QED BY <1>1, <1>2, <1>3, <1>5, <2>1 DEF Owns
  <1>6. QED BY <1>4, <1>5

(* A row for whoever is only in the old column changes no ownership.       *)
LEMMA OwnsMigrated ==
    ASSUME OwnersInv, NEW r \in Requests, Migrate(r)
    PROVE  \A w \in Users, t \in Stations : Owns(w, t)' <=> Owns(w, t)
  <1> DEFINE s == request[r].station
  <1>1. s \in Stations /\ heir[s] \in Users
    BY DEF OwnersInv, Migrate, Named, Sound, OwnersTypeOK
  <1>2. /\ UNCHANGED heir
        /\ row' = row \/ row' = [row EXCEPT ![s][heir[s]] = "active"]
    BY DEF Migrate, SetRow
  <1>3. row \in [Stations -> [Users -> RowStates]] BY DEF OwnersInv, OwnersTypeOK
  <1> HIDE DEF s
  <1>4. QED BY <1>1, <1>2, <1>3 DEF Owns

(* The steps that only read and decide.                                    *)
Reads(r) ==
    \/ \E s \in Stations, u \in Users : ReadForAdding(r, s, u) \/ ReadForRemoval(r, s, u)
    \/ \E s \in Stations : ReadForListing(r, s)
    \/ Decide(r)
    \/ AdditionFails(r)

LEMMA OwnsRead ==
    ASSUME NEW r \in Requests, Reads(r)
    PROVE  UNCHANGED <<row, heir, role, removed>>
  BY DEF Reads, ReadForAdding, ReadForRemoval, ReadForListing, Decide, AdditionFails, Begin

-----------------------------------------------------------------------------
(* The owners: the properties are preserved *)

LEMMA RoleStep ==
    ASSUME OwnersInv, [OwnersNext]_ownerVars
    PROVE  RoleFollowsOwnership'
  <1> SUFFICES ASSUME NEW w \in Users
               PROVE  role'[w] = "STATION_OWNER" <=> \E t \in Stations : Owns(w, t)'
    BY DEF RoleFollowsOwnership, StationsOf
  <1> USE OwnersAssumption
  <1>1. role[w] = "STATION_OWNER" <=> \E t \in Stations : Owns(w, t)
    BY DEF OwnersInv, RoleFollowsOwnership, StationsOf
  <1>2. role \in [Users -> Roles] BY DEF OwnersInv, OwnersTypeOK
  <1>3. ASSUME NEW s \in Stations, NEW u \in Users, CreateStation(s, u)
        PROVE  role'[w] = "STATION_OWNER" <=> \E t \in Stations : Owns(w, t)'
    <2>1. role' = [role EXCEPT ![u] = "STATION_OWNER"] BY <1>3 DEF CreateStation
    <2>2. QED BY <1>1, <1>2, <1>3, <2>1, OwnsCreated
  <1>4. ASSUME NEW r \in Requests, CommitAddition(r)
        PROVE  role'[w] = "STATION_OWNER" <=> \E t \in Stations : Owns(w, t)'
    <2>1. /\ Addition(request[r])
          /\ request[r].user \in Users /\ request[r].station \in Stations
      BY <1>4 DEF OwnersInv, Sound, Named, CommitAddition
    <2>2. /\ role'[request[r].user] = "STATION_OWNER"
          /\ w # request[r].user => role'[w] = role[w]
      BY <1>2, <1>4, <2>1 DEF CommitAddition, WithRole, Addition
    <2>3. QED BY <1>1, <1>4, <2>1, <2>2, OwnsAdded
  <1>5. ASSUME NEW r \in Requests, CommitRemoval(r)
        PROVE  role'[w] = "STATION_OWNER" <=> \E t \in Stations : Owns(w, t)'
    <2> DEFINE q == request[r]
    <2>1. /\ q.user \in Users /\ q.station \in Stations
          /\ q.user \in Active(q.station)
          /\ q.role = IF StationsOf(q.user) \subseteq {q.station} THEN FormerRole(q.user) ELSE None
          /\ role' = WithRole(q)
      BY <1>5 DEF OwnersInv, Sound, Named, CommitRemoval, Removal, Departure
    <2>2. CASE w # q.user
      <3>1. role'[w] = role[w] BY <1>2, <2>1, <2>2 DEF WithRole
      <3>2. QED BY <1>1, <1>5, <2>2, <3>1, OwnsRemoved
    <2>3. CASE w = q.user
      <3>1. Owns(w, q.station) BY <2>1, <2>3 DEF Owns, Active
      <3>2. CASE StationsOf(w) \subseteq {q.station}
        <4>1. role'[w] # "STATION_OWNER"
          BY <1>2, <2>1, <2>3, <3>2 DEF WithRole, FormerRole, Roles
        <4>2. \A t \in Stations : ~Owns(w, t)'
          BY <1>5, <2>3, <3>2, OwnsRemoved DEF StationsOf
        <4>3. QED BY <4>1, <4>2
      <3>3. CASE ~(StationsOf(w) \subseteq {q.station})
        <4>1. role'[w] = role[w] BY <2>1, <2>3, <3>3 DEF WithRole
        <4>2. \E t \in Stations : Owns(w, t)'
          BY <1>5, <3>3, OwnsRemoved DEF StationsOf
        <4>3. QED BY <1>1, <2>1, <3>1, <4>1, <4>2
      <3>4. QED BY <3>2, <3>3
    <2>4. QED BY <2>2, <2>3
  <1>6. ASSUME NEW r \in Requests, Migrate(r)
        PROVE  role'[w] = "STATION_OWNER" <=> \E t \in Stations : Owns(w, t)'
    <2>1. UNCHANGED role BY <1>6 DEF Migrate
    <2>2. QED BY <1>1, <1>6, <2>1, OwnsMigrated
  <1>7. CASE UNCHANGED <<row, heir, role>>
    BY <1>1, <1>7 DEF Owns
  <1>8. QED BY <1>3, <1>4, <1>5, <1>6, <1>7, OwnsRead DEF OwnersNext, OwnersStep, Reads, ownerVars

(* Once there is an owner in the old column there always is one.           *)
LEMMA HeirStep ==
    ASSUME OwnersInv, [OwnersNext]_ownerVars, NEW s \in Stations, heir[s] # None
    PROVE  heir'[s] # None
  BY DEF OwnersNext, OwnersStep, CreateStation, ReadForAdding, CommitAddition, AdditionFails, ReadForRemoval,
         Decide, CommitRemoval, ReadForListing, Migrate, Begin, ownerVars, OwnersInv, OwnersTypeOK

LEMMA RemovedStep ==
    ASSUME OwnersInv, [OwnersNext]_ownerVars
    PROVE  RemovedStaysOut' /\ \A us \in removed' : heir'[us[2]] # None
  <1> SUFFICES ASSUME NEW us \in removed'
               PROVE  ~Owns(us[1], us[2])' /\ heir'[us[2]] # None
    BY DEF RemovedStaysOut
  <1>1. removed \subseteq Users \X Stations BY DEF OwnersInv, OwnersTypeOK
  <1>2. us \in removed =>
            us[1] \in Users /\ us[2] \in Stations /\ ~Owns(us[1], us[2]) /\ heir[us[2]] # None
    BY <1>1 DEF OwnersInv, RemovedStaysOut
  <1>3. ASSUME NEW s \in Stations, NEW u \in Users, CreateStation(s, u)
        PROVE  ~Owns(us[1], us[2])' /\ heir'[us[2]] # None
    <2>1. us \in removed /\ heir[s] = None BY <1>3 DEF CreateStation
    <2>2. QED BY <1>2, <1>3, <2>1, OwnsCreated, HeirStep
  <1>4. ASSUME NEW r \in Requests, CommitAddition(r)
        PROVE  ~Owns(us[1], us[2])' /\ heir'[us[2]] # None
    <2>1. us \in removed /\ us # <<request[r].user, request[r].station>>
      BY <1>4 DEF CommitAddition
    <2>2. us = <<us[1], us[2]>> BY <1>1, <2>1
    <2>3. QED BY <1>2, <1>4, <2>1, <2>2, OwnsAdded, HeirStep
  <1>5. ASSUME NEW r \in Requests, CommitRemoval(r)
        PROVE  ~Owns(us[1], us[2])' /\ heir'[us[2]] # None
    <2>1. CASE us \in removed BY <1>2, <1>5, <2>1, OwnsRemoved, HeirStep
    <2>2. CASE us = <<request[r].user, request[r].station>>
      <3>1. /\ request[r].user \in Users /\ request[r].station \in Stations
            /\ heir[request[r].station] # None
        BY <1>5 DEF CommitRemoval, OwnersInv, Named, Sound
      <3>2. QED BY <1>5, <2>2, <3>1, OwnsRemoved, HeirStep
    <2>3. QED BY <1>5, <2>1, <2>2 DEF CommitRemoval
  <1>6. ASSUME NEW r \in Requests, Migrate(r)
        PROVE  ~Owns(us[1], us[2])' /\ heir'[us[2]] # None
    <2>1. us \in removed BY <1>6 DEF Migrate
    <2>2. QED BY <1>2, <1>6, <2>1, OwnsMigrated, HeirStep
  <1>7. CASE UNCHANGED <<row, heir, removed>>
    BY <1>2, <1>7 DEF Owns
  <1>8. QED BY <1>3, <1>4, <1>5, <1>6, <1>7, OwnsRead DEF OwnersNext, OwnersStep, Reads, ownerVars

-----------------------------------------------------------------------------
(* The owners: what requests have read stays true *)

NoClash == Clash = FALSE

(* A request that begins is apart from all others.                         *)
LEMMA BeginsApart ==
    ASSUME NoClash, OwnersInv, NEW r \in Requests, NEW s \in Stations,
           NEW u \in Users, NEW adds \in BOOLEAN, MayBegin(r, s, u, adds),
           NEW what, what.station = s, what.step = "listing" \/ what.user = u,
           adds => what.step = "adding", request' = [request EXCEPT ![r] = what]
    PROVE  Separate'
  <1> SUFFICES ASSUME NEW p \in Requests, NEW q \in Requests, p # q,
                      request'[p].step # "idle", request'[q].step # "idle"
               PROVE  \/ request'[p].step = "adding" /\ request'[q].step = "adding"
                      \/ /\ request'[p].station # request'[q].station
                         /\ \/ "listing" \in {request'[p].step, request'[q].step}
                            \/ request'[p].user # request'[q].user
    BY DEF Separate
  <1>1. request \in [Requests -> Request] BY DEF OwnersInv, OwnersTypeOK
  <1>2. CASE p # r /\ q # r
    BY <1>1, <1>2 DEF OwnersInv, Separate
  <1>3. ASSUME NEW z \in Requests, z # r, request[z].step # "idle"
        PROVE  \/ adds /\ request[z].step = "adding"
               \/ request[z].user # u /\ request[z].station # s
    BY <1>3 DEF MayBegin, Apart, NoClash
  <1>4. CASE p = r BY <1>1, <1>3, <1>4
  <1>5. CASE q = r BY <1>1, <1>3, <1>5
  <1>6. QED BY <1>2, <1>4, <1>5

LEMMA SeparateStep ==
    ASSUME NoClash, OwnersInv, [OwnersNext]_ownerVars
    PROVE  Separate'
  <1>1. /\ request \in [Requests -> Request] /\ heir \in [Stations -> Users \cup {None}]
        /\ Separate
    BY DEF OwnersInv, OwnersTypeOK
  <1>2. ASSUME NEW r \in Requests, End(r) PROVE Separate'
    BY <1>1, <1>2, IdleTyped DEF End, Separate
  <1>3. ASSUME NEW r \in Requests, NEW s \in Stations, NEW u \in Users, ReadForAdding(r, s, u)
        PROVE  Separate'
    <2> DEFINE what == [Idle EXCEPT !.step = "adding", !.station = s, !.user = u, !.row = row[s][u],
                           !.role = IF role[u] # "STATION_OWNER" THEN "STATION_OWNER" ELSE None]
    <2>1. what.step = "adding" /\ what.station = s /\ what.user = u BY DEF Idle
    <2>2. request' = [request EXCEPT ![r] = what] /\ MayBegin(r, s, u, TRUE)
      BY <1>3 DEF ReadForAdding, Begin
    <2> HIDE DEF what
    <2>3. QED BY <2>1, <2>2, BeginsApart
  <1>4. ASSUME NEW r \in Requests, NEW s \in Stations, NEW u \in Users, ReadForRemoval(r, s, u)
        PROVE  Separate'
    <2> DEFINE what == [Idle EXCEPT !.step = "removing", !.station = s, !.user = u, !.owners = Active(s)]
    <2>1. what.station = s /\ what.user = u BY DEF Idle
    <2>2. request' = [request EXCEPT ![r] = what] /\ MayBegin(r, s, u, FALSE)
      BY <1>4 DEF ReadForRemoval, Begin
    <2> HIDE DEF what
    <2>3. QED BY <2>1, <2>2, BeginsApart
  <1>5. ASSUME NEW r \in Requests, NEW s \in Stations, ReadForListing(r, s)
        PROVE  Separate'
    <2> DEFINE what == [Idle EXCEPT !.step = "listing", !.station = s, !.owners = Active(s)]
    <2>1. what.station = s /\ what.step = "listing" BY DEF Idle
    <2>2. request' = [request EXCEPT ![r] = what] /\ MayBegin(r, s, heir[s], FALSE)
      BY <1>5 DEF ReadForListing, Begin
    <2>3. heir[s] \in Users BY <1>1, <2>2 DEF MayBegin
    <2> HIDE DEF what
    <2>4. QED BY <2>1, <2>2, <2>3, BeginsApart
  <1>6. ASSUME NEW r \in Requests, Decide(r) PROVE Separate'
    <2>1. /\ request' = [request EXCEPT ![r] = request'[r]]
          /\ request'[r].station = request[r].station /\ request'[r].user = request[r].user
          /\ request[r].step = "removing" /\ request'[r].step = "leaving"
      <3>1. request[r] \in Request BY <1>1
      <3>2. QED BY <1>1, <1>6, <3>1 DEF Decide, Request
    <2>2. QED BY <1>1, <2>1 DEF Separate
  <1>7. CASE UNCHANGED request BY <1>1, <1>7 DEF Separate
  <1>8. QED BY <1>2, <1>3, <1>4, <1>5, <1>6, <1>7
        DEF OwnersNext, OwnersStep, CreateStation, CommitAddition, AdditionFails, CommitRemoval, Migrate,
            ownerVars

(* A request is not disturbed by a step that leaves its station and the    *)
(* ownership and role of its person alone.                                 *)
LEMMA Undisturbed ==
    ASSUME OwnersInv, [OwnersNext]_ownerVars, NEW p \in Requests, request'[p] = request[p],
           request[p].step = "adding" /\ role[request[p].user] = "STATION_OWNER"
               => role'[request[p].user] = "STATION_OWNER",
           request[p].step \in {"removing", "leaving"}
               => /\ row'[request[p].station] = row[request[p].station]
                  /\ heir'[request[p].station] = heir[request[p].station]
                  /\ \A t \in Stations : Owns(request[p].user, t)' <=> Owns(request[p].user, t)
    PROVE  Sound(p)'
  <1> DEFINE q == request[p]
  <1>1. Sound(p) /\ (q.step # "idle" => q.station \in Stations)
    BY DEF OwnersInv, Named
  <1>2. q.step # "idle" => heir'[q.station] # None
    BY <1>1, HeirStep DEF Sound
  <1>3. q.step = "adding" => Addition(q)'
    BY <1>1 DEF Sound, Addition
  <1>4. q.step \in {"removing", "leaving"} => Removal(q)'
    BY <1>1 DEF Sound, Removal, Active
  <1>5. q.step = "leaving" => Departure(q)'
    <2> SUFFICES ASSUME q.step = "leaving" PROVE Departure(q)' OBVIOUS
    <2>1. StationsOf(q.user)' = StationsOf(q.user) BY DEF StationsOf
    <2>2. Heirs(q)' = Heirs(q) BY DEF Heirs
    <2>3. Departure(q) BY <1>1 DEF Sound
    <2>4. QED BY <2>1, <2>2, <2>3 DEF Departure, FormerRole
  <1>6. QED BY <1>2, <1>3, <1>4, <1>5 DEF Sound, Addition, Removal, Departure, Active, Heirs, StationsOf,
                                          FormerRole, Owns

LEMMA SoundOther ==
    ASSUME NoClash, OwnersInv, [OwnersNext]_ownerVars, NEW p \in Requests, request'[p] = request[p],
           request[p].step # "idle"
    PROVE  Sound(p)'
  <1> DEFINE q == request[p]
  <1>1. /\ OwnersTypeOK /\ Separate /\ Named
        /\ \A r \in Requests : Sound(r)
        /\ q.station \in Stations /\ heir[q.station] # None
        /\ q.step # "listing" => q.user \in Users
    BY DEF OwnersInv, Named, Sound
  <1>2. ASSUME NEW s \in Stations, NEW u \in Users, CreateStation(s, u) PROVE Sound(p)'
    <2>1. s # q.station BY <1>1, <1>2 DEF CreateStation
    <2>2. q.step \in {"removing", "leaving"} => q.user # u
      BY <1>2 DEF CreateStation, Apart, NoClash
    <2>3. /\ row'[q.station] = row[q.station] /\ heir'[q.station] = heir[q.station]
          /\ role[q.user] = "STATION_OWNER" => role'[q.user] = "STATION_OWNER"
      BY <1>1, <1>2, <2>1 DEF CreateStation, SetRow, OwnersTypeOK
    <2>4. q.step \in {"removing", "leaving"} =>
              \A t \in Stations : Owns(q.user, t)' <=> Owns(q.user, t)
      BY <1>1, <1>2, <2>2, OwnsCreated
    <2>5. QED BY <2>3, <2>4, Undisturbed
  <1>3. ASSUME NEW r \in Requests, CommitAddition(r) PROVE Sound(p)'
    <2>1. request[r].step = "adding" /\ p # r /\ request[r].user \in Users /\ request[r].station \in Stations
      BY <1>1, <1>3, IdleTyped DEF CommitAddition, End, OwnersTypeOK, Named
    <2>2. q.step \in {"removing", "leaving"} =>
              q.station # request[r].station /\ q.user # request[r].user
      BY <1>1, <2>1 DEF Separate
    <2>3. q.step \in {"removing", "leaving"} =>
              row'[q.station] = row[q.station] /\ heir'[q.station] = heir[q.station]
      BY <1>1, <1>3, <2>2 DEF CommitAddition, SetRow, OwnersTypeOK
    <2>4. role[q.user] = "STATION_OWNER" /\ q.step = "adding" => role'[q.user] = "STATION_OWNER"
      <3>1. Addition(request[r]) BY <1>1, <2>1 DEF Sound
      <3>2. QED BY <1>1, <1>3, <3>1 DEF CommitAddition, WithRole, Addition, OwnersTypeOK
    <2>5. q.step \in {"removing", "leaving"} =>
              \A t \in Stations : Owns(q.user, t)' <=> Owns(q.user, t)
      BY <1>1, <1>3, <2>2, OwnsAdded
    <2>6. QED BY <2>3, <2>4, <2>5, Undisturbed
  <1>4. ASSUME NEW r \in Requests, CommitRemoval(r) PROVE Sound(p)'
    <2>1. request[r].step = "leaving" /\ p # r /\ request[r].user \in Users /\ request[r].station \in Stations
      BY <1>1, <1>4, IdleTyped DEF CommitRemoval, End, OwnersTypeOK, Named
    <2>2. /\ q.station # request[r].station
          /\ q.step # "listing" => q.user # request[r].user
      BY <1>1, <2>1 DEF Separate
    <2>3. row'[q.station] = row[q.station] /\ heir'[q.station] = heir[q.station]
      BY <1>1, <1>4, <2>2 DEF CommitRemoval, SetRow, OwnersTypeOK
    <2>4. role[q.user] = "STATION_OWNER" /\ q.step = "adding" => role'[q.user] = "STATION_OWNER"
      BY <1>1, <1>4, <2>2 DEF CommitRemoval, WithRole, OwnersTypeOK
    <2>5. q.step \in {"removing", "leaving"} =>
              \A t \in Stations : Owns(q.user, t)' <=> Owns(q.user, t)
      BY <1>1, <1>4, <2>2, OwnsRemoved
    <2>6. QED BY <2>3, <2>4, <2>5, Undisturbed
  <1>5. ASSUME NEW r \in Requests, Migrate(r) PROVE Sound(p)'
    <2>1. request[r].step = "listing" /\ p # r
      BY <1>1, <1>5, IdleTyped DEF Migrate, End, OwnersTypeOK
    <2>2. q.station # request[r].station BY <1>1, <2>1 DEF Separate
    <2>3. row'[q.station] = row[q.station] /\ UNCHANGED <<heir, role>>
      BY <1>1, <1>5, <2>2 DEF Migrate, SetRow, OwnersTypeOK
    <2>4. q.step \in {"removing", "leaving"} =>
              \A t \in Stations : Owns(q.user, t)' <=> Owns(q.user, t)
      BY <1>1, <1>5, OwnsMigrated
    <2>5. QED BY <2>3, <2>4, Undisturbed
  <1>6. CASE UNCHANGED <<row, heir, role>>
    <2>1. \A t \in Stations : Owns(q.user, t)' <=> Owns(q.user, t) BY <1>6 DEF Owns
    <2>2. QED BY <1>6, <2>1, Undisturbed
  <1>7. QED BY <1>2, <1>3, <1>4, <1>5, <1>6, OwnsRead DEF OwnersNext, OwnersStep, Reads, ownerVars

(* A request that begins, or decides, reads what is true.                  *)
LEMMA SoundBegun ==
    ASSUME OwnersInv, NEW r \in Requests, Reads(r)
    PROVE  Sound(r)'
  <1>1. /\ OwnersTypeOK /\ Named /\ Sound(r) /\ request[r] \in Request
        /\ UNCHANGED <<row, heir, role>>
    BY OwnsRead DEF OwnersInv, OwnersTypeOK
  <1>2. ASSUME NEW s \in Stations, NEW u \in Users, ReadForAdding(r, s, u) PROVE Sound(r)'
    <2>1. /\ request'[r].step = "adding" /\ request'[r].station = s /\ request'[r].user = u
          /\ request'[r].role = IF role[u] # "STATION_OWNER" THEN "STATION_OWNER" ELSE None
          /\ heir[s] # None
      BY <1>1, <1>2 DEF ReadForAdding, MayBegin, Begin, Idle, OwnersTypeOK
    <2>2. QED BY <1>1, <2>1, OwnersAssumption DEF Sound, Addition, Roles
  <1>3. ASSUME NEW s \in Stations, NEW u \in Users, ReadForRemoval(r, s, u) PROVE Sound(r)'
    <2>1. /\ request'[r].step = "removing" /\ request'[r].station = s /\ request'[r].user = u
          /\ request'[r].owners = Active(s) /\ u \in Active(s) /\ heir[s] # None
      BY <1>1, <1>3 DEF ReadForRemoval, MayBegin, Begin, Idle, OwnersTypeOK
    <2>2. Active(s)' = Active(s) BY <1>1 DEF Active
    <2>3. QED BY <1>1, <2>1, <2>2 DEF Sound, Removal
  <1>4. ASSUME NEW s \in Stations, ReadForListing(r, s) PROVE Sound(r)'
    <2>1. request'[r].step = "listing" /\ request'[r].station = s /\ heir[s] # None
      BY <1>1, <1>4 DEF ReadForListing, MayBegin, Begin, Idle, OwnersTypeOK
    <2>2. QED BY <1>1, <2>1 DEF Sound
  <1>5. CASE AdditionFails(r)
    <2>1. request'[r].step = "idle" BY <1>1, <1>5, IdleTyped DEF AdditionFails, End, OwnersTypeOK
    <2>2. QED BY <2>1 DEF Sound
  <1>6. CASE Decide(r)
    <2> DEFINE q == request[r]
    <2>1. /\ request'[r].step = "leaving" /\ request'[r].station = q.station /\ request'[r].user = q.user
          /\ request'[r].owners = q.owners /\ request'[r].heir \in Heirs(q)
          /\ request'[r].role = IF StationsOf(q.user) \subseteq {q.station} /\ role[q.user] = "STATION_OWNER"
                                THEN FormerRole(q.user) ELSE None
          /\ q.step = "removing"
      BY <1>1, <1>6 DEF Decide, OwnersTypeOK, Request
    <2>2. Removal(q) /\ heir[q.station] # None /\ q.station \in Stations /\ q.user \in Users
      BY <1>1, <2>1 DEF Sound, Named
    <2>3. role[q.user] = "STATION_OWNER"
      <3>1. q.station \in StationsOf(q.user) BY <2>2 DEF Removal, StationsOf, Owns, Active
      <3>2. QED BY <2>2, <3>1 DEF OwnersInv, RoleFollowsOwnership
    <2>4. Removal(request[r])'
      BY <1>1, <2>1, <2>2 DEF Removal, Active
    <2>5. Departure(request[r])'
      <3>1. StationsOf(request[r].user)' = StationsOf(q.user) BY <1>1, <2>1 DEF StationsOf, Owns
      <3>2. Heirs(request[r])' = Heirs(q) BY <1>1, <2>1 DEF Heirs
      <3>3. QED BY <2>1, <2>3, <3>1, <3>2 DEF Departure, FormerRole
    <2>6. QED BY <1>1, <2>1, <2>2, <2>4, <2>5 DEF Sound
  <1>7. QED BY <1>2, <1>3, <1>4, <1>5, <1>6 DEF Reads

-----------------------------------------------------------------------------
(* The owners: the theorems *)

LEMMA OwnersInvInit == OwnersInit => OwnersInv
  <1> SUFFICES ASSUME OwnersInit PROVE OwnersInv OBVIOUS
  <1>1. OwnersTypeOK /\ Named BY TypeInit
  <1>2. \A r \in Requests : request[r].step = "idle" BY IdleTyped DEF OwnersInit
  <1>3. RoleFollowsOwnership
    <2> SUFFICES ASSUME NEW u \in Users
                 PROVE  role[u] = "STATION_OWNER" <=> \E s \in Stations : Owns(u, s)
      BY DEF RoleFollowsOwnership, StationsOf
    <2>1. \A s \in Stations : Owns(u, s) <=> heir[s] = u BY DEF OwnersInit, Owns
    <2>2. role[u] = IF \E s \in Stations : heir[s] = u THEN "STATION_OWNER" ELSE FormerRole(u)
      BY DEF OwnersInit
    <2>3. QED BY <2>1, <2>2 DEF FormerRole
  <1>4. removed = {} BY DEF OwnersInit
  <1>5. QED BY <1>1, <1>2, <1>3, <1>4 DEF OwnersInv, Separate, Sound, RemovedStaysOut

LEMMA OwnersInvStep ==
    ASSUME NoClash, OwnersInv, [OwnersNext]_ownerVars
    PROVE  OwnersInv'
  <1>1. OwnersTypeOK' /\ Named' BY TypeStep, NamedStep DEF OwnersInv
  <1>2. ASSUME NEW p \in Requests PROVE Sound(p)'
    <2>1. CASE request'[p].step = "idle" BY <2>1 DEF Sound
    <2>2. CASE request'[p] = request[p] /\ request'[p].step # "idle"
      BY <2>2, SoundOther
    <2>3. CASE request'[p] # request[p] /\ request'[p].step # "idle"
      <3>1. request \in [Requests -> Request] BY DEF OwnersInv, OwnersTypeOK
      <3>2. ASSUME NEW r \in Requests, End(r) PROVE FALSE
        BY <2>3, <3>1, <3>2, IdleTyped DEF End
      <3>3. ASSUME NEW r \in Requests, Reads(r) PROVE r = p
        <4>1. \A z \in Requests : z # r => request'[z] = request[z]
          BY <3>1, <3>3
          DEF Reads, ReadForAdding, ReadForRemoval, ReadForListing, Decide, AdditionFails, Begin, End
        <4>2. QED BY <2>3, <4>1
      <3>4. \E r \in Requests : Reads(r)
        BY <2>3, <3>2
        DEF OwnersNext, OwnersStep, CreateStation, CommitAddition, CommitRemoval, Migrate, Reads, ownerVars
      <3>5. QED BY <3>3, <3>4, SoundBegun
    <2>4. QED BY <2>1, <2>2, <2>3
  <1>3. QED BY <1>1, <1>2, SeparateStep, RoleStep, RemovedStep DEF OwnersInv

LEMMA OwnersInvAlways == ASSUME NoClash PROVE OwnersSpec => []OwnersInv
  <1>1. OwnersInv /\ [OwnersNext]_ownerVars => OwnersInv' BY OwnersInvStep
  <1>2. QED BY <1>1, OwnersInvInit, PTL DEF OwnersSpec

(* Whoever owns a station has the owner's role and nobody else does, while *)
(* owners are added, removed, listed and migrated in requests that do not  *)
(* clash.                                                                  *)
THEOREM RoleCorrect ==
    ASSUME NoClash
    PROVE  OwnersSpec => []RoleFollowsOwnership
  <1>1. OwnersInv => RoleFollowsOwnership BY DEF OwnersInv
  <1>2. QED BY <1>1, OwnersInvAlways, PTL

(* Nothing but an addition brings a removed owner back.                    *)
THEOREM RemovedCorrect ==
    ASSUME NoClash
    PROVE  OwnersSpec => []RemovedStaysOut
  <1>1. OwnersInv => RemovedStaysOut BY DEF OwnersInv
  <1>2. QED BY <1>1, OwnersInvAlways, PTL

-----------------------------------------------------------------------------
(* The owners, seen from the panel *)

(* The steps of a visit and the passing of time leave the owners alone.    *)
LEMMA VisitsLeaveOwners ==
    ASSUME NEW v \in Visits, VisitStep(v)
    PROVE  UNCHANGED ownerVars
  BY DEF VisitStep, AskForCode, StoreCode, ForgetTries, BringCode, CountTry, Compare, ReturnTry, ConsumeCode,
         ClearTries, LoginWithTelegram, SwitchStation, TakeToken, CheckOwner, MintToken, Abort, Arrive, Go,
         Leave

(* The panel implements the owners' specification: whatever is shown of    *)
(* StationOwners holds behind the door of the panel as well.               *)
THEOREM PanelImplementsOwners == Spec => OwnersSpec
  <1>1. Init => OwnersInit BY DEF Init
  <1>2. [Next]_vars => [OwnersNext]_ownerVars
    <2>1. OwnersChange => OwnersNext BY DEF OwnersChange
    <2>2. Expire => UNCHANGED ownerVars
      BY DEF Expire, CodeExpires, TriesExpire, CooldownEnds, TokenExpires
    <2>3. QED BY <2>1, <2>2, VisitsLeaveOwners DEF Next, vars
  <1>3. QED BY <1>1, <1>2, PTL DEF Spec, OwnersSpec

-----------------------------------------------------------------------------
(* The panel: type correctness *)

(* The part of TypeOK that is about the panel.                             *)
PanelTypeOK ==
    /\ code \subseteq Users /\ early \subseteq Users /\ cooling \subseteq Users
    /\ tries \in [Users -> Int] /\ missed \in [Users -> Nat]
    /\ login \in [Logins -> Login]
    /\ visit \in [Visits -> Visit]

LEMMA AwayTyped == Away \in Visit /\ Away.step = "idle" /\ Away.login = 0
  BY DEF Away, Visit

(* A visit that begins, goes on or ends.                                   *)
LEMMA ArriveTyped ==
    ASSUME PanelTypeOK, NEW v \in Visits, NEW u \in Users, NEW what \in Visit, Arrive(v, u, what)
    PROVE  /\ visit' = [visit EXCEPT ![v] = visit'[v]]
           /\ visit'[v] = [what EXCEPT !.user = u, !.owned = StationsOf(u)]
           /\ visit'[v] \in Visit
           /\ visit[v].step = "idle"
  <1>1. StationsOf(u) \subseteq Stations BY DEF StationsOf
  <1>2. [what EXCEPT !.user = u, !.owned = StationsOf(u)] \in Visit BY <1>1 DEF Visit
  <1>3. QED BY <1>2 DEF Arrive, PanelTypeOK

Steps == {"idle", "asking", "forgetting", "counting", "comparing", "returning",
          "consuming", "clearing", "renewing", "minting"}

LEMMA GoTyped ==
    ASSUME PanelTypeOK, NEW v \in Visits, NEW step \in Steps, Go(v, step)
    PROVE  /\ visit' = [visit EXCEPT ![v] = visit'[v]]
           /\ visit'[v] = [visit[v] EXCEPT !.step = step]
           /\ visit'[v] \in Visit
  <1>1. visit[v] \in Visit BY DEF PanelTypeOK
  <1>2. [visit[v] EXCEPT !.step = step] \in Visit BY <1>1 DEF Visit, Steps
  <1>3. QED BY <1>2 DEF Go, PanelTypeOK

LEMMA LeaveTyped ==
    ASSUME PanelTypeOK, NEW v \in Visits, Leave(v)
    PROVE  /\ visit' = [visit EXCEPT ![v] = visit'[v]]
           /\ visit'[v] = Away /\ visit'[v] \in Visit
  BY AwayTyped DEF Leave, PanelTypeOK

-----------------------------------------------------------------------------
(* The panel: the inductive invariant *)

Entering == {"counting", "comparing", "returning", "consuming", "clearing", "minting"}

(* What a visit has established, and what it remembers.                    *)
Honest(v) ==
    /\ visit[v].step # "idle" => visit[v].user \in Users /\ StationsOf(visit[v].user) \subseteq visit[v].owned
    /\ visit[v].step \in Entering => visit[v].station \in visit[v].owned \cup {None}
    /\ visit[v].step \in {"renewing", "minting"} => visit[v].station \in Stations
    /\ visit[v].login # 0 => visit[v].step \in {"renewing", "minting"}

(* A login that is renewed has no token meanwhile, and one renewal.        *)
Renewed(v) ==
    visit[v].login # 0 =>
        /\ login[visit[v].login].tokens = 0
        /\ login[visit[v].login].user # None
        /\ \A w \in Visits : visit[w].login = visit[v].login => w = v

(* A token belongs to somebody, and there is one of each login.            *)
Genuine(l) ==
    login[l].tokens > 0 => login[l].user \in Users /\ login[l].station \in Stations /\ login[l].tokens = 1

PanelInv ==
    /\ PanelTypeOK
    /\ \A v \in Visits : Honest(v) /\ Renewed(v)
    /\ \A l \in Logins : Genuine(l)

LEMMA PanelInit == Init => PanelInv
  BY AwayTyped, OwnersAssumption
  DEF Init, PanelInv, PanelTypeOK, Honest, Renewed, Genuine, Login, NoLogin, Away, Entering

(* A visit goes on, and is still honest; it renews what it renewed, or     *)
(* nothing any more; logins and owners rest.                               *)
LEMMA VisitChanges ==
    ASSUME PanelInv, NEW v \in Visits, visit' = [visit EXCEPT ![v] = visit'[v]], visit'[v] \in Visit,
           Honest(v)', visit'[v].login \in {0, visit[v].login}, UNCHANGED <<ownerVars, login>>
    PROVE  /\ visit' \in [Visits -> Visit]
           /\ \A w \in Visits : Honest(w)' /\ Renewed(w)'
           /\ \A l \in Logins : Genuine(l)'
  <1>1. visit' \in [Visits -> Visit] BY DEF PanelInv, PanelTypeOK
  <1>2. \A w \in Visits \ {v} : visit'[w] = visit[w] BY DEF PanelInv, PanelTypeOK
  <1>3. \A w \in Visits : Honest(w)'
    BY <1>2 DEF PanelInv, Honest, StationsOf, Owns, ownerVars
  <1>4. \A w \in Visits : Renewed(w)' BY <1>2 DEF PanelInv, Renewed
  <1>5. \A l \in Logins : Genuine(l)' BY DEF PanelInv, Genuine
  <1>6. QED BY <1>1, <1>3, <1>4, <1>5

(* A visit begins: it is honest about what it has checked.                 *)
LEMMA ArrivesHonest ==
    ASSUME PanelInv, NEW v \in Visits, NEW u \in Users, NEW what \in Visit, Arrive(v, u, what),
           what.login = 0,
           what.step \in Entering => what.station \in StationsOf(u) \cup {None},
           what.step \in {"renewing", "minting"} => what.station \in Stations
    PROVE  Honest(v)' /\ visit'[v].login = 0
  <1>1. PanelTypeOK BY DEF PanelInv
  <1>2. visit'[v] = [what EXCEPT !.user = u, !.owned = StationsOf(u)] BY <1>1, ArriveTyped
  <1>3. /\ visit'[v].user = u /\ visit'[v].owned = StationsOf(u)
        /\ visit'[v].step = what.step /\ visit'[v].station = what.station
        /\ visit'[v].login = what.login
    BY <1>2 DEF Visit
  <1>4. StationsOf(u)' = StationsOf(u) BY DEF Arrive, StationsOf, Owns, ownerVars
  <1>5. QED BY <1>3, <1>4 DEF Honest

(* It goes on; what the next step needs is there.                          *)
LEMMA GoesHonest ==
    ASSUME PanelInv, NEW v \in Visits, NEW step \in Steps, Go(v, step), visit[v].step # "idle",
           step \in Entering => visit[v].station \in visit[v].owned \cup {None},
           step \in {"renewing", "minting"} => visit[v].station \in Stations,
           visit[v].login # 0 => step \in {"renewing", "minting"}
    PROVE  Honest(v)' /\ visit'[v].login = visit[v].login
  <1>1. PanelTypeOK BY DEF PanelInv
  <1>2. visit'[v] = [visit[v] EXCEPT !.step = step] /\ visit[v] \in Visit
    BY <1>1, GoTyped DEF PanelTypeOK
  <1>3. /\ visit'[v].user = visit[v].user /\ visit'[v].owned = visit[v].owned
        /\ visit'[v].step = step /\ visit'[v].station = visit[v].station
        /\ visit'[v].login = visit[v].login
    BY <1>2 DEF Visit
  <1>4. \A u : StationsOf(u)' = StationsOf(u) BY DEF Go, StationsOf, Owns, ownerVars
  <1>5. Honest(v) BY DEF PanelInv
  <1>6. QED BY <1>3, <1>4, <1>5 DEF Honest

LEMMA LeavesHonest ==
    ASSUME PanelInv, NEW v \in Visits, Leave(v)
    PROVE  Honest(v)' /\ visit'[v].login = 0
  BY LeaveTyped DEF PanelInv, Honest, Away, Entering

-----------------------------------------------------------------------------
(* The panel: steps *)

(* Keys of Redis are about users.                                          *)
RedisTypeOK ==
    /\ code \subseteq Users /\ early \subseteq Users /\ cooling \subseteq Users
    /\ tries \in [Users -> Int] /\ missed \in [Users -> Nat]

LEMMA RedisVisit ==
    ASSUME PanelInv, NEW v \in Visits, VisitStep(v)
    PROVE  RedisTypeOK'
  <1>1. RedisTypeOK /\ visit[v].step # "idle" => visit[v].user \in Users
    BY DEF PanelInv, PanelTypeOK, RedisTypeOK, Honest
  <1>0. RedisTypeOK BY DEF PanelInv, PanelTypeOK, RedisTypeOK
  <1>2. CASE \E u \in Guests : AskForCode(v, u)
    BY <1>0, <1>2, PanelAssumption DEF AskForCode, RedisTypeOK
  <1>3. CASE StoreCode(v) BY <1>0, <1>1, <1>3 DEF StoreCode, RedisTypeOK
  <1>4. CASE ForgetTries(v) BY <1>0, <1>1, <1>4 DEF ForgetTries, Forget, RedisTypeOK
  <1>5. CASE CountTry(v) BY <1>0, <1>1, <1>5 DEF CountTry, RedisTypeOK
  <1>6. CASE \E right \in BOOLEAN : Compare(v, right) BY <1>0, <1>1, <1>6 DEF Compare, RedisTypeOK
  <1>7. CASE ReturnTry(v) BY <1>0, <1>1, <1>7 DEF ReturnTry, RedisTypeOK
  <1>8. CASE ConsumeCode(v) BY <1>0, <1>1, <1>8 DEF ConsumeCode, RedisTypeOK
  <1>9. CASE ClearTries(v) BY <1>0, <1>1, <1>9 DEF ClearTries, Forget, RedisTypeOK
  <1>10. CASE UNCHANGED redisVars BY <1>0, <1>10 DEF redisVars, RedisTypeOK
  <1>11. \/ \E u \in Guests, choice \in Stations \cup {None} : BringCode(v, u, choice)
         \/ \E u \in Guests, s \in Stations : LoginWithTelegram(v, u, s)
         \/ \E l \in Logins, s \in Stations : SwitchStation(v, l, s)
         \/ \E l \in Logins : TakeToken(v, l)
         \/ CheckOwner(v) \/ MintToken(v) \/ Abort(v)
         => UNCHANGED redisVars
    BY DEF BringCode, LoginWithTelegram, SwitchStation, TakeToken, CheckOwner, MintToken, Abort
  <1>12. QED BY <1>2, <1>3, <1>4, <1>5, <1>6, <1>7, <1>8, <1>9, <1>10, <1>11 DEF VisitStep

(* Every step of a visit but the three that write logins.                  *)
Quiet(v) ==
    \/ \E u \in Guests : AskForCode(v, u)
    \/ StoreCode(v) \/ ForgetTries(v)
    \/ \E u \in Guests, choice \in Stations \cup {None} : BringCode(v, u, choice)
    \/ CountTry(v)
    \/ \E right \in BOOLEAN : Compare(v, right)
    \/ ReturnTry(v) \/ ConsumeCode(v) \/ ClearTries(v)
    \/ \E u \in Guests, s \in Stations : LoginWithTelegram(v, u, s)
    \/ \E l \in Logins, s \in Stations : SwitchStation(v, l, s)
    \/ CheckOwner(v) \/ Abort(v)

(* The rest of a visit's first step.                                       *)
Beginning(v) ==
    \E u \in Users, what \in Visit :
        /\ Arrive(v, u, what)
        /\ what.login = 0
        /\ what.step \in Entering => what.station \in StationsOf(u) \cup {None}
        /\ what.step \in {"renewing", "minting"} => what.station \in Stations

(* Going on: what Honest asks of the next step.                            *)
Continuing(v) ==
    \E step \in Steps :
        /\ Go(v, step)
        /\ visit[v].step # "idle"
        /\ step \in Entering => visit[v].station \in visit[v].owned \cup {None}
        /\ step \in {"renewing", "minting"} => visit[v].station \in Stations
        /\ visit[v].login # 0 => step \in {"renewing", "minting"}

LEMMA QuietKinds ==
    ASSUME PanelInv, NEW v \in Visits, Quiet(v)
    PROVE  (Beginning(v) \/ Continuing(v) \/ Leave(v)) /\ UNCHANGED <<ownerVars, login>>
  <1>0. Honest(v) /\ visit[v] \in Visit /\ Guests \subseteq Users
    BY PanelAssumption DEF PanelInv, PanelTypeOK
  <1>1. CASE \E u \in Guests : AskForCode(v, u)
    <2>1. [Away EXCEPT !.step = "asking"] \in Visit BY DEF Away, Visit
    <2>2. PICK u \in Users : AskForCode(v, u) BY <1>0, <1>1
    <2>3. /\ Arrive(v, u, [Away EXCEPT !.step = "asking"])
          /\ UNCHANGED <<ownerVars, login>>
      BY <2>2 DEF AskForCode, Arrive
    <2>4. QED BY <2>1, <2>3 DEF Beginning, Away, Entering
  <1>2. CASE StoreCode(v) BY <1>0, <1>2 DEF StoreCode, Continuing, Go, Steps, Entering, Honest
  <1>3. CASE ForgetTries(v) BY <1>3 DEF ForgetTries, Leave
  <1>4. CASE \E u \in Guests, choice \in Stations \cup {None} : BringCode(v, u, choice)
    <2>1. PICK u \in Guests, choice \in Stations \cup {None} : BringCode(v, u, choice) BY <1>4
    <2>2. PICK picker \in BOOLEAN, s \in StationsOf(u) \cup {None} :
              Arrive(v, u, [Away EXCEPT !.step = "counting", !.picker = picker, !.station = s])
      BY <2>1 DEF BringCode
    <2>3. StationsOf(u) \subseteq Stations BY DEF StationsOf
    <2>4. [Away EXCEPT !.step = "counting", !.picker = picker, !.station = s] \in Visit
      BY <2>3 DEF Away, Visit
    <2>5. UNCHANGED <<ownerVars, login>> BY <2>1 DEF BringCode, Arrive
    <2>6. QED BY <1>0, <2>2, <2>4, <2>5 DEF Beginning, Away, Entering
  <1>5. CASE CountTry(v) BY <1>0, <1>5 DEF CountTry, Continuing, Go, Leave, Steps, Entering, Honest
  <1>6. CASE \E right \in BOOLEAN : Compare(v, right)
    BY <1>0, <1>6 DEF Compare, Continuing, Go, Leave, Steps, Entering, Honest
  <1>7. CASE ReturnTry(v) BY <1>7 DEF ReturnTry, Leave
  <1>8. CASE ConsumeCode(v) BY <1>0, <1>8 DEF ConsumeCode, Continuing, Go, Steps, Entering, Honest
  <1>9. CASE ClearTries(v)
    BY <1>0, <1>9 DEF ClearTries, Continuing, Go, Leave, Steps, Entering, Honest, Visit
  <1>10. CASE \E u \in Guests, s \in Stations : LoginWithTelegram(v, u, s)
    <2>1. PICK u \in Guests, s \in Stations : LoginWithTelegram(v, u, s) BY <1>10
    <2>2. [Away EXCEPT !.step = "minting", !.station = s] \in Visit BY DEF Away, Visit
    <2>3. QED BY <1>0, <2>1, <2>2 DEF LoginWithTelegram, Beginning, Away, Arrive, Entering
  <1>11. CASE \E l \in Logins, s \in Stations : SwitchStation(v, l, s)
    <2>1. PICK l \in Logins, s \in Stations : SwitchStation(v, l, s) BY <1>11
    <2>2. [Away EXCEPT !.step = "minting", !.station = s] \in Visit BY DEF Away, Visit
    <2>3. login[l].user \in Users BY <2>1 DEF SwitchStation, PanelInv, PanelTypeOK, Login
    <2>4. QED BY <2>1, <2>2, <2>3 DEF SwitchStation, Beginning, Away, Arrive, Entering
  <1>12. CASE CheckOwner(v)
    <2>1. StillOwner(v) => visit[v].station \in StationsOf(visit[v].user)
      BY <1>0, <1>12 DEF StillOwner, StationsOf, CheckOwner, Honest
    <2>2. QED BY <1>0, <1>12, <2>1 DEF CheckOwner, Continuing, Go, Leave, Steps, Entering, Honest
  <1>13. CASE Abort(v) BY <1>13 DEF Abort, Leave
  <1>14. QED BY <1>1, <1>2, <1>3, <1>4, <1>5, <1>6, <1>7, <1>8, <1>9, <1>10, <1>11, <1>12, <1>13 DEF Quiet

LEMMA QuietStep ==
    ASSUME PanelInv, NEW v \in Visits, Quiet(v)
    PROVE  PanelInv'
  <1>1. (Beginning(v) \/ Continuing(v) \/ Leave(v)) /\ UNCHANGED <<ownerVars, login>> BY QuietKinds
  <1>2. PanelTypeOK BY DEF PanelInv
  <1>3. /\ visit' = [visit EXCEPT ![v] = visit'[v]] /\ visit'[v] \in Visit
        /\ Honest(v)' /\ visit'[v].login \in {0, visit[v].login}
    <2>1. CASE Beginning(v) BY <1>2, <2>1, ArriveTyped, ArrivesHonest DEF Beginning
    <2>2. CASE Continuing(v) BY <1>2, <2>2, GoTyped, GoesHonest DEF Continuing
    <2>3. CASE Leave(v) BY <1>2, <2>3, LeaveTyped, LeavesHonest
    <2>4. QED BY <1>1, <2>1, <2>2, <2>3
  <1>4. /\ visit' \in [Visits -> Visit]
        /\ \A w \in Visits : Honest(w)' /\ Renewed(w)'
        /\ \A l \in Logins : Genuine(l)'
    BY <1>1, <1>3, VisitChanges
  <1>5. VisitStep(v) BY DEF Quiet, VisitStep
  <1>6. RedisTypeOK' BY <1>5, RedisVisit
  <1>7. login' \in [Logins -> Login] BY <1>1 DEF PanelInv, PanelTypeOK
  <1>8. QED BY <1>4, <1>6, <1>7 DEF PanelInv, PanelTypeOK, RedisTypeOK

(* The token is taken: one renewal begins, where there was none.           *)
LEMMA TakeStep ==
    ASSUME PanelInv, NEW v \in Visits, NEW l \in Logins, TakeToken(v, l)
    PROVE  PanelInv'
  <1> DEFINE what == [Away EXCEPT !.step = "renewing", !.station = login[l].station, !.login = l]
  <1>0. PanelTypeOK /\ Genuine(l) BY DEF PanelInv
  <1>1. login[l].user \in Users /\ login[l].station \in Stations /\ login[l].tokens = 1
    BY <1>0 DEF TakeToken, Genuine
  <1>2. what \in Visit BY <1>1 DEF Away, Visit
  <1> DEFINE u == login[l].user
  <1>3. Arrive(v, u, what) /\ u \in Users BY <1>1 DEF TakeToken
  <1> HIDE DEF what, u
  <1>4. /\ visit' = [visit EXCEPT ![v] = visit'[v]]
        /\ visit'[v] = [what EXCEPT !.user = u, !.owned = StationsOf(u)]
        /\ visit'[v] \in Visit
    BY <1>0, <1>2, <1>3, ArriveTyped
  <1>5. /\ visit'[v].step = "renewing" /\ visit'[v].user = u /\ visit'[v].owned = StationsOf(u)
        /\ visit'[v].station = login[l].station /\ visit'[v].login = l
    BY <1>4 DEF what, Away
  <1>6. \A w \in Visits \ {v} : visit'[w] = visit[w] BY <1>4 DEF PanelInv, PanelTypeOK
  <1>7. UNCHANGED ownerVars BY DEF TakeToken, Arrive
  <1>8. \A x : StationsOf(x)' = StationsOf(x) BY <1>7 DEF StationsOf, Owns, ownerVars
  <1>9. /\ login' = [login EXCEPT ![l] = login'[l]]
        /\ login'[l] \in Login /\ login'[l].tokens = 0 /\ login'[l].user = u
    BY <1>0, <1>1 DEF TakeToken, PanelTypeOK, Login, u
  <1>10. \A k \in Logins \ {l} : login'[k] = login[k] BY <1>0, <1>9 DEF PanelTypeOK
  <1>11. \A w \in Visits : visit[w].login # l
    BY <1>1 DEF PanelInv, Renewed, Logins
  <1>12. \A w \in Visits : Honest(w)'
    BY <1>1, <1>5, <1>6, <1>8 DEF PanelInv, Honest, Entering, u
  <1>13. u # None BY <1>1, OwnersAssumption DEF u
  <1>14. \A w \in Visits : visit[w].login \in Logins \cup {0} BY <1>0 DEF PanelTypeOK, Visit
  <1>15. \A w \in Visits : Renewed(w)'
    <2>1. TAKE w \in Visits
    <2>2. CASE w = v BY <1>5, <1>6, <1>9, <1>11, <1>13, <2>2 DEF Renewed
    <2>3. CASE w # v BY <1>5, <1>6, <1>10, <1>11, <1>14, <2>3 DEF PanelInv, Renewed
    <2>4. QED BY <2>2, <2>3
  <1>16. \A k \in Logins : Genuine(k)' BY <1>9, <1>10 DEF PanelInv, Genuine
  <1>17. VisitStep(v) BY DEF VisitStep
  <1>18. RedisTypeOK' BY <1>17, RedisVisit
  <1>19. login' \in [Logins -> Login] /\ visit' \in [Visits -> Visit]
    BY <1>0, <1>4, <1>9 DEF PanelTypeOK
  <1>20. QED BY <1>12, <1>15, <1>16, <1>18, <1>19 DEF PanelInv, PanelTypeOK, RedisTypeOK

(* What is minted is the token of a login without one: the login that is   *)
(* renewed, or one that nobody has.                                        *)
LEMMA Minted ==
    ASSUME PanelInv, NEW v \in Visits, MintToken(v)
    PROVE  \E l \in Logins :
              /\ visit[v].step = "minting"
              /\ login[l].tokens = 0
              /\ \A w \in Visits \ {v} : visit[w].login # l
              /\ login' = [login EXCEPT ![l] = [user |-> visit[v].user, station |-> visit[v].station,
                                               tokens |-> 1]]
  <1>0. PanelTypeOK /\ Renewed(v) BY DEF PanelInv
  <1>1. PICK l \in LoginOf(visit[v]) :
           login' = [login EXCEPT ![l] = [user |-> visit[v].user, station |-> visit[v].station,
                                          tokens |-> login[l].tokens + 1]]
    BY DEF MintToken
  <1>2. visit[v].step = "minting" BY DEF MintToken
  <1>3. visit[v].login \in Logins \cup {0} BY <1>0 DEF PanelTypeOK, Visit
  <1>4. CASE visit[v].login # 0
    <2>1. l = visit[v].login /\ l \in Logins BY <1>1, <1>3, <1>4 DEF LoginOf
    <2>2. login[l].tokens = 0 /\ \A w \in Visits \ {v} : visit[w].login # l
      BY <1>0, <1>4, <2>1 DEF Renewed
    <2>3. login[l].tokens + 1 = 1 BY <2>2
    <2>4. QED BY <1>1, <1>2, <2>1, <2>2, <2>3
  <1>5. CASE visit[v].login = 0
    <2>1. l \in Logins /\ login[l] = NoLogin BY <1>1, <1>5 DEF LoginOf
    <2>2. login[l].tokens = 0 /\ login[l].user = None BY <2>1 DEF NoLogin
    <2>3. l # 0 BY <2>1 DEF Logins
    <2>4. \A w \in Visits : visit[w].login # l BY <2>2, <2>3 DEF PanelInv, Renewed
    <2>5. login[l].tokens + 1 = 1 BY <2>2
    <2>6. QED BY <1>1, <1>2, <2>1, <2>2, <2>4, <2>5
  <1>6. QED BY <1>4, <1>5

LEMMA MintStep ==
    ASSUME PanelInv, NEW v \in Visits, MintToken(v)
    PROVE  PanelInv'
  <1>0. PanelTypeOK /\ Honest(v) BY DEF PanelInv
  <1>1. PICK l \in Logins :
              /\ visit[v].step = "minting"
              /\ login[l].tokens = 0
              /\ \A w \in Visits \ {v} : visit[w].login # l
              /\ login' = [login EXCEPT ![l] = [user |-> visit[v].user, station |-> visit[v].station,
                                               tokens |-> 1]]
    BY Minted
  <1>2. Leave(v) BY DEF MintToken
  <1>3. /\ visit' = [visit EXCEPT ![v] = visit'[v]] /\ visit'[v] \in Visit
        /\ Honest(v)' /\ visit'[v].login = 0
    BY <1>0, <1>2, LeaveTyped, LeavesHonest
  <1>4. \A w \in Visits \ {v} : visit'[w] = visit[w] BY <1>0, <1>3 DEF PanelTypeOK
  <1>5. \A x : StationsOf(x)' = StationsOf(x) BY <1>2 DEF Leave, StationsOf, Owns, ownerVars
  <1>6. \A w \in Visits : Honest(w)' BY <1>3, <1>4, <1>5 DEF PanelInv, Honest
  <1>7. visit[v].user \in Users /\ visit[v].station \in Stations BY <1>0, <1>1 DEF Honest
  <1>8. /\ login'[l].user = visit[v].user /\ login'[l].station = visit[v].station
        /\ login'[l].tokens = 1 /\ login'[l] \in Login
    BY <1>0, <1>1, <1>7 DEF PanelTypeOK, Login
  <1>9. \A k \in Logins \ {l} : login'[k] = login[k] BY <1>0, <1>1 DEF PanelTypeOK
  <1>10. \A k \in Logins : Genuine(k)' BY <1>7, <1>8, <1>9 DEF PanelInv, Genuine
  <1>11. \A w \in Visits : visit[w].login \in Logins \cup {0} BY <1>0 DEF PanelTypeOK, Visit
  <1>12. \A w \in Visits : Renewed(w)' BY <1>1, <1>3, <1>4, <1>9, <1>11 DEF PanelInv, Renewed
  <1>13. VisitStep(v) BY DEF VisitStep
  <1>14. RedisTypeOK' BY <1>13, RedisVisit
  <1>15. login' \in [Logins -> Login] /\ visit' \in [Visits -> Visit]
    BY <1>0, <1>1, <1>3, <1>8 DEF PanelTypeOK
  <1>16. QED BY <1>6, <1>10, <1>12, <1>14, <1>15 DEF PanelInv, PanelTypeOK, RedisTypeOK

(* A login has no other token and no renewal than the one it has.          *)
LEMMA ExpireStep == PanelInv /\ Expire => PanelInv'
  <1> SUFFICES ASSUME PanelInv, Expire PROVE PanelInv'
    OBVIOUS
  <1>0. PanelTypeOK /\ Guests \subseteq Users BY PanelAssumption DEF PanelInv
  <1>1. UNCHANGED <<ownerVars, visit>>
    BY DEF Expire, CodeExpires, TriesExpire, CooldownEnds, TokenExpires
  <1>2. \A w \in Visits : Honest(w)' BY <1>1 DEF PanelInv, Honest, StationsOf, Owns, ownerVars
  <1>3. CASE \E u \in Guests : CodeExpires(u) \/ TriesExpire(u) \/ CooldownEnds(u)
    <2>1. RedisTypeOK' /\ UNCHANGED login
      BY <1>0, <1>3 DEF CodeExpires, TriesExpire, CooldownEnds, Forget, PanelTypeOK, RedisTypeOK
    <2>2. QED BY <1>0, <1>1, <1>2, <2>1 DEF PanelInv, PanelTypeOK, RedisTypeOK, Renewed, Genuine
  <1>4. CASE \E l \in Logins : TokenExpires(l)
    <2>1. PICK l \in Logins : TokenExpires(l) BY <1>4
    <2>2. /\ login'[l].tokens = 0 /\ login'[l].user = login[l].user /\ login'[l] \in Login
          /\ login' = [login EXCEPT ![l] = login'[l]]
      BY <1>0, <2>1 DEF TokenExpires, PanelTypeOK, Login
    <2>3. \A k \in Logins \ {l} : login'[k] = login[k] BY <1>0, <2>2 DEF PanelTypeOK
    <2>4. \A k \in Logins : Genuine(k)' BY <2>2, <2>3 DEF PanelInv, Genuine
    <2>5. \A w \in Visits : visit[w].login \in Logins \cup {0} BY <1>0 DEF PanelTypeOK, Visit
    <2>6. \A w \in Visits : Renewed(w)' BY <1>1, <2>2, <2>3, <2>5 DEF PanelInv, Renewed
    <2>7. UNCHANGED redisVars BY <2>1 DEF TokenExpires
    <2>8. login' \in [Logins -> Login] BY <1>0, <2>2 DEF PanelTypeOK
    <2>9. QED BY <1>0, <1>1, <1>2, <2>4, <2>6, <2>7, <2>8 DEF PanelInv, PanelTypeOK, redisVars
  <1>5. QED BY <1>3, <1>4 DEF Expire

(* Owners change, and visits take note.                                    *)
LEMMA OwnersStepKeeps == PanelInv /\ OwnersChange => PanelInv'
  <1> SUFFICES ASSUME PanelInv, OwnersChange PROVE PanelInv'
    OBVIOUS
  <1>0. PanelTypeOK BY DEF PanelInv
  <1>1. UNCHANGED <<redisVars, login>> BY DEF OwnersChange
  <1>2. ASSUME NEW w \in Visits, NEW u, u = visit[w].user
        PROVE  /\ visit'[w].step = visit[w].step /\ visit'[w].user = u
               /\ visit'[w].station = visit[w].station /\ visit'[w].login = visit[w].login
               /\ visit[w].owned \subseteq visit'[w].owned
               /\ u # None => StationsOf(u)' \subseteq visit'[w].owned
               /\ visit'[w] \in Visit
    <2>1. visit[w] \in Visit BY <1>0 DEF PanelTypeOK
    <2>2. visit'[w] = IF u = None THEN visit[w]
             ELSE [visit[w] EXCEPT !.owned = visit[w].owned \cup StationsOf(u)']
      BY <1>2 DEF OwnersChange, StationsOf, Owns
    <2>3. StationsOf(u)' \subseteq Stations BY DEF StationsOf
    <2>4. CASE u = None BY <1>2, <2>1, <2>2, <2>4
    <2>5. CASE u # None BY <1>2, <2>1, <2>2, <2>3, <2>5 DEF Visit
    <2>6. QED BY <2>4, <2>5
  <1>3. \A w \in Visits : Honest(w)'
    <2>1. TAKE w \in Visits
    <2>2. PICK u : u = visit[w].user OBVIOUS
    <2>3. Honest(w) BY DEF PanelInv
    <2>4. visit'[w].user = u BY <1>2, <2>2
    <2>5. StationsOf(visit[w].user)' = StationsOf(u)' BY <2>4 DEF StationsOf, Owns
    <2>6. u \in Users => u # None BY OwnersAssumption
    <2>7. QED BY <1>2, <2>2, <2>3, <2>5, <2>6 DEF Honest
  <1>4. \A w \in Visits : Renewed(w)' BY <1>1, <1>2 DEF PanelInv, Renewed
  <1>5. \A l \in Logins : Genuine(l)' BY <1>1 DEF PanelInv, Genuine
  <1>6. visit' \in [Visits -> Visit]
    <2>1. visit' = [w \in Visits |-> visit'[w]] BY DEF OwnersChange
    <2>2. QED BY <1>2, <2>1
  <1>7. QED BY <1>0, <1>1, <1>3, <1>4, <1>5, <1>6 DEF PanelInv, PanelTypeOK, redisVars

LEMMA PanelStep == PanelInv /\ [Next]_vars => PanelInv'
  <1> SUFFICES ASSUME PanelInv, [Next]_vars PROVE PanelInv'
    OBVIOUS
  <1>1. CASE OwnersChange BY <1>1, OwnersStepKeeps
  <1>2. ASSUME NEW v \in Visits, VisitStep(v) PROVE PanelInv'
    BY <1>2, QuietStep, TakeStep, MintStep DEF VisitStep, Quiet
  <1>3. CASE Expire BY <1>3, ExpireStep
  <1>4. CASE UNCHANGED vars
    BY <1>4 DEF vars, panelVars, ownerVars, PanelInv, PanelTypeOK, Honest, Renewed, Genuine, StationsOf, Owns
  <1>5. QED BY <1>1, <1>2, <1>3, <1>4 DEF Next

LEMMA PanelInvAlways == Spec => []PanelInv
  BY PanelInit, PanelStep, PTL DEF Spec

-----------------------------------------------------------------------------
(* The panel: theorems *)

(* Every key, login and request has its type.                              *)
THEOREM PanelTypeCorrect == Spec => []TypeOK
  <1>1. Init => story \in Stories BY DEF Init
  <1>2. story \in Stories /\ [Next]_vars => (story \in Stories)'
    <2>1. ASSUME NEW v \in Visits, VisitStep(v) PROVE UNCHANGED story
      BY <2>1
      DEF VisitStep, AskForCode, StoreCode, ForgetTries, BringCode, CountTry, Compare, ReturnTry, ConsumeCode,
          ClearTries, LoginWithTelegram, SwitchStation, TakeToken, CheckOwner, MintToken, Abort, Arrive, Go,
          Leave
    <2>2. Expire => UNCHANGED story
      BY DEF Expire, CodeExpires, TriesExpire, CooldownEnds, TokenExpires
    <2>3. OwnersChange => UNCHANGED story BY DEF OwnersChange
    <2>4. QED BY <2>1, <2>2, <2>3 DEF Next, vars, panelVars
  <1>3. story \in Stories /\ OwnersTypeOK /\ PanelInv => TypeOK BY DEF PanelInv, PanelTypeOK, TypeOK
  <1>4. Spec => []OwnersTypeOK BY PanelImplementsOwners, OwnersTypeCorrect, PTL
  <1>5. QED BY <1>1, <1>2, <1>3, <1>4, PanelInvAlways, PTL DEF Spec

(* GETDEL of the refresh token keeps a login one login, however many       *)
(* requests come with the same token.                                      *)
THEOREM TokenCorrect == Spec => []OneTokenPerLogin
  <1>1. PanelInv => OneTokenPerLogin
    <2> SUFFICES ASSUME PanelInv, NEW l \in Logins
                 PROVE  login[l].tokens + Cardinality({v \in Visits : visit[v].login = l}) <= 1
      BY DEF OneTokenPerLogin
    <2>1. login[l].tokens \in Nat /\ l # 0 BY DEF PanelInv, PanelTypeOK, Login, Logins
    <2>2. CASE \E v \in Visits : visit[v].login = l
      <3>1. PICK v \in Visits : visit[v].login = l BY <2>2
      <3>2. login[l].tokens = 0 /\ {w \in Visits : visit[w].login = l} = {v}
        BY <2>1, <3>1 DEF PanelInv, Renewed
      <3>3. Cardinality({w \in Visits : visit[w].login = l}) = 1 BY <3>2, FS_Singleton
      <3>4. QED BY <3>2, <3>3
    <2>3. CASE ~\E v \in Visits : visit[v].login = l
      <3>1. {w \in Visits : visit[w].login = l} = {} BY <2>3
      <3>2. login[l].tokens <= 1 BY <2>1 DEF PanelInv, Genuine
      <3>3. Cardinality({w \in Visits : visit[w].login = l}) = 0 BY <3>1, FS_EmptySet
      <3>4. QED BY <2>1, <3>2, <3>3
    <2>4. QED BY <2>2, <2>3
  <1>2. QED BY <1>1, PanelInvAlways, PTL

(* Only a minting visit raises the tokens of a login, and it has seen its  *)
(* user own the station since it began.                                    *)
THEOREM GrantCorrect == Spec => GrantedToOwners
  <1> DEFINE Granted ==
        \A l \in Logins, v \in Visits :
          (visit[v].step = "minting" /\ visit'[v].step = "idle" /\ login'[l].tokens > login[l].tokens)
              => login'[l].station \in visit[v].owned
  <1>1. PanelInv /\ [Next]_vars => [Granted]_vars
    <2> SUFFICES ASSUME PanelInv, Next, NEW l \in Logins, NEW v \in Visits,
                        visit[v].step = "minting", visit'[v].step = "idle",
                        login'[l].tokens > login[l].tokens
                 PROVE  login'[l].station \in visit[v].owned
      OBVIOUS
    <2>0. login[l].tokens \in Nat /\ ~(login[l].tokens > login[l].tokens)
      BY DEF PanelInv, PanelTypeOK, Login
    <2>1. ~OwnersChange BY <2>0 DEF OwnersChange
    <2>2. ~Expire
      <3>1. ~\E u \in Guests : CodeExpires(u) \/ TriesExpire(u) \/ CooldownEnds(u)
        BY <2>0 DEF CodeExpires, TriesExpire, CooldownEnds
      <3>2. ~\E k \in Logins : TokenExpires(k)
        BY <2>0 DEF TokenExpires, PanelInv, PanelTypeOK, Login
      <3>3. QED BY <3>1, <3>2 DEF Expire
    <2>3. PICK w \in Visits : VisitStep(w) BY <2>1, <2>2 DEF Next
    <2>4. ~Quiet(w) BY <2>0, QuietKinds
    <2>5. ASSUME NEW k \in Logins, TakeToken(w, k) PROVE FALSE
      <3>1. login[k] \in Login /\ login' = [login EXCEPT ![k].tokens = @ - 1]
        BY <2>5 DEF TakeToken, PanelInv, PanelTypeOK
      <3>2. login'[l].tokens = login[l].tokens - 1 \/ login'[l] = login[l]
        BY <3>1 DEF PanelInv, PanelTypeOK, Login
      <3>3. QED BY <2>0, <3>2
    <2>6. MintToken(w) BY <2>3, <2>4, <2>5 DEF VisitStep, Quiet
    <2>7. PICK k \in Logins : login' = [login EXCEPT ![k] = [user |-> visit[w].user,
                                             station |-> visit[w].station, tokens |-> 1]]
      BY <2>6, Minted
    <2>8. k = l BY <2>0, <2>7 DEF PanelInv, PanelTypeOK
    <2>9. login'[l].station = visit[w].station BY <2>7, <2>8 DEF PanelInv, PanelTypeOK
    <2>10. w = v BY <2>6 DEF MintToken, Leave, PanelInv, PanelTypeOK
    <2>11. visit[v].station \in Stations \cap visit[v].owned \/ visit[v].station = None
      BY DEF PanelInv, Honest, Entering
    <2>12. visit[v].station \in visit[v].owned
      BY <2>11, OwnersAssumption DEF PanelInv, Honest, Entering
    <2>13. QED BY <2>9, <2>10, <2>12
  <1>2. QED BY <1>1, PanelInvAlways, PTL DEF Spec, GrantedToOwners

(* Roles follow ownership behind the door too, and so do removals: the     *)
(* panel only reads them.                                                  *)
THEOREM PanelRoleCorrect ==
    ASSUME NoClash
    PROVE  Spec => []RoleFollowsOwnership /\ []RemovedStaysOut
  BY PanelImplementsOwners, RoleCorrect, RemovedCorrect, PTL

-----------------------------------------------------------------------------
(* The panel: wrong codes *)

(* Visits of a user that have been counted and may still miss or return    *)
(* their try; and visits that are about to delete the counter.             *)
Guessing(u) == {v \in Visits : visit[v].user = u /\ visit[v].step \in {"comparing", "returning"}}

Deleting(u) == {v \in Visits : visit[v].user = u /\ visit[v].step \in {"forgetting", "clearing"}}

Guesses(u) == Cardinality(Guessing(u))

(* How often the counter may still be deleted before the next code.        *)
Deletions(u) == Cardinality(Deleting(u)) + IF u \in early THEN 1 ELSE 0

(* The tries that the present counter still allows.                        *)
Room(u) == IF tries[u] < MaxTries THEN MaxTries - tries[u] ELSE 0

MaxMissed == MaxTries * (Cardinality(Visits) + 2) + Cardinality(Visits)

(* As long as the code lives, what was missed and all that can be missed   *)
(* before the next code is bounded.                                        *)
Guarded(u) ==
    /\ Guesses(u) - tries[u] <= Cardinality(Visits)
    /\ missed[u] <= MaxMissed
    /\ u \in code => missed[u] + Guesses(u) + Room(u) + MaxTries * Deletions(u) <= MaxMissed

GuessInv == PanelInv /\ \A u \in Users : Guarded(u)

(* MaxTries times something grows with it.                                 *)
LEMMA TimesMaxTries ==
    /\ \A n \in Nat : MaxTries * n \in Nat /\ MaxTries * (n + 1) = MaxTries * n + MaxTries
    /\ \A n, k \in Nat : n <= k => MaxTries * n <= MaxTries * k
  <1>1. MaxTries \in Nat BY PanelAssumption
  <1>2. ASSUME NEW n \in Nat PROVE MaxTries * n \in Nat /\ MaxTries * (n + 1) = MaxTries * n + MaxTries
    BY <1>1
  <1>3. ASSUME NEW n \in Nat, NEW k \in Nat, n <= k PROVE MaxTries * n <= MaxTries * k
    <2>1. PICK j \in Nat : k = n + j BY <1>3
    <2>2. MaxTries * k = MaxTries * n + MaxTries * j BY <1>1, <2>1
    <2>3. MaxTries * j \in Nat /\ MaxTries * n \in Nat BY <1>1
    <2>4. QED BY <2>2, <2>3
  <1>4. QED BY <1>2, <1>3

LEMMA CountsTyped ==
    ASSUME NEW u
    PROVE  /\ Cardinality(Visits) \in Nat
           /\ Guesses(u) \in 0..Cardinality(Visits) /\ Guesses(u)' \in 0..Cardinality(Visits)
           /\ Deletions(u) \in 0..(Cardinality(Visits) + 1)
           /\ Deletions(u)' \in 0..(Cardinality(Visits) + 1)
  <1>1. IsFiniteSet(Visits) BY PanelAssumption
  <1>2. Cardinality(Visits) \in Nat BY <1>1, FS_CardinalityType
  <1>3. ASSUME NEW S \in SUBSET Visits PROVE Cardinality(S) \in 0..Cardinality(Visits)
    <2>1. IsFiniteSet(S) /\ Cardinality(S) <= Cardinality(Visits) BY <1>1, FS_Subset
    <2>2. QED BY <1>2, <2>1, FS_CardinalityType
  <1>4. /\ Guessing(u) \in SUBSET Visits /\ Guessing(u)' \in SUBSET Visits
        /\ Deleting(u) \in SUBSET Visits /\ Deleting(u)' \in SUBSET Visits
    BY DEF Guessing, Deleting
  <1>5. /\ Cardinality(Guessing(u)) \in 0..Cardinality(Visits)
        /\ Cardinality(Guessing(u)') \in 0..Cardinality(Visits)
        /\ Cardinality(Deleting(u)) \in 0..Cardinality(Visits)
        /\ Cardinality(Deleting(u)') \in 0..Cardinality(Visits)
    BY <1>3, <1>4
  <1>6. QED BY <1>2, <1>5 DEF Guesses, Deletions

(* What a step may do to the numbers of one user.                          *)
Rests(u) ==
    /\ missed'[u] = missed[u] /\ tries'[u] = tries[u] /\ Guesses(u)' <= Guesses(u)
    /\ u \in code' => u \in code /\ Deletions(u)' <= Deletions(u)

GetsCode(u) ==
    missed'[u] = 0 /\ tries'[u] = tries[u] /\ Guesses(u)' = Guesses(u)

Forgets(u) ==
    /\ missed'[u] = missed[u] /\ tries'[u] = 0
    /\ u \in code' => u \in code
    /\ Guesses(u)' <= Guesses(u) /\ Deletions(u)' <= Deletions(u)
    /\ Deletions(u)' < Deletions(u) \/ u \notin code' \/ tries[u] < 0

Counts(u) ==
    /\ missed'[u] = missed[u] /\ tries'[u] = tries[u] + 1
    /\ u \in code' => u \in code
    /\ Guesses(u)' <= Guesses(u) + IF tries[u] < MaxTries THEN 1 ELSE 0
    /\ Deletions(u)' <= Deletions(u)

Misses(u) ==
    /\ missed'[u] = missed[u] + 1 /\ tries'[u] = tries[u] /\ u \in code
    /\ Guesses(u)' = Guesses(u) - 1 /\ Deletions(u)' = Deletions(u)

Returns(u) ==
    /\ missed'[u] = missed[u] /\ tries'[u] = tries[u] - 1
    /\ u \in code' => u \in code
    /\ Guesses(u)' = Guesses(u) - 1 /\ Deletions(u)' = Deletions(u)

GuessStep(u) == Rests(u) \/ GetsCode(u) \/ Forgets(u) \/ Counts(u) \/ Misses(u) \/ Returns(u)

LEMMA GuardedStep ==
    ASSUME PanelTypeOK, PanelTypeOK', NEW u \in Users, Guarded(u), GuessStep(u)
    PROVE  Guarded(u)'
  <1> DEFINE V == Cardinality(Visits)
             g == Guesses(u)
             h == Guesses(u)'
             d == Deletions(u)
             e == Deletions(u)'
             t == tries[u]
             m == missed[u]
  <1>1. /\ g \in Nat /\ h \in Nat /\ V \in Nat /\ d \in Nat /\ e \in Nat /\ h <= V /\ e <= V + 1
        /\ t \in Int /\ m \in Nat /\ MaxTries \in Nat /\ tries'[u] \in Int /\ missed'[u] \in Nat
    <2>1. /\ Cardinality(Visits) \in Nat
          /\ Guesses(u) \in 0..Cardinality(Visits) /\ Guesses(u)' \in 0..Cardinality(Visits)
          /\ Deletions(u) \in 0..(Cardinality(Visits) + 1)
          /\ Deletions(u)' \in 0..(Cardinality(Visits) + 1)
      BY CountsTyped
    <2>2. QED BY <2>1, PanelAssumption DEF PanelTypeOK
  <1> DEFINE md == MaxTries * d
             me == MaxTries * e
             mv == MaxTries * V
  <1>2. md \in Nat /\ me \in Nat /\ mv \in Nat BY <1>1, TimesMaxTries
  <1>3. MaxMissed = mv + MaxTries + MaxTries + V
    <2>1. MaxTries * (V + 1) = mv + MaxTries BY <1>1, TimesMaxTries
    <2>2. MaxTries * ((V + 1) + 1) = MaxTries * (V + 1) + MaxTries BY <1>1, TimesMaxTries
    <2>3. (V + 1) + 1 = V + 2 BY <1>1
    <2>4. MaxTries * (V + 2) = mv + MaxTries + MaxTries BY <2>1, <2>2, <2>3
    <2>5. QED BY <2>4 DEF MaxMissed
  <1>4. e <= d => me <= md BY <1>1, TimesMaxTries
  <1>5. e < d => me + MaxTries <= md
    <2>1. e + 1 <= d => MaxTries * (e + 1) <= md BY <1>1, TimesMaxTries
    <2>2. MaxTries * (e + 1) = me + MaxTries BY <1>1, TimesMaxTries
    <2>3. QED BY <1>1, <2>1, <2>2
  <1>6. me <= mv + MaxTries
    <2>1. MaxTries * (V + 1) = mv + MaxTries BY <1>1, TimesMaxTries
    <2>2. V + 1 \in Nat BY <1>1
    <2>3. QED BY <1>1, <2>1, <2>2, TimesMaxTries
  <1> DEFINE room == Room(u)
             roomAfter == Room(u)'
  <1>7. room = (IF t < MaxTries THEN MaxTries - t ELSE 0)
        /\ roomAfter = (IF tries'[u] < MaxTries THEN MaxTries - tries'[u] ELSE 0)
    BY DEF Room
  <1>8. /\ g - t <= V /\ m <= MaxMissed
        /\ u \in code => m + g + room + md <= MaxMissed
    BY DEF Guarded
  <1>9. SUFFICES /\ h - tries'[u] <= V /\ missed'[u] <= MaxMissed
                 /\ u \in code' => missed'[u] + h + roomAfter + me <= MaxMissed
    BY DEF Guarded, MaxMissed
  <1>10. MaxMissed \in Nat BY <1>1, <1>2, <1>3
  <1>11. CASE Rests(u)
    <2>1. missed'[u] = m /\ tries'[u] = t /\ h <= g /\ (u \in code' => u \in code /\ e <= d)
      BY <1>11 DEF Rests
    <2> HIDE DEF g, h, d, e, t, m, md, me, mv, room, roomAfter
    <2>2. QED BY <1>1, <1>2, <1>4, <1>7, <1>8, <1>10, <2>1
  <1>12. CASE GetsCode(u)
    <2>1. missed'[u] = 0 /\ tries'[u] = t /\ h = g BY <1>12 DEF GetsCode
    <2> HIDE DEF g, h, d, e, t, m, md, me, mv, room, roomAfter, V
    <2>2. QED BY <1>1, <1>2, <1>3, <1>6, <1>7, <1>8, <2>1
  <1>13. CASE Forgets(u)
    <2>1. /\ missed'[u] = m /\ tries'[u] = 0 /\ (u \in code' => u \in code) /\ h <= g /\ e <= d
          /\ e < d \/ u \notin code' \/ t < 0
      BY <1>13 DEF Forgets
    <2> HIDE DEF g, h, d, e, t, m, md, me, mv, room, roomAfter, V
    <2>2. QED BY <1>1, <1>2, <1>4, <1>5, <1>7, <1>8, <1>10, <2>1
  <1>14. CASE Counts(u)
    <2>1. /\ missed'[u] = m /\ tries'[u] = t + 1 /\ (u \in code' => u \in code) /\ e <= d
          /\ h <= g + IF t < MaxTries THEN 1 ELSE 0
      BY <1>14 DEF Counts
    <2> HIDE DEF g, h, d, e, t, m, md, me, mv, room, roomAfter, V
    <2>2. QED BY <1>1, <1>2, <1>4, <1>7, <1>8, <1>10, <2>1
  <1>15. CASE Misses(u)
    <2>1. missed'[u] = m + 1 /\ tries'[u] = t /\ u \in code /\ h = g - 1 /\ e = d
      BY <1>15 DEF Misses
    <2>2. md = me BY <2>1
    <2> HIDE DEF g, h, d, e, t, m, md, me, mv, room, roomAfter, V
    <2>3. QED BY <1>1, <1>2, <1>7, <1>8, <1>10, <2>1, <2>2
  <1>16. CASE Returns(u)
    <2>1. missed'[u] = m /\ tries'[u] = t - 1 /\ (u \in code' => u \in code) /\ h = g - 1 /\ e = d
      BY <1>16 DEF Returns
    <2>2. md = me BY <2>1
    <2> HIDE DEF g, h, d, e, t, m, md, me, mv, room, roomAfter, V
    <2>3. QED BY <1>1, <1>2, <1>7, <1>8, <1>10, <2>1, <2>2
  <1>17. QED BY <1>11, <1>12, <1>13, <1>14, <1>15, <1>16 DEF GuessStep

(* Two sets of visits that differ at most in v.                            *)
LEMMA CountChange ==
    ASSUME NEW v \in Visits, NEW S \in SUBSET Visits, NEW R \in SUBSET Visits, S \ {v} = R \ {v}
    PROVE  Cardinality(R) + (IF v \in S THEN 1 ELSE 0) = Cardinality(S) + (IF v \in R THEN 1 ELSE 0)
  <1>1. IsFiniteSet(S) /\ IsFiniteSet(R) BY PanelAssumption, FS_Subset
  <1>2. Cardinality(S) \in Nat /\ Cardinality(R) \in Nat BY <1>1, FS_CardinalityType
  <1>3. /\ Cardinality(S \ {v}) = IF v \in S THEN Cardinality(S) - 1 ELSE Cardinality(S)
        /\ Cardinality(R \ {v}) = IF v \in R THEN Cardinality(R) - 1 ELSE Cardinality(R)
    BY <1>1, FS_RemoveElement
  <1>4. Cardinality(S \ {v}) = Cardinality(R \ {v}) OBVIOUS
  <1> DEFINE s == Cardinality(S)
             r == Cardinality(R)
  <1>5. /\ Cardinality(S \ {v}) = IF v \in S THEN s - 1 ELSE s
        /\ Cardinality(S \ {v}) = IF v \in R THEN r - 1 ELSE r
        /\ s \in Nat /\ r \in Nat
    BY <1>2, <1>3, <1>4
  <1>6. r + (IF v \in S THEN 1 ELSE 0) = s + (IF v \in R THEN 1 ELSE 0)
    <2> HIDE DEF s, r
    <2>1. QED BY <1>5
  <1>7. QED BY <1>6

(* What one visit does to the numbers of a user.                           *)
LEMMA VisitCounts ==
    ASSUME PanelTypeOK, NEW v \in Visits, visit' = [visit EXCEPT ![v] = visit'[v]], NEW u
    PROVE  /\ Guesses(u)' + (IF v \in Guessing(u) THEN 1 ELSE 0)
                = Guesses(u) + (IF v \in Guessing(u)' THEN 1 ELSE 0)
           /\ Cardinality(Deleting(u)') + (IF v \in Deleting(u) THEN 1 ELSE 0)
                = Cardinality(Deleting(u)) + (IF v \in Deleting(u)' THEN 1 ELSE 0)
           /\ Cardinality(Deleting(u)) \in Nat /\ Cardinality(Deleting(u)') \in Nat
           /\ Guesses(u) \in Nat /\ Guesses(u)' \in Nat
  <1>1. \A w \in Visits \ {v} : visit'[w] = visit[w] BY DEF PanelTypeOK
  <1>2. /\ Guessing(u) \in SUBSET Visits /\ Guessing(u)' \in SUBSET Visits
        /\ Deleting(u) \in SUBSET Visits /\ Deleting(u)' \in SUBSET Visits
        /\ Guessing(u) \ {v} = Guessing(u)' \ {v}
        /\ Deleting(u) \ {v} = Deleting(u)' \ {v}
    BY <1>1 DEF Guessing, Deleting
  <1>3. \A S \in SUBSET Visits : Cardinality(S) \in Nat
    BY PanelAssumption, FS_Subset, FS_CardinalityType
  <1>4. QED BY <1>2, <1>3, CountChange DEF Guesses

(* A visit that does not begin, go on or end as one that has been counted  *)
(* or will delete, and leaves the keys alone, changes nothing for anybody. *)
LEMMA VisitRests ==
    ASSUME PanelTypeOK, NEW v \in Visits, visit' = [visit EXCEPT ![v] = visit'[v]], NEW u,
           v \notin Guessing(u)' \/ v \in Guessing(u),
           v \notin Deleting(u)' \/ v \in Deleting(u),
           missed'[u] = missed[u], tries'[u] = tries[u], u \in code' => u \in code,
           u \in early' => u \in early
    PROVE  Rests(u)
  <1>1. Guesses(u)' <= Guesses(u) /\ Cardinality(Deleting(u)') <= Cardinality(Deleting(u))
    BY VisitCounts
  <1>2. Cardinality(Deleting(u)) \in Nat /\ Cardinality(Deleting(u)') \in Nat BY VisitCounts
  <1>3. Deletions(u)' <= Deletions(u) BY <1>1, <1>2 DEF Deletions
  <1>4. QED BY <1>1, <1>3 DEF Rests

LEMMA VisitGuesses ==
    ASSUME PanelInv, NEW v \in Visits, VisitStep(v), NEW u \in Users
    PROVE  GuessStep(u)
  <1> DEFINE q == visit[v].user
  <1>1. PanelTypeOK /\ Honest(v) /\ visit[v] \in Visit /\ u # None /\ Guests \subseteq Users
    BY OwnersAssumption, PanelAssumption DEF PanelInv, PanelTypeOK
  <1>2. /\ v \in Guessing(u) <=> q = u /\ visit[v].step \in {"comparing", "returning"}
        /\ v \in Guessing(u)' <=> visit'[v].user = u /\ visit'[v].step \in {"comparing", "returning"}
        /\ v \in Deleting(u) <=> q = u /\ visit[v].step \in {"forgetting", "clearing"}
        /\ v \in Deleting(u)' <=> visit'[v].user = u /\ visit'[v].step \in {"forgetting", "clearing"}
    BY DEF Guessing, Deleting
  <1>3. ASSUME NEW x \in Users, NEW what \in Visit, Arrive(v, x, what),
               what.step \notin {"comparing", "returning", "forgetting", "clearing"},
               UNCHANGED <<code, tries, early, missed>>
        PROVE  GuessStep(u)
    <2>1. visit' = [visit EXCEPT ![v] = visit'[v]]
          /\ visit'[v] = [what EXCEPT !.user = x, !.owned = StationsOf(x)]
      BY <1>1, <1>3, ArriveTyped
    <2>2. visit'[v].step = what.step BY <2>1 DEF Visit
    <2>3. QED BY <1>1, <1>2, <1>3, <2>1, <2>2, VisitRests, SMTT(30) DEF GuessStep
  <1>4. ASSUME Leave(v)
        PROVE  /\ visit' = [visit EXCEPT ![v] = visit'[v]]
               /\ v \notin Guessing(u)' /\ v \notin Deleting(u)'
    BY <1>1, <1>2, <1>4, LeaveTyped DEF Away
  <1>5. ASSUME NEW step \in Steps, Go(v, step)
        PROVE  /\ visit' = [visit EXCEPT ![v] = visit'[v]]
               /\ v \in Guessing(u)' <=> q = u /\ step \in {"comparing", "returning"}
               /\ v \in Deleting(u)' <=> q = u /\ step \in {"forgetting", "clearing"}
    <2>1. visit' = [visit EXCEPT ![v] = visit'[v]] /\ visit'[v] = [visit[v] EXCEPT !.step = step]
      BY <1>1, <1>5, GoTyped
    <2>2. visit'[v].user = q /\ visit'[v].step = step BY <1>1, <2>1 DEF Visit
    <2>3. QED BY <1>2, <2>1, <2>2
  <1>6. ASSUME NEW x \in Guests, AskForCode(v, x) PROVE GuessStep(u)
    <2>1. [Away EXCEPT !.step = "asking"] \in Visit /\ [Away EXCEPT !.step = "asking"].step = "asking"
      BY DEF Away, Visit
    <2>2. QED BY <1>1, <1>3, <1>6, <2>1 DEF AskForCode
  <1>7. CASE StoreCode(v)
    <2>1. Go(v, "forgetting") /\ visit[v].step = "asking" BY <1>7 DEF StoreCode
    <2>2. /\ visit' = [visit EXCEPT ![v] = visit'[v]]
          /\ v \notin Guessing(u)' /\ v \notin Guessing(u)
          /\ v \in Deleting(u)' <=> q = u
      BY <1>2, <1>5, <2>1 DEF Steps
    <2>3. CASE q = u
      <3>1. Guesses(u)' = Guesses(u) BY <1>1, <2>2, VisitCounts
      <3>2. missed'[u] = 0 /\ tries'[u] = tries[u] BY <1>1, <1>7, <2>3 DEF StoreCode, PanelTypeOK
      <3>3. QED BY <3>1, <3>2 DEF GetsCode, GuessStep
    <2>4. CASE q # u
      BY <1>1, <1>7, <2>2, <2>4, VisitRests DEF StoreCode, PanelTypeOK, GuessStep
    <2>5. QED BY <2>3, <2>4
  <1>8. CASE ForgetTries(v) \/ ClearTries(v)
    <2>1. /\ visit[v].step \in {"forgetting", "clearing"}
          /\ Forget(q) /\ UNCHANGED <<code, missed>>
          /\ Leave(v) \/ Go(v, "minting")
      BY <1>8 DEF ForgetTries, ClearTries
    <2>2. /\ visit' = [visit EXCEPT ![v] = visit'[v]]
          /\ v \notin Guessing(u)' /\ v \notin Deleting(u)' /\ v \notin Guessing(u)
          /\ v \in Deleting(u) <=> q = u
      BY <1>2, <1>4, <1>5, <2>1 DEF Steps
    <2>3. CASE q = u
      <3>1. tries'[u] = 0 /\ u \notin early' BY <1>1, <2>1, <2>3 DEF Forget, PanelTypeOK
      <3>2. /\ Guesses(u)' = Guesses(u)
            /\ Cardinality(Deleting(u)') + 1 = Cardinality(Deleting(u))
            /\ Cardinality(Deleting(u)) \in Nat /\ Cardinality(Deleting(u)') \in Nat
            /\ Guesses(u) \in Nat
        BY <1>1, <2>2, <2>3, VisitCounts
      <3>3. Deletions(u)' < Deletions(u) /\ Deletions(u)' <= Deletions(u)
        BY <3>1, <3>2 DEF Deletions
      <3>4. QED BY <2>1, <3>1, <3>2, <3>3 DEF Forgets, GuessStep
    <2>4. CASE q # u
      BY <1>1, <2>1, <2>2, <2>4, VisitRests DEF Forget, PanelTypeOK, GuessStep
    <2>5. QED BY <2>3, <2>4
  <1>9. ASSUME NEW x \in Guests, NEW choice \in Stations \cup {None}, BringCode(v, x, choice)
        PROVE  GuessStep(u)
    <2>1. PICK picker \in BOOLEAN, s \in Stations \cup {None} :
              Arrive(v, x, [Away EXCEPT !.step = "counting", !.picker = picker, !.station = s])
      BY <1>9 DEF BringCode, StationsOf
    <2> DEFINE what == [Away EXCEPT !.step = "counting", !.picker = picker, !.station = s]
    <2>2. what \in Visit /\ what.step = "counting" BY DEF Away, Visit
    <2> HIDE DEF what
    <2>3. Arrive(v, x, what) BY <2>1 DEF what
    <2>4. QED BY <1>1, <1>3, <1>9, <2>2, <2>3 DEF BringCode, redisVars
  <1>10. CASE CountTry(v)
    <2>1. /\ visit[v].step = "counting" /\ UNCHANGED <<code, missed>>
          /\ tries' = [tries EXCEPT ![q] = @ + 1] /\ early' \subseteq early
          /\ IF tries'[q] <= MaxTries THEN Go(v, "comparing") ELSE Leave(v)
      BY <1>10 DEF CountTry
    <2>2. /\ visit' = [visit EXCEPT ![v] = visit'[v]]
          /\ v \notin Guessing(u) /\ v \notin Deleting(u) /\ v \notin Deleting(u)'
          /\ v \in Guessing(u)' => q = u /\ tries'[q] <= MaxTries
      BY <1>2, <1>4, <1>5, <2>1 DEF Steps
    <2>3. CASE q = u
      <3>1. tries'[u] = tries[u] + 1 /\ tries[u] \in Int /\ MaxTries \in Nat
        BY <1>1, <2>1, <2>3, PanelAssumption DEF PanelTypeOK
      <3>2. /\ Guesses(u)' = Guesses(u) + (IF v \in Guessing(u)' THEN 1 ELSE 0)
            /\ Cardinality(Deleting(u)') = Cardinality(Deleting(u))
            /\ Cardinality(Deleting(u)) \in Nat /\ Guesses(u) \in Nat
        BY <1>1, <2>2, VisitCounts
      <3>3. Guesses(u)' <= Guesses(u) + IF tries[u] < MaxTries THEN 1 ELSE 0
        BY <2>2, <2>3, <3>1, <3>2
      <3>4. Deletions(u)' <= Deletions(u) BY <2>1, <3>2 DEF Deletions
      <3>5. QED BY <2>1, <3>1, <3>3, <3>4 DEF Counts, GuessStep
    <2>4. CASE q # u
      BY <1>1, <2>1, <2>2, <2>4, VisitRests DEF PanelTypeOK, GuessStep
    <2>5. QED BY <2>3, <2>4
  <1>11. ASSUME NEW right \in BOOLEAN, Compare(v, right) PROVE GuessStep(u)
    <2>1. /\ visit[v].step = "comparing" /\ UNCHANGED <<code, tries, early>>
          /\ Leave(v) \/ (right /\ (Go(v, "returning") \/ Go(v, "consuming")))
          /\ IF q \in code /\ ~right THEN Leave(v) /\ missed' = [missed EXCEPT ![q] = @ + 1]
             ELSE UNCHANGED missed
      BY <1>11 DEF Compare
    <2>2. /\ visit' = [visit EXCEPT ![v] = visit'[v]]
          /\ v \in Guessing(u) <=> q = u
          /\ v \in Guessing(u)' => q = u
          /\ v \notin Deleting(u) /\ v \notin Deleting(u)'
          /\ Leave(v) => v \notin Guessing(u)'
      BY <1>2, <1>4, <1>5, <2>1 DEF Steps
    <2>3. CASE q = u /\ u \in code /\ ~right
      <3>1. missed'[u] = missed[u] + 1 BY <1>1, <2>1, <2>3 DEF PanelTypeOK
      <3>2. /\ Guesses(u)' = Guesses(u) - 1
            /\ Cardinality(Deleting(u)') = Cardinality(Deleting(u))
        BY <1>1, <2>1, <2>2, <2>3, VisitCounts
      <3>3. Deletions(u)' = Deletions(u) BY <2>1, <3>2 DEF Deletions
      <3>4. QED BY <2>1, <2>3, <3>1, <3>2, <3>3 DEF Misses, GuessStep
    <2>4. CASE ~(q = u /\ u \in code /\ ~right)
      <3>1. missed'[u] = missed[u] BY <1>1, <2>1, <2>4 DEF PanelTypeOK
      <3>2. QED BY <1>1, <2>1, <2>2, <3>1, VisitRests DEF GuessStep
    <2>5. QED BY <2>3, <2>4
  <1>12. CASE ReturnTry(v)
    <2>1. /\ visit[v].step = "returning" /\ Leave(v) /\ UNCHANGED <<code, early, missed>>
          /\ tries' = [tries EXCEPT ![q] = @ - 1]
      BY <1>12 DEF ReturnTry
    <2>2. /\ visit' = [visit EXCEPT ![v] = visit'[v]]
          /\ v \in Guessing(u) <=> q = u
          /\ v \notin Guessing(u)' /\ v \notin Deleting(u) /\ v \notin Deleting(u)'
      BY <1>2, <1>4, <2>1
    <2>3. CASE q = u
      <3>1. tries'[u] = tries[u] - 1 BY <1>1, <2>1, <2>3 DEF PanelTypeOK
      <3>2. /\ Guesses(u)' = Guesses(u) - 1
            /\ Cardinality(Deleting(u)') = Cardinality(Deleting(u))
        BY <1>1, <2>2, <2>3, VisitCounts
      <3>3. Deletions(u)' = Deletions(u) BY <2>1, <3>2 DEF Deletions
      <3>4. QED BY <2>1, <3>1, <3>2, <3>3 DEF Returns, GuessStep
    <2>4. CASE q # u
      BY <1>1, <2>1, <2>2, <2>4, VisitRests DEF PanelTypeOK, GuessStep
    <2>5. QED BY <2>3, <2>4
  <1>13. CASE ConsumeCode(v)
    <2>1. /\ visit[v].step = "consuming" /\ Go(v, "clearing") /\ UNCHANGED <<tries, early, missed>>
          /\ code' = code \ {q}
      BY <1>13 DEF ConsumeCode
    <2>2. /\ visit' = [visit EXCEPT ![v] = visit'[v]]
          /\ v \notin Guessing(u)' /\ v \notin Guessing(u)
          /\ v \in Deleting(u)' <=> q = u
      BY <1>2, <1>5, <2>1 DEF Steps
    <2>3. CASE q # u BY <1>1, <2>1, <2>2, <2>3, VisitRests DEF GuessStep
    <2>4. CASE q = u
      <3>1. u \notin code' BY <2>1, <2>4
      <3>2. Guesses(u)' <= Guesses(u) BY <1>1, <2>2, VisitCounts
      <3>3. QED BY <2>1, <3>1, <3>2 DEF Rests, GuessStep
    <2>5. QED BY <2>3, <2>4
  <1>14. CASE CheckOwner(v) \/ MintToken(v) \/ Abort(v)
    <2>1. (Leave(v) \/ (visit[v].step = "renewing" /\ Go(v, "minting"))) /\ UNCHANGED redisVars
      BY <1>14 DEF CheckOwner, MintToken, Abort
    <2>2. /\ visit' = [visit EXCEPT ![v] = visit'[v]]
          /\ v \notin Guessing(u)' /\ v \notin Deleting(u)'
      BY <1>4, <1>5, <2>1 DEF Steps
    <2>3. QED BY <1>1, <2>1, <2>2, VisitRests DEF redisVars, GuessStep
  <1>15. ASSUME NEW x \in Guests, NEW s \in Stations, LoginWithTelegram(v, x, s) PROVE GuessStep(u)
    <2> DEFINE what == [Away EXCEPT !.step = "minting", !.station = s]
    <2>1. what \in Visit /\ what.step = "minting" BY DEF Away, Visit
    <2>2. Arrive(v, x, what) BY <1>15 DEF LoginWithTelegram
    <2> HIDE DEF what
    <2>3. QED BY <1>1, <1>3, <1>15, <2>1, <2>2 DEF LoginWithTelegram, redisVars
  <1>16. ASSUME NEW l \in Logins, NEW s \in Stations, SwitchStation(v, l, s) PROVE GuessStep(u)
    <2> DEFINE what == [Away EXCEPT !.step = "minting", !.station = s]
    <2>1. what \in Visit /\ what.step = "minting" BY DEF Away, Visit
    <2>2. Arrive(v, login[l].user, what) /\ login[l].user \in Users
      BY <1>1, <1>16 DEF SwitchStation, PanelTypeOK, Login
    <2> HIDE DEF what
    <2>3. QED BY <1>3, <1>16, <2>1, <2>2 DEF SwitchStation, redisVars
  <1>17. ASSUME NEW l \in Logins, TakeToken(v, l) PROVE GuessStep(u)
    <2> DEFINE what == [Away EXCEPT !.step = "renewing", !.station = login[l].station, !.login = l]
    <2>1. login[l] \in Login /\ login[l].user \in Users
      BY <1>1, <1>17 DEF TakeToken, PanelInv, PanelTypeOK, Genuine
    <2>2. what \in Visit /\ what.step = "renewing" BY <2>1 DEF Away, Visit, Login
    <2>3. Arrive(v, login[l].user, what) BY <1>17 DEF TakeToken
    <2> HIDE DEF what
    <2>4. QED BY <1>3, <1>17, <2>1, <2>2, <2>3 DEF TakeToken, redisVars
  <1>18. QED
    BY <1>6, <1>7, <1>8, <1>9, <1>10, <1>11, <1>12, <1>13, <1>14, <1>15, <1>16, <1>17 DEF VisitStep

(* Keys expire: the counter at most once while it is older than the code.  *)
LEMMA ExpireGuesses ==
    ASSUME PanelInv, Expire, NEW u \in Users
    PROVE  GuessStep(u)
  <1>1. PanelTypeOK /\ Guests \subseteq Users BY PanelAssumption DEF PanelInv
  <1>2. UNCHANGED visit BY DEF Expire, CodeExpires, TriesExpire, CooldownEnds, TokenExpires
  <1>3. Guesses(u)' = Guesses(u) /\ Cardinality(Deleting(u)') = Cardinality(Deleting(u))
    BY <1>2 DEF Guesses, Guessing, Deleting
  <1>4. Cardinality(Deleting(u)) \in Nat /\ Guesses(u) \in Nat
    <2>1. Deleting(u) \subseteq Visits BY DEF Deleting
    <2>2. QED BY <2>1, CountsTyped, PanelAssumption, FS_Subset, FS_CardinalityType
  <1>5. ASSUME missed'[u] = missed[u], tries'[u] = tries[u], u \in code' => u \in code,
               u \in early' => u \in early
        PROVE  GuessStep(u)
    BY <1>3, <1>4, <1>5 DEF Rests, Deletions, GuessStep
  <1>6. ASSUME NEW x \in Guests, CodeExpires(x) \/ CooldownEnds(x) PROVE GuessStep(u)
    BY <1>5, <1>6 DEF CodeExpires, CooldownEnds
  <1>7. ASSUME NEW x \in Guests, TriesExpire(x) PROVE GuessStep(u)
    <2>1. /\ x \in early \/ x \notin code \/ tries[x] < 0
          /\ tries' = [tries EXCEPT ![x] = 0] /\ early' = early \ {x} /\ UNCHANGED <<code, missed>>
      BY <1>7 DEF TriesExpire, Forget
    <2>2. CASE x # u BY <1>1, <1>5, <2>1, <2>2 DEF PanelTypeOK
    <2>3. CASE x = u
      <3>1. tries'[u] = 0 BY <1>1, <2>1, <2>3 DEF PanelTypeOK
      <3>2. Deletions(u)' <= Deletions(u) /\ (u \in early => Deletions(u)' < Deletions(u))
        BY <1>3, <1>4, <2>1, <2>3 DEF Deletions
      <3>3. QED BY <1>3, <1>4, <2>1, <2>3, <3>1, <3>2 DEF Forgets, GuessStep
    <2>4. QED BY <2>2, <2>3
  <1>8. ASSUME NEW l \in Logins, TokenExpires(l) PROVE GuessStep(u)
    BY <1>5, <1>8 DEF TokenExpires, redisVars
  <1>9. QED BY <1>6, <1>7, <1>8 DEF Expire

(* Owners come and go while visits rest.                                   *)
LEMMA OwnersGuesses ==
    ASSUME PanelInv, OwnersChange, NEW u \in Users
    PROVE  GuessStep(u)
  <1>1. ASSUME NEW w \in Visits PROVE visit'[w].user = visit[w].user /\ visit'[w].step = visit[w].step
    BY DEF OwnersChange, PanelInv, PanelTypeOK, Visit
  <1>2. Guessing(u)' = Guessing(u) /\ Deleting(u)' = Deleting(u) BY <1>1 DEF Guessing, Deleting
  <1>3. UNCHANGED redisVars BY DEF OwnersChange
  <1>4. Guesses(u)' = Guesses(u) /\ Deletions(u)' = Deletions(u)
    BY <1>2, <1>3 DEF Guesses, Deletions, redisVars
  <1>5. Guesses(u) \in Nat /\ Deletions(u) \in Nat BY CountsTyped
  <1>6. QED BY <1>3, <1>4, <1>5 DEF Rests, GuessStep, redisVars

(* Wrong codes are compared with a code a bounded number of times, however *)
(* many users, visits and tries there are and however requests overlap,    *)
(* stop or outlive keys.                                                   *)
THEOREM GuessesCorrect == Spec => []GuessesBounded
  <1>1. Init => GuessInv
    <2> SUFFICES ASSUME Init, NEW u \in Users PROVE Guarded(u)
      BY PanelInit DEF GuessInv
    <2>1. Guessing(u) = {} BY DEF Init, Guessing, Away
    <2>2. Guesses(u) = 0 BY <2>1, FS_EmptySet DEF Guesses
    <2>3. tries[u] = 0 /\ missed[u] = 0 /\ u \notin code BY DEF Init
    <2>4. Cardinality(Visits) \in Nat /\ MaxTries \in Nat BY CountsTyped, PanelAssumption
    <2>5. MaxMissed \in Nat
      <3>1. Cardinality(Visits) + 2 \in Nat BY <2>4
      <3>2. MaxTries * (Cardinality(Visits) + 2) \in Nat BY <3>1, TimesMaxTries
      <3>3. QED BY <2>4, <3>2 DEF MaxMissed
    <2>6. QED BY <2>2, <2>3, <2>4, <2>5 DEF Guarded
  <1>2. GuessInv /\ [Next]_vars => GuessInv'
    <2> SUFFICES ASSUME GuessInv, [Next]_vars, NEW u \in Users PROVE Guarded(u)'
      BY PanelStep DEF GuessInv
    <2>1. PanelInv /\ PanelTypeOK /\ PanelTypeOK' /\ Guarded(u) BY PanelStep DEF GuessInv, PanelInv
    <2>2. CASE Next
      <3>1. GuessStep(u) BY <2>1, <2>2, VisitGuesses, ExpireGuesses, OwnersGuesses DEF Next
      <3>2. QED BY <2>1, <3>1, GuardedStep
    <2>3. CASE UNCHANGED vars
      BY <2>1, <2>3
      DEF vars, panelVars, Guarded, Guesses, Guessing, Deletions, Deleting, Room
    <2>4. QED BY <2>2, <2>3
  <1>3. GuessInv => GuessesBounded BY DEF GuessInv, Guarded, MaxMissed, GuessesBounded
  <1>4. QED BY <1>1, <1>2, <1>3, PTL DEF Spec

=================================================================================
