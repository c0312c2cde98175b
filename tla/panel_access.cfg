CONSTANTS
    s1 = s1  s2 = s2  u1 = u1  u2 = u2  u3 = u3  r1 = r1  r2 = r2  v1 = v1  v2 = v2  None = None
    Stations = {s1, s2}
    Users = {u1, u2, u3}
    Couriers = {u1}
    Requests = {r1, r2}
    Clash = FALSE
    Guests = {u1}
    Visits = {v1, v2}
    MaxTries = 2
    MaxLogins = 1
    Stories <- MCStories
SYMMETRY Symmetry
SPECIFICATION Spec
INVARIANTS RoleFollowsOwnership RemovedStaysOut OneTokenPerLogin GuessesBounded
PROPERTIES GrantedToOwners
