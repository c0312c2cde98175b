CONSTANTS
    m1 = m1  a1 = a1  route1 = route1  gps = gps  None = None
    Messages = {m1}
    Admins = {a1}
    Routes = {route1}
    Gps = gps
    MaxSearches = 2
    MaxActive = 1
    TrialDays = 1
    MonthDays = 2
    Months = {1}
    MaxApprovals = 2
SPECIFICATION FairSpec
INVARIANTS LimitHeld PaidDaysKept
PROPERTIES DeletedIsFinal ExpiredIsDisconnected
