CONSTANTS
    direct = direct  broadcast = broadcast  r1 = r1  r2 = r2
    w1 = w1  w2 = w2  a1 = a1  a2 = a2  None = None
    Payloads = {direct, broadcast}
    Recipients = {r1, r2}
    Audience <- MCAudience
    OnWhatsApp = {broadcast}
    Urgent = {direct}
    MaxMessages = 2
    MaxRetries = 2
    MaxPosts = 2
    BatchSize = 2
    Workers = {w1, w2}
    Admins = {}
    MaxRequests = 0
    Faults = {}
SPECIFICATION FairSpec
CHECK_DEADLOCK FALSE
INVARIANTS TypeOK OneSender NothingStranded AttemptsBounded
PROPERTY EveryMessageSettles
