CONSTANTS
    direct = direct  broadcast = broadcast  r1 = r1  r2 = r2
    w1 = w1  w2 = w2  a1 = a1  a2 = a2  None = None
    Payloads = {broadcast}
    Recipients = {r1, r2}
    Audience <- MCAudience
    OnWhatsApp = {broadcast}
    Urgent = {}
    MaxMessages = 2
    MaxRetries = 2
    MaxPosts = 1
    BatchSize = 1
    Workers = {w1, w2}
    Admins = {a1, a2}
    MaxRequests = 3
    Faults = {"crash", "marking"}
SPECIFICATION Spec
CHECK_DEADLOCK FALSE
SYMMETRY WorkerSymmetry
INVARIANTS SentHasArrived AttemptsBounded FailedIsBuried
