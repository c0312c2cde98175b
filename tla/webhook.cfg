CONSTANTS
    m1 = m1  m2 = m2  r1 = r1  r2 = r2  None = None
    Messages = {m1, m2}
    Requests = {r1, r2}
    Gateways = {"wppconnect", "cloud"}
    MaxBatch = 2
    MaxDeliveries = 4
    Faults = {"error", "database", "mark", "crash"}
SPECIFICATION Spec
CHECK_DEADLOCK FALSE
SYMMETRY Symmetry
INVARIANTS TypeOK OneWorker DoneOnce CompletedIsDone
