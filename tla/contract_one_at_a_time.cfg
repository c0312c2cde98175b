CONSTANTS
    d1 = d1  d2 = d2  c1 = c1  c2 = c2  st = st
    s1 = s1  s2 = s2  s3 = s3  None = None
    Deliveries = {d1, d2}
    Couriers = {c1, c2}
    Stations = {st}
    StationOf <- Mixed
    Fee <- OneFee
    Sessions = {s1, s2}
    Entry <- OneAtATime
    InitialWallets = {c1}
    WalletLimit <- Minus3
    NewWalletLimit <- Minus2
    Fickle = {}
SPECIFICATION FairSpec
INVARIANT StationCaptureApproved
PROPERTIES ImplementsContract EveryRequestEnds
