CONSTANTS
    d1 = d1  d2 = d2  c1 = c1  c2 = c2  st = st
    s1 = s1  s2 = s2  s3 = s3  None = None
    Deliveries = {d1}
    Couriers = {c1, c2}
    Stations = {st}
    StationOf <- Direct
    Fee <- OneFee
    Sessions = {s1, s2}
    Entry <- Links
    InitialWallets = {c1}
    WalletLimit <- Minus3
    NewWalletLimit <- Minus2
    Fickle = {}
SPECIFICATION Spec
INVARIANT OneCourierCharged
