CONSTANTS
    d1 = d1  d2 = d2  c1 = c1  c2 = c2  st = st
    s1 = s1  s2 = s2  s3 = s3  None = None
    Deliveries = {d1, d2}
    Couriers = {c1, c2}
    Stations = {st}
    StationOf <- Direct
    Fee <- MCFee
    Sessions = {s1, s2, s3}
    Entry <- LockFirst
    InitialWallets = {c1}
    WalletLimit <- Minus4
    NewWalletLimit <- Minus2
    Fickle = {}
SPECIFICATION Spec
INVARIANTS LedgerExplainsBalance CreditRespected
PROPERTY ImplementsContract
