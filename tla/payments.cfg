SPECIFICATION Spec
CONSTANTS
    u1 = u1  u2 = u2
    d1 = d1  d2 = d2  d3 = d3
    w1 = w1  w2 = w2  w3 = w3
    k1 = k1  k2 = k2  k3 = k3  k4 = k4
    p1 = p1  p2 = p2
    Users = {u1, u2}
    Deposits = {d1, d2, d3}
    Withdrawals = {w1, w2, w3}
    Keys = {k1, k2, k3, k4}
    Pushes = {p1, p2}
    NoPush = NoPush
    KeyOf <- Keyed
    UserOf <- Owners
    AmountOf <- Amounts
    Threshold = 300
INVARIANTS
    TypeOK
    BalanceIsCreditsLessWithdrawals
    StatusIsProvidersWord
    OneWithdrawalPerKey
    CleanReportMeansBooked
