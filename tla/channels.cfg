SPECIFICATION Spec
CONSTANTS
    m1 = m1  g1 = g1  t1 = t1  c1 = c1  c2 = c2  c3 = c3  a1 = a1  x1 = x1  n1 = n1
    w1 = w1  phoneA = phoneA  phoneB = phoneB
    NoUser = NoUser  NoBet = NoBet
    Deliveries = {m1, g1, t1, c1, c2, c3, a1, x1, n1}
    Web = {w1}
    PhoneOf <- PhoneNumbers
    MessageOf <- Messages
    HasBetting <- Served
    HasCashout <- Served
    Phones = {phoneA, phoneB}
    Matches = {"101", "102"}
    PayoutOf <- Payouts
    Deposit = 200
    MaxDeposits = 1
    MaxTime = 1
    MaxArrivals = 3
SYMMETRY Alike
INVARIANTS
    TypeOK
    WalletsAddUp
    BetsAreFound
    AcceptedAsAsked
    CashedOutOnce
CHECK_DEADLOCK FALSE
