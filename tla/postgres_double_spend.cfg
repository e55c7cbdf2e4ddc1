SPECIFICATION Spec
CONSTANTS
    ann = ann
    d1 = d1  d2 = d2
    c1 = c1  c1again = c1again  c2 = c2
    w1 = w1  w1again = w1again
    b1 = b1  b2 = b2
    k1 = k1  k2 = k2
    Users = {ann}
    Deposits = {d1, d2}
    Callbacks = {c1, c1again, c2}
    Withdrawals = {w1, w1again}
    Bets = {b1, b2}
    Keys = {k1, k2}
    DepositOf <- MCDepositOf
    KeyOf <- MCKeyOf
    UserOf <- MCUserOf
    AmountOf <- MCAmountOf
INVARIANT NoDoubleSpending
CHECK_DEADLOCK FALSE
