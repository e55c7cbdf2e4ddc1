SPECIFICATION Spec
CONSTANTS
    home = home
    b1 = b1  u1 = u1  u2 = u2  y1 = y1  n1 = n1  g1 = g1  e1 = e1  d1 = d1
    Selections = {home}
    Bets = {b1}
    Updates = {u1, u2}
    Syncs = {y1}
    Scans = {n1}
    Goals = {g1}
    Checks = {e1}
    Desks = {d1}
    Prices = {2000, 1000}
    Opening = 2000
    OnOf <- On
    OddsOf <- TwoOdds
    StakeOf <- Stakes
    PayoutOf <- Payouts
    GoalPrice <- AfterGoal
    Limit = 2
    MaxCalls = 2
    MaxWrites = 0
    NoBet = NoBet
PROPERTY VersionNamesPrice
CHECK_DEADLOCK FALSE
