SPECIFICATION Spec
CONSTANTS
    u1 = u1  u2 = u2
    b1 = b1  b2 = b2
    e1 = e1  e2 = e2
    s1 = s1  s2 = s2
    Users = {u1, u2}
    Bets = {b1}
    Events = {e1, e2}
    Selections = {s1, s2}
    EventOf <- OneEach
    Outcomes <- AllOutcomes
    Requests <- RoundingRequests
    Funds <- Funds4And5
    TaxRate = 2000
    DeadHeat = 5000
    MaxCorrections = 1
INVARIANTS
    TypeOK
    EverySettlementPosts
PROPERTY PaidByOfficialResults
