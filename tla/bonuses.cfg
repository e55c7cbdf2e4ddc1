SPECIFICATION FairSpec
CONSTANTS
    u1 = u1  u2 = u2
    b1 = b1  b2 = b2  b3 = b3
    c1 = c1
    w1 = w1  w2 = w2
    Users = {u1, u2}
    Bonuses = {b1, b2, b3}
    Checks = {c1}
    Wagers = {w1, w2}
    NoBonus = NoBonus
    UserOf <- Owners
    TermsOf <- TermsFor
    ScopeOf <- Scopes
    StakeOf <- Stakes
    OddsOf <- Prices
INVARIANTS
    TypeOK
    WalletMatchesLedger
    EndsOnce
    CashIsWagered
PROPERTY
    EndedIsBooked
CHECK_DEADLOCK FALSE
