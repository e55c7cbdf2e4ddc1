SPECIFICATION Spec
CONSTANTS
    ann = ann  ben = ben  r1 = r1  r2 = r2  l1 = l1  l2 = l2  l3 = l3  s1 = s1  s2 = s2
    e1 = e1  x1 = x1  p1 = p1  k1 = k1  w1 = w1  d1 = d1  d2 = d2  d3 = d3
    mail = mail  other = other  phone = phone  mobile = mobile
    handset = handset  tablet = tablet  name = name
    NoId = NoId  NoUser = NoUser  NoSecret = NoSecret  NoPayer = NoPayer
    Seeded = {ann, ben}
    Registrations = {r1, r2}
    Logins = {l1, l2, l3}
    Setups = {s1, s2}
    Enables = {e1}
    Exclusions = {x1}
    Pauses = {p1}
    Kycs = {k1}
    Wagers = {w1}
    Sessions = {d1, d2, d3}
    Identifiers = {mail, other, phone, mobile}
    Privileged = {l2}
    EmailOf <- Emails
    PhoneOf <- Phones
    IdOf <- Ids
    UserOf <- Users
    Documents <- Papers
    Devices = {handset, tablet}
    Payers = {name}
    DeviceOf <- Fingerprints
    PayerOf <- Names
    CodesPerSetup = 1
    MaxCalls = 4
INVARIANTS
    TypeOK
    StatusHolds
    LockedStaysOut
    CodeOnce
    FactorIsShown
    OneUserPerIdentifier
    SharingIsACase
CHECK_DEADLOCK FALSE
