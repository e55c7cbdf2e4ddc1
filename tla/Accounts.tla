------------------------------ MODULE Accounts ------------------------------
(***************************************************************************)
(* The accounts of one sportsbook: AuthService and its second factors,     *)
(* KycService, ResponsibleGamingService, the sessions RiskEngine records,  *)
(* and the placements as far as they look at the account.                  *)
(*                                                                         *)
(* Only a placement is a transaction.  One that throws puts the stores     *)
(* back as they were when it began, as new stores: a call in flight goes   *)
(* on with those it took when it began.  The backup codes and the device   *)
(* profiles are kept by the services and are not put back.                 *)
(***************************************************************************)
EXTENDS Naturals, FiniteSets, Sequences

CONSTANTS
    Seeded,        \* the users that exist from the beginning
    Registrations, \* calls of register; each makes the user of its name
    Logins, Setups, Enables, Exclusions, Pauses, Kycs, Wagers, Sessions,
    Identifiers, NoId, NoUser, NoSecret,
    EmailOf, PhoneOf, \* the identifiers of the users
    IdOf,          \* the identifier of each login
    Privileged,    \* the logins that ask for a role of the back office
    UserOf,        \* the user of each of the other calls
    Documents,     \* what may be submitted to a verification
    Devices, Payers, NoPayer,
    DeviceOf,      \* the device fingerprint of each session
    PayerOf,       \* the M-Pesa name of each session, if it gives one
    CodesPerSetup, \* how many backup codes a setup makes
    MaxCalls       \* how many of the calls are made in one behaviour

Accounts == Seeded \cup Registrations
StatusCalls == Exclusions \cup Pauses \cup Kycs
Calls == Registrations \cup Logins \cup Setups \cup Enables \cup StatusCalls
           \cup Wagers \cup Sessions
Codes == Setups \X (1 .. CodesPerSetup)
Factors == {<<"none", NoSecret>>} \cup ({"totp"} \X Setups) \cup ({"code"} \X Codes)

Kinds == <<Registrations, Logins, Setups, Enables, Exclusions, Pauses, Kycs, Wagers, Sessions>>

(* Two users with the same email or the same phone number. *)
SameIdentifier(u, v) ==
    \/ EmailOf[u] = EmailOf[v] /\ EmailOf[u] # NoId
    \/ PhoneOf[u] = PhoneOf[v] /\ PhoneOf[u] # NoId

ASSUME AccountAssumption ==
    /\ \A i, j \in 1 .. 9 : i # j => Kinds[i] \cap Kinds[j] = {}
    /\ Seeded \cap Registrations = {} /\ IsFiniteSet(Seeded) /\ IsFiniteSet(Wagers)
    /\ \A u, v \in Seeded : u # v => ~SameIdentifier(u, v)
    /\ EmailOf \in [Accounts -> Identifiers \cup {NoId}]
    /\ PhoneOf \in [Accounts -> Identifiers \cup {NoId}]
    /\ \A r \in Registrations : EmailOf[r] # NoId \/ PhoneOf[r] # NoId
    /\ NoId \notin Identifiers /\ NoUser \notin Accounts
    /\ NoSecret \notin Setups /\ NoPayer \notin Payers
    /\ IdOf \in [Logins -> Identifiers] /\ Privileged \subseteq Logins
    /\ UserOf \in [Setups \cup Enables \cup StatusCalls \cup Wagers \cup Sessions -> Seeded]
    /\ DeviceOf \in [Sessions -> Devices]
    /\ PayerOf \in [Sessions -> Payers \cup {NoPayer}]
    /\ CodesPerSetup \in Nat /\ MaxCalls \in Nat

VARIABLES
    db,       \* the stores, and those that replaced them; the last are in use
    codes,    \* AuthService.userBackupCodes
    profiles, \* RiskEngine.deviceProfiles
    pc,       \* where each call is
    ctx,      \* the stores each call has taken
    got,      \* the user each call has read
    saved,    \* the stores as they were when the running placement began
    session,  \* what each login was let in with
    firm,     \* the status last given to a user, when nothing was under way
    known,    \* firm, as it has been all the time a call is under way
    overlap,  \* the pairs of registrations that were under way together
    undone    \* the risk cases that a placement took with it

callVars  == <<pc, ctx, got>>
ghostVars == <<firm, known, overlap, undone>>
vars == <<db, codes, profiles, callVars, saved, session, ghostVars>>

Statuses == {"ACTIVE", "KYC_VERIFIED", "KYC_REJECTED", "SUSPENDED", "SELF_EXCLUDED"}
Cases == [signal: {"AML", "DEVICE", "PAYER"}, user: Seeded, linked: SUBSET Seeded]
Stores == [users: Seq(Accounts), status: [Accounts -> Statuses],
           secret: [Accounts -> Setups \cup {NoSecret}],
           enabled: SUBSET Accounts, cases: SUBSET Cases]
Reading == [user: Accounts \cup {NoUser}, status: Statuses,
            secret: Setups \cup {NoSecret}, enabled: BOOLEAN]
NothingRead == [user |-> NoUser, status |-> "ACTIVE", secret |-> NoSecret, enabled |-> FALSE]
Profile == [device: Devices, payer: Payers \cup {NoPayer}]

Latest == db[Len(db)]
Held(c) == db[ctx[c]]
UsersOf(stores) == {stores.users[i] : i \in DOMAIN stores.users}

TypeOK ==
    /\ db \in Seq(Stores) /\ Len(db) \in 1 .. Cardinality(Wagers) + 1
    /\ codes \in [Seeded -> SUBSET Codes]
    /\ \A u \in Seeded, k \in Codes : k \in codes[u] => UserOf[k[1]] = u
    /\ profiles \in [Seeded -> SUBSET Profile]
    /\ \A u \in Seeded : Cardinality(profiles[u]) <= 1
    /\ pc \in [Calls -> {"idle", "emailed", "phoned", "read", "written", "cased",
                         "begun", "checked", "unfit", "done", "refused"}]
    /\ ctx \in [Calls -> 1 .. Len(db)]
    /\ got \in [Calls -> Reading]
    /\ saved \in Seq(Stores)
    /\ session \in [Logins -> SUBSET [user: Accounts, factor: Factors, needed: BOOLEAN]]
    /\ firm \in [Seeded -> Statuses \cup {"NONE"}]
    /\ known \in [Calls -> [Seeded -> Statuses \cup {"NONE"}]]
    /\ overlap \subseteq SUBSET Registrations
    /\ undone \subseteq Cases

NoFirm == [u \in Seeded |-> "NONE"]

Init ==
    /\ \E order \in [1 .. Cardinality(Seeded) -> Seeded] :
         /\ \A i, j \in DOMAIN order : i # j => order[i] # order[j]
         /\ db = <<[users |-> order, status |-> [u \in Accounts |-> "ACTIVE"],
                    secret |-> [u \in Accounts |-> NoSecret], enabled |-> {},
                    cases |-> {}]>>
    /\ codes = [u \in Seeded |-> {}]
    /\ profiles = [u \in Seeded |-> {}]
    /\ pc = [c \in Calls |-> "idle"]
    /\ ctx = [c \in Calls |-> 1]
    /\ got = [c \in Calls |-> NothingRead]
    /\ saved = <<>>
    /\ session = [l \in Logins |-> {}]
    /\ firm = NoFirm
    /\ known = [c \in Calls |-> NoFirm]
    /\ overlap = {}
    /\ undone = {}

-----------------------------------------------------------------------------
InFlight == {c \in Calls : pc[c] \notin {"idle", "done", "refused"}}

(* A call takes the stores in use. *)
Takes(c) ==
    /\ pc[c] = "idle" /\ Cardinality({d \in Calls : pc[d] # "idle"}) < MaxCalls
    /\ ctx' = [ctx EXCEPT ![c] = Len(db)]
Begins(c) == Takes(c) /\ known' = [known EXCEPT ![c] = firm]

Go(c, where) == pc' = [pc EXCEPT ![c] = where]
Ends(c, where) ==
    /\ Go(c, where)
    /\ got' = [got EXCEPT ![c] = NothingRead]
    /\ UNCHANGED <<ctx, known>>
Write(c, stores) == db' = [db EXCEPT ![ctx[c]] = stores]

(* A user, as a call reads it. *)
Row(stores, u) == [user |-> u, status |-> stores.status[u],
                   secret |-> stores.secret[u], enabled |-> u \in stores.enabled]

Reads(c) ==
    /\ got' = [got EXCEPT ![c] = Row(Latest, UserOf[c])]
    /\ Go(c, "read")

-----------------------------------------------------------------------------
(* register looks for a user with the email, for one with the phone number *)
(* and creates the user: three calls of the stores, which it awaits.       *)
Holders(stores, of, id) == {u \in UsersOf(stores) : of[u] = id}

LookFor(r, stores, of, where) ==
    IF Holders(stores, of, of[r]) = {} THEN Go(r, where) ELSE Go(r, "refused")

StartRegister(r) ==
    /\ Begins(r)
    /\ IF EmailOf[r] # NoId
       THEN LookFor(r, Latest, EmailOf, "emailed")
       ELSE LookFor(r, Latest, PhoneOf, "phoned")
    /\ overlap' = overlap \cup {{r, q} : q \in InFlight \cap Registrations}
    /\ UNCHANGED <<db, codes, profiles, got, saved, session, firm, undone>>

LookPhone(r) ==
    /\ r \in Registrations /\ pc[r] = "emailed" /\ PhoneOf[r] # NoId
    /\ LookFor(r, Held(r), PhoneOf, "phoned")
    /\ UNCHANGED <<db, codes, profiles, ctx, got, saved, session, ghostVars>>

(* Where a registration has looked for all it gives; EmailWillDo skips the *)
(* phone number when an email is given.                                    *)
EmailWillDo(r) == IF EmailOf[r] # NoId THEN "emailed" ELSE "phoned"
Looked(r) == IF PhoneOf[r] # NoId THEN "phoned" ELSE "emailed"

Create(r) ==
    /\ pc[r] = Looked(r)
    /\ Write(r, [Held(r) EXCEPT !.users = Append(@, r)])
    /\ Go(r, "done")
    /\ UNCHANGED <<codes, profiles, ctx, got, saved, session, ghostVars>>

-----------------------------------------------------------------------------
(* login looks for the identifier among the emails, then the phone         *)
(* numbers; of several users with the same one it takes the first.         *)
FirstOf(stores, U) ==
    stores.users[CHOOSE i \in DOMAIN stores.users :
        /\ stores.users[i] \in U
        /\ \A j \in 1 .. i - 1 : stores.users[j] \notin U]

Find(l, stores, of, otherwise) ==
    LET U == Holders(stores, of, IdOf[l]) IN
    IF U # {}
    THEN Go(l, "read") /\ got' = [got EXCEPT ![l] = Row(stores, FirstOf(stores, U))]
    ELSE Go(l, otherwise) /\ UNCHANGED got

StartLogin(l) ==
    /\ Begins(l)
    /\ Find(l, Latest, EmailOf, "emailed")
    /\ UNCHANGED <<db, codes, profiles, saved, session, firm, overlap, undone>>

FindByPhone(l) ==
    /\ l \in Logins /\ pc[l] = "emailed"
    /\ Find(l, Held(l), PhoneOf, "refused")
    /\ UNCHANGED <<db, codes, profiles, ctx, saved, session, ghostVars>>

(* The code also turns CLOSED accounts away, a status no operation sets. *)
Locked == {"SUSPENDED", "SELF_EXCLUDED"}
CodesOf(u) == IF u \in Seeded THEN codes[u] ELSE {}

(* OfRole asks for the second factor of a role only. *)
OfRole(l) == l \in Privileged
NeedsFactor(l) == got[l].enabled \/ l \in Privileged

(* The codes that are left when one has been used; AllLeft forgets that. *)
AllLeft(u, factor) == CodesOf(u)
Remaining(u, factor) == CodesOf(u) \ {factor[2]}

(* The second factor comes with the login: a code of the authenticator, or *)
(* a backup code, which is taken from the codes at once.                   *)
Admits(l, factor) ==
    LET u == got[l].user IN
    IF ~NeedsFactor(l) THEN factor[1] = "none"
    ELSE \/ factor[1] = "totp" /\ factor[2] = got[l].secret
         \/ factor[1] = "code" /\ factor[2] \in CodesOf(u)

LogIn(l) ==
    LET u == got[l].user IN
    /\ l \in Logins /\ pc[l] = "read"
    /\ got[l].status \notin Locked
    /\ \E factor \in Factors :
         /\ Admits(l, factor)
         /\ session' = [session EXCEPT ![l] =
              {[user |-> u, factor |-> factor,
                needed |-> got[l].enabled \/ l \in Privileged]}]
         /\ codes' = IF factor[1] = "code"
                     THEN [codes EXCEPT ![u] = Remaining(u, factor)] ELSE codes
    /\ Ends(l, "done")
    /\ UNCHANGED <<db, profiles, saved, firm, overlap, undone>>

(* The status, the password or the second factor is not the right one. *)
RefuseLogin(l) ==
    /\ l \in Logins /\ pc[l] = "read"
    /\ Ends(l, "refused")
    /\ UNCHANGED <<db, codes, profiles, saved, session, firm, overlap, undone>>

-----------------------------------------------------------------------------
(* setup2fa writes the new secret, awaits that and makes its backup codes  *)
(* the codes of the user.                                                  *)
StartSetup(s) ==
    /\ s \in Setups
    /\ Begins(s) /\ Reads(s)
    /\ UNCHANGED <<db, codes, profiles, saved, session, firm, overlap, undone>>

WriteSecret(s) ==
    /\ s \in Setups /\ pc[s] = "read"
    /\ Write(s, [Held(s) EXCEPT !.secret[UserOf[s]] = s])
    /\ Go(s, "written")
    /\ UNCHANGED <<codes, profiles, ctx, got, saved, session, ghostVars>>

KeepCodes(s) ==
    /\ pc[s] = "written"
    /\ codes' = [codes EXCEPT ![UserOf[s]] = {s} \X (1 .. CodesPerSetup)]
    /\ Ends(s, "done")
    /\ UNCHANGED <<db, profiles, saved, session, firm, overlap, undone>>

(* enable2fa checks a code against the secret it has read.  An update      *)
(* writes the fields it names; AsRead writes the user back as it was read. *)
StartEnable(e) ==
    /\ e \in Enables
    /\ Begins(e) /\ Reads(e)
    /\ UNCHANGED <<db, codes, profiles, saved, session, firm, overlap, undone>>

AsRead(e) == [Held(e) EXCEPT !.enabled = @ \cup {UserOf[e]},
                             !.status[UserOf[e]] = got[e].status]
Enabled(e) == [Held(e) EXCEPT !.enabled = @ \cup {UserOf[e]}]

Enable(e) ==
    /\ e \in Enables /\ pc[e] = "read" /\ got[e].secret # NoSecret
    /\ Write(e, Enabled(e))
    /\ Ends(e, "done")
    /\ UNCHANGED <<codes, profiles, saved, session, firm, overlap, undone>>

(* The user has no secret, or the code is not of it. *)
RefuseEnable(e) ==
    /\ e \in Enables /\ pc[e] = "read"
    /\ Ends(e, "refused")
    /\ UNCHANGED <<db, codes, profiles, saved, session, firm, overlap, undone>>

-----------------------------------------------------------------------------
(* The status a call writes is firm when no other call of the same user    *)
(* that writes one is under way, and no placement that may still take it   *)
(* back; it is until such a call begins.                                   *)
Alone(c) ==
    /\ saved = <<>> /\ ctx[c] = Len(db)
    /\ \A d \in (InFlight \cap StatusCalls) \ {c} : UserOf[d] # UserOf[c]

WriteStatus(c, status) ==
    /\ Write(c, [Held(c) EXCEPT !.status[UserOf[c]] = status])
    /\ firm' = [firm EXCEPT ![UserOf[c]] = IF Alone(c) THEN status ELSE "NONE"]

StartStatusCall(c) ==
    /\ Takes(c) /\ Reads(c)
    /\ firm' = [firm EXCEPT ![UserOf[c]] = "NONE"]
    /\ known' = [d \in Calls |-> IF d \in InFlight
                    THEN [known[d] EXCEPT ![UserOf[c]] = "NONE"] ELSE known[d]]
    /\ UNCHANGED <<db, codes, profiles, saved, session, overlap, undone>>

(* selfExcludeUser and triggerCoolingOff look whether the user exists and  *)
(* write, whatever the status is.                                          *)
SelfExclude(x) ==
    /\ x \in Exclusions /\ pc[x] = "read"
    /\ WriteStatus(x, "SELF_EXCLUDED")
    /\ Ends(x, "done")
    /\ UNCHANGED <<codes, profiles, saved, session, overlap, undone>>

CoolOff(p) ==
    /\ p \in Pauses /\ pc[p] = "read"
    /\ WriteStatus(p, "SUSPENDED")
    /\ Ends(p, "done")
    /\ UNCHANGED <<codes, profiles, saved, session, overlap, undone>>

(* The verdict of SmileIdentityAdapter on a document.  A document it does  *)
(* not reject is verified, whatever the provider answers and also when it  *)
(* cannot be reached.  OfDocument gives the status of the document.        *)
Rejected(doc) == \/ ~doc.wellFormed \/ doc.age < 18
                 \/ doc.named /\ doc.similarity < 80
OfDocument(doc) == IF Rejected(doc) THEN "REJECTED" ELSE "VERIFIED"
Verdict(doc) == IF Rejected(doc) THEN "KYC_REJECTED" ELSE "KYC_VERIFIED"

(* submitVerification awaits the two answers of the provider and writes    *)
(* what they say, whatever the status has become.                          *)
Process(k) ==
    /\ k \in Kycs /\ pc[k] = "read"
    /\ \E doc \in Documents : ~doc.sanctioned /\ WriteStatus(k, Verdict(doc))
    /\ Ends(k, "done")
    /\ UNCHANGED <<codes, profiles, saved, session, overlap, undone>>

OpenCase(k) ==
    /\ k \in Kycs /\ pc[k] = "read"
    /\ \E doc \in Documents : doc.sanctioned
    /\ Write(k, [Held(k) EXCEPT !.cases = @ \cup
           {[signal |-> "AML", user |-> UserOf[k], linked |-> {}]}])
    /\ Go(k, "cased")
    /\ UNCHANGED <<codes, profiles, ctx, got, saved, session, ghostVars>>

SuspendSanctioned(k) ==
    /\ pc[k] = "cased"
    /\ WriteStatus(k, "SUSPENDED")
    /\ Ends(k, "done")
    /\ UNCHANGED <<codes, profiles, saved, session, overlap, undone>>

-----------------------------------------------------------------------------
(* recordUserSession compares the session with the profiles of the other   *)
(* users, keeps it as the profile of its own and opens a case, all before  *)
(* it first awaits anything.  A name that is not given stays what it was.  *)
SameDevice(d) ==
    {v \in Seeded \ {UserOf[d]} : \E p \in profiles[v] : p.device = DeviceOf[d]}
NoPayerLinks(d) == {}
SamePayer(d) ==
    {v \in Seeded \ {UserOf[d]} : \E p \in profiles[v] :
        PayerOf[d] # NoPayer /\ p.payer = PayerOf[d]}

ProfileFrom(d) ==
    [device |-> DeviceOf[d],
     payer |-> IF PayerOf[d] # NoPayer \/ profiles[UserOf[d]] = {} THEN PayerOf[d]
               ELSE (CHOOSE p \in profiles[UserOf[d]] : TRUE).payer]

RecordSession(d) ==
    LET linked == SameDevice(d) \cup SamePayer(d) IN
    /\ d \in Sessions
    /\ Begins(d)
    /\ profiles' = [profiles EXCEPT ![UserOf[d]] = {ProfileFrom(d)}]
    /\ IF linked # {}
       THEN db' = [db EXCEPT ![Len(db)].cases = @ \cup
              {[signal |-> IF SameDevice(d) # {} THEN "DEVICE" ELSE "PAYER",
                user |-> UserOf[d], linked |-> linked]}]
       ELSE UNCHANGED db
    /\ Go(d, "done")
    /\ UNCHANGED <<codes, got, saved, session, firm, overlap, undone>>

-----------------------------------------------------------------------------
(* placeBet, as far as it reads the account.  Transactions wait for each   *)
(* other.                                                                  *)
BeginWager(w) ==
    /\ w \in Wagers /\ saved = <<>>
    /\ Begins(w)
    /\ saved' = <<Latest>>
    /\ Go(w, "begun")
    /\ UNCHANGED <<db, codes, profiles, got, session, firm, overlap, undone>>

(* ByName lists the one status that is refused by its name. *)
ByName(status) == status # "SELF_EXCLUDED"
MayWager(status) == status \in {"ACTIVE", "KYC_VERIFIED"}

CheckAccount(w) ==
    /\ pc[w] = "begun"
    /\ Go(w, IF MayWager(Held(w).status[UserOf[w]]) THEN "checked" ELSE "unfit")
    /\ UNCHANGED <<db, codes, profiles, ctx, got, saved, session, ghostVars>>

AcceptWager(w) ==
    /\ pc[w] = "checked"
    /\ Ends(w, "done")
    /\ saved' = <<>>
    /\ UNCHANGED <<db, codes, profiles, session, firm, overlap, undone>>

(* The account, the odds or the wallet refuse the bet: what the stores     *)
(* were when the placement began becomes the stores.                       *)
RefuseWager(w) ==
    /\ pc[w] \in {"checked", "unfit"}
    /\ db' = Append(db, saved[1])
    /\ undone' = undone \cup (Latest.cases \ saved[1].cases)
    /\ Ends(w, "refused")
    /\ saved' = <<>>
    /\ UNCHANGED <<codes, profiles, session, firm, overlap>>

Next ==
    \/ \E r \in Registrations : StartRegister(r) \/ LookPhone(r) \/ Create(r)
    \/ \E l \in Logins : StartLogin(l) \/ FindByPhone(l) \/ LogIn(l) \/ RefuseLogin(l)
    \/ \E s \in Setups : StartSetup(s) \/ WriteSecret(s) \/ KeepCodes(s)
    \/ \E e \in Enables : StartEnable(e) \/ Enable(e) \/ RefuseEnable(e)
    \/ \E c \in StatusCalls : StartStatusCall(c)
    \/ \E x \in Exclusions : SelfExclude(x)
    \/ \E p \in Pauses : CoolOff(p)
    \/ \E k \in Kycs : Process(k) \/ OpenCase(k) \/ SuspendSanctioned(k)
    \/ \E d \in Sessions : RecordSession(d)
    \/ \E w \in Wagers : BeginWager(w) \/ CheckAccount(w) \/ AcceptWager(w) \/ RefuseWager(w)

Spec == Init /\ [][Next]_vars

-----------------------------------------------------------------------------
(* A status given when nothing else was under way is the status of the     *)
(* user until another call sets one: no login, second factor, session or   *)
(* refused placement takes back an exclusion or a suspension.              *)
StatusHolds ==
    \A u \in Seeded : firm[u] # "NONE" => Latest.status[u] = firm[u]

(* What begins after an account has been locked does not get through: no   *)
(* login is let in, and no bet is placed.                                  *)
LockedStaysOut ==
    /\ \A l \in Logins : \A s \in session[l] :
         s.user \in Seeded => known[l][s.user] \notin Locked
    /\ \A w \in Wagers :
         pc[w] = "done" => known[w][UserOf[w]] \in {"NONE", "ACTIVE", "KYC_VERIFIED"}

(* A backup code lets one login in, however logins and new setups of the   *)
(* same user run into each other.                                          *)
CodeOnce ==
    \A l, m \in Logins : l # m =>
        \A s \in session[l], t \in session[m] : s.factor[1] = "code" => t.factor # s.factor

(* A login whose user had turned the second factor on, or that asks for a  *)
(* role of the back office, has shown a factor made for that very user.    *)
FactorIsShown ==
    \A l \in Logins : \A s \in session[l] : s.needed =>
        \/ s.factor[1] = "totp" /\ UserOf[s.factor[2]] = s.user
        \/ s.factor[1] = "code" /\ UserOf[s.factor[2][1]] = s.user

(* Two users with the same email or phone number have registered at the    *)
(* same time.                                                              *)
OneUserPerIdentifier ==
    \A u, v \in UsersOf(Latest) :
        u # v /\ SameIdentifier(u, v) => {u, v} \in overlap

(* Users whose profiles share a device or an M-Pesa name are named by a    *)
(* case, unless a refused placement has taken that case with it.           *)
SharingIsACase ==
    \A u, v \in Seeded : u # v =>
        \A p \in profiles[u], q \in profiles[v] :
            p.device = q.device \/ (p.payer = q.payer /\ p.payer # NoPayer) =>
                \E c \in Latest.cases \cup undone :
                    \/ c.user = u /\ v \in c.linked
                    \/ c.user = v /\ u \in c.linked
=============================================================================
