---------------------------- MODULE AccountsProofs --------------------------
(***************************************************************************)
(* The safety of the accounts for every set of users, calls, identifiers,  *)
(* documents and devices, and any number of calls under way.               *)
(***************************************************************************)
EXTENDS Accounts, FiniteSetTheorems, SequenceTheorems, WellFoundedInduction, TLAPS

Placing == {"begun", "checked", "unfit"}

(* One placement runs at a time, and every refused one has left a store.   *)
OneWager ==
    /\ \A w \in Wagers : pc[w] \in Placing => saved # <<>>
    /\ \A w, x \in Wagers : pc[w] \in Placing /\ pc[x] \in Placing => w = x
    /\ Len(db) = Cardinality({w \in Wagers : pc[w] = "refused"}) + 1

(* A call under way that will write the status of u. *)
Changing(u) == \E c \in StatusCalls : c \in InFlight /\ UserOf[c] = u

(* What a step may do to the stores at position i. *)
Evolves(i, n) ==
    /\ db[i].cases \subseteq n.cases
    /\ \A u \in Accounts : n.status[u] = db[i].status[u] \/ Changing(u)
    /\ \A u \in Accounts : \/ n.secret[u] = db[i].secret[u]
                           \/ n.secret[u] \in Setups /\ UserOf[n.secret[u]] = u
    /\ \/ UsersOf(n) = UsersOf(db[i])
       \/ \E r \in Registrations : /\ pc[r] = Looked(r) /\ ctx[r] = i
                                   /\ UsersOf(n) = UsersOf(db[i]) \cup {r}

-----------------------------------------------------------------------------
(* The calls are of one kind each, and of seeded users. *)
LEMMA CallFacts ==
  /\ Registrations \subseteq Calls /\ Logins \subseteq Calls /\ Setups \subseteq Calls
  /\ Enables \subseteq Calls /\ StatusCalls \subseteq Calls /\ Wagers \subseteq Calls
  /\ Sessions \subseteq Calls
  /\ Exclusions \subseteq StatusCalls /\ Pauses \subseteq StatusCalls
  /\ Kycs \subseteq StatusCalls
  /\ Seeded \subseteq Accounts /\ Registrations \subseteq Accounts
  /\ \A c \in Setups \cup Enables \cup StatusCalls \cup Wagers \cup Sessions :
       UserOf[c] \in Seeded
BY AccountAssumption DEF Calls, StatusCalls, Accounts

(* A call has one kind. *)
LEMMA KindsDisjoint ==
  /\ Registrations \cap (Logins \cup Setups \cup Enables \cup StatusCalls
                           \cup Wagers \cup Sessions) = {}
  /\ Logins \cap (Setups \cup Enables \cup StatusCalls \cup Wagers \cup Sessions) = {}
  /\ Setups \cap (Enables \cup StatusCalls \cup Wagers \cup Sessions) = {}
  /\ Enables \cap (StatusCalls \cup Wagers \cup Sessions) = {}
  /\ StatusCalls \cap (Wagers \cup Sessions) = {}
  /\ Wagers \cap Sessions = {}
<1>1. /\ Kinds[1] = Registrations /\ Kinds[2] = Logins /\ Kinds[3] = Setups
      /\ Kinds[4] = Enables /\ Kinds[5] = Exclusions /\ Kinds[6] = Pauses
      /\ Kinds[7] = Kycs /\ Kinds[8] = Wagers /\ Kinds[9] = Sessions
  BY DEF Kinds
<1>2. \A i, j \in 1 .. 9 : i # j => Kinds[i] \cap Kinds[j] = {}
  BY AccountAssumption
<1>3. /\ Kinds[1] \cap Kinds[2] = {} /\ Kinds[1] \cap Kinds[3] = {}
      /\ Kinds[1] \cap Kinds[4] = {} /\ Kinds[1] \cap Kinds[5] = {}
      /\ Kinds[1] \cap Kinds[6] = {} /\ Kinds[1] \cap Kinds[7] = {}
      /\ Kinds[1] \cap Kinds[8] = {} /\ Kinds[1] \cap Kinds[9] = {}
  BY <1>2
<1>4. /\ Kinds[2] \cap Kinds[3] = {} /\ Kinds[2] \cap Kinds[4] = {}
      /\ Kinds[2] \cap Kinds[5] = {} /\ Kinds[2] \cap Kinds[6] = {}
      /\ Kinds[2] \cap Kinds[7] = {} /\ Kinds[2] \cap Kinds[8] = {}
      /\ Kinds[2] \cap Kinds[9] = {}
  BY <1>2
<1>5. /\ Kinds[3] \cap Kinds[4] = {} /\ Kinds[3] \cap Kinds[5] = {}
      /\ Kinds[3] \cap Kinds[6] = {} /\ Kinds[3] \cap Kinds[7] = {}
      /\ Kinds[3] \cap Kinds[8] = {} /\ Kinds[3] \cap Kinds[9] = {}
  BY <1>2
<1>6. /\ Kinds[4] \cap Kinds[5] = {} /\ Kinds[4] \cap Kinds[6] = {}
      /\ Kinds[4] \cap Kinds[7] = {} /\ Kinds[4] \cap Kinds[8] = {}
      /\ Kinds[4] \cap Kinds[9] = {}
  BY <1>2
<1>7. /\ Kinds[5] \cap Kinds[8] = {} /\ Kinds[5] \cap Kinds[9] = {}
      /\ Kinds[6] \cap Kinds[8] = {} /\ Kinds[6] \cap Kinds[9] = {}
      /\ Kinds[7] \cap Kinds[8] = {} /\ Kinds[7] \cap Kinds[9] = {}
      /\ Kinds[8] \cap Kinds[9] = {}
  BY <1>2
<1> HIDE DEF Kinds
<1> QED
  BY <1>1, <1>3, <1>4, <1>5, <1>6, <1>7 DEF StatusCalls

(* A call holds stores, and so do the latest. *)
LEMMA StoresHeld ==
  ASSUME TypeOK
  PROVE  /\ Len(db) \in Nat /\ Len(db) >= 1 /\ Len(db) \in 1 .. Len(db)
         /\ Latest \in Stores
         /\ \A c \in Calls : ctx[c] \in 1 .. Len(db) /\ Held(c) \in Stores
         /\ \A i \in 1 .. Len(db) : db[i] \in Stores
         /\ saved # <<>> => saved[1] \in Stores
<1> HIDE DEF Stores
<1>1. db \in Seq(Stores) /\ Len(db) \in Nat /\ Len(db) >= 1
  <2>1. db \in Seq(Stores) /\ Len(db) \in 1 .. Cardinality(Wagers) + 1
    BY DEF TypeOK
  <2>2. Len(db) \in Nat
    BY <2>1, LenProperties
  <2> QED
    BY <2>1, <2>2
<1>2. \A i \in 1 .. Len(db) : db[i] \in Stores
  BY <1>1, ElementOfSeq
<1>3. saved # <<>> => Len(saved) \in Nat \ {0} /\ saved[1] \in Stores
  <2>1. saved \in Seq(Stores)
    BY DEF TypeOK
  <2>2. saved # <<>> => Len(saved) \in Nat \ {0}
    BY <2>1, EmptySeq
  <2>3. saved # <<>> => 1 \in 1 .. Len(saved)
    BY <2>2
  <2> QED
    BY <2>1, <2>2, <2>3, ElementOfSeq
<1>4. \A c \in Calls : ctx[c] \in 1 .. Len(db)
  BY DEF TypeOK
<1>5. Len(db) \in 1 .. Len(db)
  BY <1>1
<1> QED
  BY <1>1, <1>2, <1>3, <1>4, <1>5 DEF Latest, Held

(* The fields of stores. *)
LEMMA StoreFields ==
  ASSUME NEW s \in Stores
  PROVE  /\ s.users \in Seq(Accounts) /\ s.status \in [Accounts -> Statuses]
         /\ s.secret \in [Accounts -> Setups \cup {NoSecret}]
         /\ s.enabled \in SUBSET Accounts /\ s.cases \in SUBSET Cases
         /\ s = [users |-> s.users, status |-> s.status, secret |-> s.secret,
                 enabled |-> s.enabled, cases |-> s.cases]
BY DEF Stores

(* The writes of the calls. *)
WithUser(s, r) == [s EXCEPT !.users = Append(@, r)]
WithStatus(s, u, x) == [s EXCEPT !.status[u] = x]
WithSecret(s, u, t) == [s EXCEPT !.secret[u] = t]
WithFactor(s, u) == [s EXCEPT !.enabled = @ \cup {u}]
WithCases(s, C) == [s EXCEPT !.cases = @ \cup C]

(* Stores with one field replaced. *)
LEMMA Replaced ==
  ASSUME NEW s \in Stores, NEW e
  PROVE  /\ [s EXCEPT !.users = e]
              = [users |-> e, status |-> s.status, secret |-> s.secret,
                 enabled |-> s.enabled, cases |-> s.cases]
         /\ [s EXCEPT !.enabled = e]
              = [users |-> s.users, status |-> s.status, secret |-> s.secret,
                 enabled |-> e, cases |-> s.cases]
         /\ [s EXCEPT !.cases = e]
              = [users |-> s.users, status |-> s.status, secret |-> s.secret,
                 enabled |-> s.enabled, cases |-> e]
BY DEF Stores

(* What one write of each kind makes of the stores. *)
LEMMA UserWrite ==
  ASSUME NEW s \in Stores, NEW r \in Registrations
  PROVE  LET n == WithUser(s, r) IN
         /\ n \in Stores /\ UsersOf(n) = UsersOf(s) \cup {r}
         /\ n.status = s.status /\ n.secret = s.secret /\ n.cases = s.cases
<1> DEFINE n == WithUser(s, r)
<1>1. r \in Accounts
  BY CallFacts
<1>2. s.users \in Seq(Accounts)
  BY StoreFields
<1>3. /\ Append(s.users, r) \in Seq(Accounts)
      /\ Len(s.users) \in Nat
      /\ Len(Append(s.users, r)) = Len(s.users) + 1
      /\ \A i \in 1 .. Len(s.users) : Append(s.users, r)[i] = s.users[i]
      /\ Append(s.users, r)[Len(s.users) + 1] = r
      /\ DOMAIN s.users = 1 .. Len(s.users)
      /\ DOMAIN Append(s.users, r) = 1 .. Len(s.users) + 1
  BY <1>1, <1>2, AppendProperties, LenProperties
<1>4. n = [users |-> Append(s.users, r), status |-> s.status, secret |-> s.secret,
           enabled |-> s.enabled, cases |-> s.cases]
  <2> DEFINE e == Append(s.users, r)
  <2>1. [s EXCEPT !.users = e]
          = [users |-> e, status |-> s.status, secret |-> s.secret,
             enabled |-> s.enabled, cases |-> s.cases]
    BY Replaced
  <2> QED
    BY <2>1 DEF WithUser
<1>5. n \in Stores
  BY <1>3, <1>4, StoreFields DEF Stores
<1>6. n.users = Append(s.users, r)
  BY <1>4
<1>7. UsersOf(n) = UsersOf(s) \cup {r}
  <2>1. UsersOf(n) = {n.users[i] : i \in 1 .. Len(s.users) + 1}
    BY <1>3, <1>6 DEF UsersOf
  <2>2. UsersOf(s) = {s.users[i] : i \in 1 .. Len(s.users)}
    BY <1>3 DEF UsersOf
  <2>3. 1 .. Len(s.users) + 1 = (1 .. Len(s.users)) \cup {Len(s.users) + 1}
    BY <1>3
  <2> HIDE DEF n
  <2> QED
    BY <1>3, <1>6, <2>1, <2>2, <2>3
<1>8. n.status = s.status /\ n.secret = s.secret /\ n.cases = s.cases
  BY <1>4
<1> QED
  BY <1>5, <1>7, <1>8

(* A status written leaves the other fields alone. *)
LEMMA StatusField ==
  ASSUME NEW s \in Stores, NEW u \in Accounts, NEW x \in Statuses
  PROVE  LET n == WithStatus(s, u, x) IN
         /\ n \in Stores /\ n.users = s.users /\ n.secret = s.secret /\ n.cases = s.cases
         /\ n.status = [s.status EXCEPT ![u] = x]
<1> DEFINE n == WithStatus(s, u, x)
<1>1. n = [users |-> s.users, status |-> [s.status EXCEPT ![u] = x], secret |-> s.secret,
           enabled |-> s.enabled, cases |-> s.cases]
  BY DEF Stores, WithStatus
<1>2. [s.status EXCEPT ![u] = x] \in [Accounts -> Statuses]
  BY StoreFields
<1> QED
  BY <1>1, <1>2, StoreFields DEF Stores

(* A secret written leaves the other fields alone. *)
LEMMA SecretField ==
  ASSUME NEW s \in Stores, NEW u \in Accounts, NEW t \in Setups
  PROVE  LET n == WithSecret(s, u, t) IN
         /\ n \in Stores /\ n.users = s.users /\ n.status = s.status /\ n.cases = s.cases
         /\ n.secret = [s.secret EXCEPT ![u] = t]
<1> DEFINE n == WithSecret(s, u, t)
<1>1. n = [users |-> s.users, status |-> s.status, secret |-> [s.secret EXCEPT ![u] = t],
           enabled |-> s.enabled, cases |-> s.cases]
  BY DEF Stores, WithSecret
<1>2. [s.secret EXCEPT ![u] = t] \in [Accounts -> Setups \cup {NoSecret}]
  BY StoreFields
<1> QED
  BY <1>1, <1>2, StoreFields DEF Stores

(* An enabled factor leaves the other fields alone. *)
LEMMA EnabledField ==
  ASSUME NEW s \in Stores, NEW u \in Accounts
  PROVE  LET n == WithFactor(s, u) IN
         /\ n \in Stores /\ n.users = s.users /\ n.status = s.status
         /\ n.secret = s.secret /\ n.cases = s.cases
<1> DEFINE e == s.enabled \cup {u}
<1> DEFINE n == WithFactor(s, u)
<1>1. [s EXCEPT !.enabled = e]
        = [users |-> s.users, status |-> s.status, secret |-> s.secret,
           enabled |-> e, cases |-> s.cases]
  BY Replaced
<1>2. e \in SUBSET Accounts
  BY StoreFields
<1> HIDE DEF e
<1>3. n = [users |-> s.users, status |-> s.status, secret |-> s.secret,
           enabled |-> e, cases |-> s.cases]
  BY <1>1 DEF e, WithFactor
<1> QED
  BY <1>2, <1>3, StoreFields DEF Stores

(* Cases written leave the other fields alone. *)
LEMMA CasesField ==
  ASSUME NEW s \in Stores, NEW C \in SUBSET Cases
  PROVE  LET n == WithCases(s, C) IN
         /\ n \in Stores /\ n.users = s.users /\ n.status = s.status
         /\ n.secret = s.secret /\ n.cases = s.cases \cup C
<1> DEFINE e == s.cases \cup C
<1> DEFINE n == WithCases(s, C)
<1>1. [s EXCEPT !.cases = e]
        = [users |-> s.users, status |-> s.status, secret |-> s.secret,
           enabled |-> s.enabled, cases |-> e]
  BY Replaced
<1>2. e \in SUBSET Cases
  BY StoreFields
<1>3. n = [users |-> s.users, status |-> s.status, secret |-> s.secret,
           enabled |-> s.enabled, cases |-> e]
  BY <1>1 DEF WithCases
<1>4. n.cases = s.cases \cup C
  BY <1>3
<1> HIDE DEF e
<1> QED
  BY <1>2, <1>3, <1>4, StoreFields DEF Stores

-----------------------------------------------------------------------------
(* What a step does to the stores: it writes to some of them, or a refused *)
(* placement puts those back that it had saved.                            *)
Written ==
    /\ db' \in Seq(Stores) /\ Len(db') = Len(db)
    /\ \A i \in 1 .. Len(db) : Evolves(i, db'[i])
    /\ undone' = undone
    /\ saved' = saved \/ saved' = <<>> \/ saved' = <<Latest>>
PutBack ==
    /\ saved # <<>> /\ saved' = <<>>
    /\ db' = Append(db, saved[1])
    /\ undone' = undone \cup (Latest.cases \ saved[1].cases)

(* To write nothing is a way of writing. *)
LEMMA Untouched ==
  ASSUME TypeOK, db' = db, undone' = undone,
         saved' = saved \/ saved' = <<>> \/ saved' = <<Latest>>
  PROVE  Written
<1>1. db \in Seq(Stores)
  BY DEF TypeOK
<1>2. \A i \in 1 .. Len(db) : Evolves(i, db[i])
  BY DEF Evolves
<1> QED
  BY <1>1, <1>2 DEF Written

(* A write to one of the stores that have replaced each other. *)
LEMMA WrittenTo ==
  ASSUME TypeOK, NEW i \in 1 .. Len(db), NEW n \in Stores, Evolves(i, n),
         db' = [db EXCEPT ![i] = n], undone' = undone, saved' = saved
  PROVE  Written
<1> HIDE DEF Stores
<1>1. db \in Seq(Stores)
  BY DEF TypeOK
<1>2. /\ db' \in Seq(Stores) /\ Len(db') = Len(db)
      /\ \A j \in 1 .. Len(db) : db'[j] = IF j = i THEN n ELSE db[j]
  BY <1>1, ExceptSeq
<1>3. \A j \in 1 .. Len(db) : Evolves(j, db[j])
  BY DEF Evolves
<1>4. ASSUME NEW j \in 1 .. Len(db)
      PROVE  Evolves(j, db'[j])
  <2>1. CASE j = i
    <3>1. db'[j] = n
      BY <1>2, <2>1
    <3> QED
      BY <2>1, <3>1
  <2>2. CASE j # i
    <3>1. db'[j] = db[j]
      BY <1>2, <2>2
    <3> QED
      BY <1>3, <3>1
  <2> QED
    BY <2>1, <2>2
<1> QED
  BY <1>2, <1>4 DEF Written

(* The calls that write a status. *)
LEMMA StatusWrite ==
  ASSUME TypeOK, NEW c \in StatusCalls, NEW x \in Statuses, c \in InFlight,
         Write(c, [Held(c) EXCEPT !.status[UserOf[c]] = x]),
         undone' = undone, saved' = saved
  PROVE  Written
<1> DEFINE n == WithStatus(Held(c), UserOf[c], x)
<1>1. c \in Calls /\ UserOf[c] \in Seeded /\ UserOf[c] \in Accounts
  BY CallFacts
<1>2. ctx[c] \in 1 .. Len(db) /\ Held(c) \in Stores
  BY <1>1, StoresHeld
<1>3. /\ n \in Stores /\ n.users = Held(c).users /\ n.secret = Held(c).secret
      /\ n.cases = Held(c).cases
      /\ n.status = [Held(c).status EXCEPT ![UserOf[c]] = x]
  BY <1>1, <1>2, StatusField
<1> HIDE DEF n
<1>4. Held(c).status \in [Accounts -> Statuses]
  BY <1>2, StoreFields
<1>5. Changing(UserOf[c])
  BY DEF Changing
<1>6. \A u \in Accounts : n.status[u] = Held(c).status[u] \/ Changing(u)
  BY <1>3, <1>4, <1>5
<1>7. UsersOf(n) = UsersOf(Held(c))
  BY <1>3 DEF UsersOf
<1>8. Evolves(ctx[c], n)
  BY <1>3, <1>6, <1>7 DEF Evolves, Held
<1>9. db' = [db EXCEPT ![ctx[c]] = n]
  BY DEF n, Write, WithStatus
<1> QED
  BY <1>2, <1>3, <1>8, <1>9, WrittenTo

(* Registration writes a user. *)
LEMMA CreateWrite ==
  ASSUME TypeOK, NEW r \in Registrations, Create(r)
  PROVE  Written
<1> DEFINE n == WithUser(Held(r), r)
<1>1. r \in Calls
  BY CallFacts
<1>2. ctx[r] \in 1 .. Len(db) /\ Held(r) \in Stores
  BY <1>1, StoresHeld
<1>3. /\ n \in Stores /\ UsersOf(n) = UsersOf(Held(r)) \cup {r}
      /\ n.status = Held(r).status /\ n.secret = Held(r).secret
      /\ n.cases = Held(r).cases
  BY <1>2, UserWrite
<1> HIDE DEF n
<1>4. pc[r] = Looked(r)
  BY DEF Create
<1>5. Evolves(ctx[r], n)
  BY <1>3, <1>4 DEF Evolves, Held
<1>6. db' = [db EXCEPT ![ctx[r]] = n] /\ undone' = undone /\ saved' = saved
  BY DEF n, Create, Write, WithUser, ghostVars
<1> QED
  BY <1>2, <1>3, <1>5, <1>6, WrittenTo

(* A setup writes a secret. *)
LEMMA SecretWrite ==
  ASSUME TypeOK, NEW s \in Setups, WriteSecret(s)
  PROVE  Written
<1> DEFINE n == WithSecret(Held(s), UserOf[s], s)
<1>1. s \in Calls /\ UserOf[s] \in Accounts
  BY CallFacts
<1>2. ctx[s] \in 1 .. Len(db) /\ Held(s) \in Stores
  BY <1>1, StoresHeld
<1>3. /\ n \in Stores /\ n.users = Held(s).users /\ n.status = Held(s).status
      /\ n.cases = Held(s).cases
      /\ n.secret = [Held(s).secret EXCEPT ![UserOf[s]] = s]
  BY <1>1, <1>2, SecretField
<1> HIDE DEF n
<1>4. Held(s).secret \in [Accounts -> Setups \cup {NoSecret}]
  BY <1>2, StoreFields
<1>5. \A u \in Accounts : \/ n.secret[u] = Held(s).secret[u]
                          \/ n.secret[u] \in Setups /\ UserOf[n.secret[u]] = u
  BY <1>3, <1>4
<1>6. UsersOf(n) = UsersOf(Held(s))
  BY <1>3 DEF UsersOf
<1>7. Evolves(ctx[s], n)
  BY <1>3, <1>5, <1>6 DEF Evolves, Held
<1>8. db' = [db EXCEPT ![ctx[s]] = n] /\ undone' = undone /\ saved' = saved
  BY DEF n, WriteSecret, Write, WithSecret, ghostVars
<1> QED
  BY <1>2, <1>3, <1>7, <1>8, WrittenTo

(* Enabling writes a factor. *)
LEMMA FactorWrite ==
  ASSUME TypeOK, NEW e \in Enables, Enable(e)
  PROVE  Written
<1> DEFINE n == WithFactor(Held(e), UserOf[e])
<1>1. e \in Calls /\ UserOf[e] \in Accounts
  BY CallFacts
<1>2. ctx[e] \in 1 .. Len(db) /\ Held(e) \in Stores
  BY <1>1, StoresHeld
<1>3. /\ n \in Stores /\ n.users = Held(e).users /\ n.status = Held(e).status
      /\ n.secret = Held(e).secret /\ n.cases = Held(e).cases
  BY <1>1, <1>2, EnabledField
<1> HIDE DEF n
<1>4. UsersOf(n) = UsersOf(Held(e))
  BY <1>3 DEF UsersOf
<1>5. Evolves(ctx[e], n)
  BY <1>3, <1>4 DEF Evolves, Held
<1>6. db' = [db EXCEPT ![ctx[e]] = n] /\ undone' = undone /\ saved' = saved
  BY DEF n, Enable, Enabled, Write, WithFactor
<1> QED
  BY <1>2, <1>3, <1>5, <1>6, WrittenTo

(* Cases are only ever added. *)
LEMMA CasesWrite ==
  ASSUME TypeOK, NEW i \in 1 .. Len(db), NEW C \in SUBSET Cases,
         db' = [db EXCEPT ![i] = WithCases(db[i], C)], undone' = undone, saved' = saved
  PROVE  Written
<1> DEFINE n == WithCases(db[i], C)
<1>1. db[i] \in Stores
  BY StoresHeld
<1>2. /\ n \in Stores /\ n.users = db[i].users /\ n.status = db[i].status
      /\ n.secret = db[i].secret /\ n.cases = db[i].cases \cup C
  BY <1>1, CasesField
<1> HIDE DEF n
<1>3. UsersOf(n) = UsersOf(db[i])
  BY <1>2 DEF UsersOf
<1>4. Evolves(i, n)
  BY <1>2, <1>3 DEF Evolves
<1>5. db' = [db EXCEPT ![i] = n]
  BY DEF n
<1> QED
  BY <1>2, <1>4, <1>5, WrittenTo

(* KYC and device sessions open cases. *)
LEMMA CaseWrites ==
  ASSUME TypeOK
  PROVE  /\ \A k \in Kycs : OpenCase(k) => Written
         /\ \A d \in Sessions : RecordSession(d) => Written
<1>1. ASSUME NEW k \in Kycs, OpenCase(k)
      PROVE  Written
  <2> DEFINE C == {[signal |-> "AML", user |-> UserOf[k], linked |-> {}]}
  <2>1. k \in Calls /\ UserOf[k] \in Seeded
    BY CallFacts
  <2>2. ctx[k] \in 1 .. Len(db)
    BY <2>1, StoresHeld
  <2>3. C \in SUBSET Cases
    BY <2>1 DEF Cases
  <2> HIDE DEF C
  <2>4. db' = [db EXCEPT ![ctx[k]] = WithCases(db[ctx[k]], C)]
    BY <1>1 DEF C, OpenCase, Write, WithCases, Held
  <2>5. undone' = undone /\ saved' = saved
    BY <1>1 DEF OpenCase, ghostVars
  <2> QED
    BY <2>2, <2>3, <2>4, <2>5, CasesWrite
<1>2. ASSUME NEW d \in Sessions, RecordSession(d)
      PROVE  Written
  <2> DEFINE linked == SameDevice(d) \cup SamePayer(d)
             C == {[signal |-> IF SameDevice(d) # {} THEN "DEVICE" ELSE "PAYER",
                    user |-> UserOf[d], linked |-> linked]}
  <2>1. UserOf[d] \in Seeded /\ linked \in SUBSET Seeded
    BY CallFacts DEF SameDevice, SamePayer
  <2>2. C \in SUBSET Cases
    BY <2>1 DEF Cases
  <2>3. undone' = undone /\ saved' = saved
    BY <1>2 DEF RecordSession
  <2>4. CASE linked # {}
    <3>1. db' = [db EXCEPT ![Len(db)].cases = @ \cup C]
      BY <1>2, <2>4 DEF RecordSession
    <3> HIDE DEF C
    <3>2. db' = [db EXCEPT ![Len(db)] = WithCases(db[Len(db)], C)]
      BY <3>1 DEF WithCases
    <3> QED
      BY <2>2, <2>3, <3>2, StoresHeld, CasesWrite
  <2>5. CASE linked = {}
    <3>1. db' = db
      BY <1>2, <2>5 DEF RecordSession
    <3> QED
      BY <2>3, <3>1, Untouched
  <2> QED
    BY <2>4, <2>5
<1> QED
  BY <1>1, <1>2

(* Exclusion, cooling-off and KYC write a status. *)
LEMMA VerdictWrites ==
  ASSUME TypeOK
  PROVE  /\ \A x \in Exclusions : SelfExclude(x) => Written
         /\ \A p \in Pauses : CoolOff(p) => Written
         /\ \A k \in Kycs : Process(k) \/ SuspendSanctioned(k) => Written
<1>1. ASSUME NEW x \in Exclusions, SelfExclude(x)
      PROVE  Written
  <2>1. x \in StatusCalls /\ x \in InFlight
    BY <1>1, CallFacts DEF SelfExclude, InFlight
  <2>2. /\ Write(x, [Held(x) EXCEPT !.status[UserOf[x]] = "SELF_EXCLUDED"])
        /\ undone' = undone /\ saved' = saved
    BY <1>1 DEF SelfExclude, WriteStatus
  <2>3. "SELF_EXCLUDED" \in Statuses
    BY DEF Statuses
  <2> QED
    BY <2>1, <2>2, <2>3, StatusWrite
<1>2. ASSUME NEW p \in Pauses, CoolOff(p)
      PROVE  Written
  <2>1. p \in StatusCalls /\ p \in InFlight
    BY <1>2, CallFacts DEF CoolOff, InFlight
  <2>2. /\ Write(p, [Held(p) EXCEPT !.status[UserOf[p]] = "SUSPENDED"])
        /\ undone' = undone /\ saved' = saved
    BY <1>2 DEF CoolOff, WriteStatus
  <2>3. "SUSPENDED" \in Statuses
    BY DEF Statuses
  <2> QED
    BY <2>1, <2>2, <2>3, StatusWrite
<1>3. ASSUME NEW k \in Kycs, Process(k)
      PROVE  Written
  <2>1. k \in StatusCalls /\ k \in InFlight
    BY <1>3, CallFacts DEF Process, InFlight
  <2>2. PICK x \in {"KYC_REJECTED", "KYC_VERIFIED"} :
           Write(k, [Held(k) EXCEPT !.status[UserOf[k]] = x])
    BY <1>3 DEF Process, WriteStatus, Verdict
  <2>3. undone' = undone /\ saved' = saved
    BY <1>3 DEF Process
  <2>4. x \in Statuses
    BY DEF Statuses
  <2> QED
    BY <2>1, <2>2, <2>3, <2>4, StatusWrite
<1>4. ASSUME NEW k \in Kycs, SuspendSanctioned(k)
      PROVE  Written
  <2>1. k \in StatusCalls /\ k \in InFlight
    BY <1>4, CallFacts DEF SuspendSanctioned, InFlight
  <2>2. /\ Write(k, [Held(k) EXCEPT !.status[UserOf[k]] = "SUSPENDED"])
        /\ undone' = undone /\ saved' = saved
    BY <1>4 DEF SuspendSanctioned, WriteStatus
  <2>3. "SUSPENDED" \in Statuses
    BY DEF Statuses
  <2> QED
    BY <2>1, <2>2, <2>3, StatusWrite
<1> QED
  BY <1>1, <1>2, <1>3, <1>4

(* The steps that write to no store. *)
LeavesStores ==
    \/ \E r \in Registrations : StartRegister(r) \/ LookPhone(r)
    \/ \E l \in Logins : StartLogin(l) \/ FindByPhone(l) \/ LogIn(l) \/ RefuseLogin(l)
    \/ \E s \in Setups : StartSetup(s) \/ KeepCodes(s)
    \/ \E e \in Enables : StartEnable(e) \/ RefuseEnable(e)
    \/ \E c \in StatusCalls : StartStatusCall(c)
    \/ \E w \in Wagers : BeginWager(w) \/ CheckAccount(w) \/ AcceptWager(w)

(* A step writes within stores, or is a refused placement that puts the    *)
(* saved ones back.                                                        *)
LEMMA StoresMove ==
  ASSUME TypeOK, OneWager, [Next]_vars
  PROVE  Written \/ (PutBack /\ \E w \in Wagers : RefuseWager(w))
<1>1. CASE LeavesStores
  <2>1. db' = db /\ undone' = undone
    BY <1>1 DEF LeavesStores, StartRegister, LookPhone, StartLogin, FindByPhone, LogIn, RefuseLogin,
       StartSetup, KeepCodes, StartEnable, RefuseEnable, StartStatusCall, BeginWager,
       CheckAccount, AcceptWager, ghostVars
  <2>2. saved' = saved \/ saved' = <<>> \/ saved' = <<Latest>>
    BY <1>1 DEF LeavesStores, StartRegister, LookPhone, StartLogin, FindByPhone, LogIn, RefuseLogin,
       StartSetup, KeepCodes, StartEnable, RefuseEnable, StartStatusCall, BeginWager,
       CheckAccount, AcceptWager
  <2> QED
    BY <2>1, <2>2, Untouched
<1>2. ASSUME NEW r \in Registrations, Create(r)
      PROVE  Written
  BY <1>2, CreateWrite
<1>3. ASSUME NEW s \in Setups, WriteSecret(s)
      PROVE  Written
  BY <1>3, SecretWrite
<1>4. ASSUME NEW e \in Enables, Enable(e)
      PROVE  Written
  BY <1>4, FactorWrite
<1>5. ASSUME NEW w \in Wagers, RefuseWager(w)
      PROVE  PutBack
  <2>1. pc[w] \in Placing
    BY <1>5 DEF RefuseWager, Placing
  <2>2. saved # <<>>
    BY <2>1 DEF OneWager
  <2> QED
    BY <1>5, <2>2 DEF RefuseWager, PutBack
<1>6. CASE UNCHANGED vars
  BY <1>6, Untouched DEF vars, ghostVars
<1> HIDE DEF Written, PutBack
<1>7. ASSUME Next
      PROVE  \/ LeavesStores
             \/ \E r \in Registrations : Create(r)
             \/ \E s \in Setups : WriteSecret(s)
             \/ \E e \in Enables : Enable(e)
             \/ \E x \in Exclusions : SelfExclude(x)
             \/ \E p \in Pauses : CoolOff(p)
             \/ \E k \in Kycs : Process(k) \/ OpenCase(k) \/ SuspendSanctioned(k)
             \/ \E d \in Sessions : RecordSession(d)
             \/ \E w \in Wagers : RefuseWager(w)
  <2>1. CASE \E r \in Registrations : StartRegister(r) \/ LookPhone(r) \/ Create(r)
    BY <2>1, Zenon DEF LeavesStores
  <2>2. CASE \E l \in Logins : StartLogin(l) \/ FindByPhone(l) \/ LogIn(l) \/ RefuseLogin(l)
    BY <2>2, Zenon DEF LeavesStores
  <2>3. CASE \E s \in Setups : StartSetup(s) \/ WriteSecret(s) \/ KeepCodes(s)
    BY <2>3, Zenon DEF LeavesStores
  <2>4. CASE \E e \in Enables : StartEnable(e) \/ Enable(e) \/ RefuseEnable(e)
    BY <2>4, Zenon DEF LeavesStores
  <2>5. CASE \E c \in StatusCalls : StartStatusCall(c)
    BY <2>5, Zenon DEF LeavesStores
  <2>6. CASE \/ \E x \in Exclusions : SelfExclude(x)
             \/ \E p \in Pauses : CoolOff(p)
             \/ \E k \in Kycs : Process(k) \/ OpenCase(k) \/ SuspendSanctioned(k)
             \/ \E d \in Sessions : RecordSession(d)
    BY <2>6, Zenon
  <2>7. CASE \E w \in Wagers : BeginWager(w) \/ CheckAccount(w) \/ AcceptWager(w) \/ RefuseWager(w)
    BY <2>7, Zenon DEF LeavesStores
  <2> QED
    BY <2>1, <2>2, <2>3, <2>4, <2>5, <2>6, <2>7, Zenon, <1>7 DEF Next
<1> QED
  BY <1>1, <1>2, <1>3, <1>4, <1>5, <1>6, <1>7, VerdictWrites, CaseWrites, Zenon

-----------------------------------------------------------------------------
(* Every step is of one call, and moves that call only. *)
OfRegistration(c) == StartRegister(c) \/ LookPhone(c) \/ Create(c)
OfLogin(c) == StartLogin(c) \/ FindByPhone(c) \/ LogIn(c) \/ RefuseLogin(c)
OfSetup(c) == StartSetup(c) \/ WriteSecret(c) \/ KeepCodes(c)
OfEnable(c) == StartEnable(c) \/ Enable(c) \/ RefuseEnable(c)
OfKyc(c) == Process(c) \/ OpenCase(c) \/ SuspendSanctioned(c)
OfStatus(c) ==
    \/ StartStatusCall(c)
    \/ c \in Exclusions /\ SelfExclude(c)
    \/ c \in Pauses /\ CoolOff(c)
    \/ c \in Kycs /\ OfKyc(c)
OfWager(c) == BeginWager(c) \/ CheckAccount(c) \/ AcceptWager(c) \/ RefuseWager(c)

Own(c) ==
    \/ c \in Registrations /\ OfRegistration(c)
    \/ c \in Logins /\ OfLogin(c)
    \/ c \in Setups /\ OfSetup(c)
    \/ c \in Enables /\ OfEnable(c)
    \/ c \in StatusCalls /\ OfStatus(c)
    \/ c \in Sessions /\ RecordSession(c)
    \/ c \in Wagers /\ OfWager(c)

(* A step is a step of one call. *)
LEMMA OneCall ==
  ASSUME Next
  PROVE  \E c \in Calls : Own(c)
<1>1. CASE \E r \in Registrations : StartRegister(r) \/ LookPhone(r) \/ Create(r)
  <2>1. PICK r \in Registrations : OfRegistration(r)
    BY <1>1, Zenon DEF OfRegistration
  <2> QED
    BY <2>1, CallFacts DEF Own
<1>2. CASE \E l \in Logins : StartLogin(l) \/ FindByPhone(l) \/ LogIn(l) \/ RefuseLogin(l)
  <2>1. PICK l \in Logins : OfLogin(l)
    BY <1>2, Zenon DEF OfLogin
  <2> QED
    BY <2>1, CallFacts DEF Own
<1>3. CASE \E s \in Setups : StartSetup(s) \/ WriteSecret(s) \/ KeepCodes(s)
  <2>1. PICK s \in Setups : OfSetup(s)
    BY <1>3, Zenon DEF OfSetup
  <2> QED
    BY <2>1, CallFacts DEF Own
<1>4. CASE \E e \in Enables : StartEnable(e) \/ Enable(e) \/ RefuseEnable(e)
  <2>1. PICK e \in Enables : OfEnable(e)
    BY <1>4, Zenon DEF OfEnable
  <2> QED
    BY <2>1, CallFacts DEF Own
<1>5. CASE \/ \E c \in StatusCalls : StartStatusCall(c)
           \/ \E x \in Exclusions : SelfExclude(x)
           \/ \E p \in Pauses : CoolOff(p)
           \/ \E k \in Kycs : Process(k) \/ OpenCase(k) \/ SuspendSanctioned(k)
  <2>1. PICK c \in StatusCalls : OfStatus(c)
    BY <1>5, CallFacts, Zenon DEF OfStatus, OfKyc
  <2> QED
    BY <2>1, CallFacts DEF Own
<1>6. CASE \E d \in Sessions : RecordSession(d)
  <2>1. PICK d \in Sessions : RecordSession(d)
    BY <1>6
  <2> QED
    BY <2>1, CallFacts DEF Own
<1>7. CASE \E w \in Wagers : BeginWager(w) \/ CheckAccount(w) \/ AcceptWager(w) \/ RefuseWager(w)
  <2>1. PICK w \in Wagers : OfWager(w)
    BY <1>7, Zenon DEF OfWager
  <2> QED
    BY <2>1, CallFacts DEF Own
<1> QED
  BY <1>1, <1>2, <1>3, <1>4, <1>5, <1>6, <1>7, Zenon DEF Next

(* A call that begins takes the latest stores; one that goes on keeps its  *)
(* own.                                                                    *)
Moves(c, where) == pc' = [pc EXCEPT ![c] = where] /\ where # "idle"
Starts(c) ==
    /\ pc[c] = "idle" /\ ctx' = [ctx EXCEPT ![c] = Len(db)]
    /\ \/ c \notin StatusCalls /\ firm' = firm /\ known' = [known EXCEPT ![c] = firm]
       \/ c \in StatusCalls /\ StartStatusCall(c)
Continues(c) ==
    /\ c \in InFlight /\ ctx' = ctx /\ known' = known
    /\ \/ firm' = firm
       \/ /\ c \in StatusCalls /\ pc' = [pc EXCEPT ![c] = "done"]
          /\ \E x \in Statuses : WriteStatus(c, x)

Places == {"emailed", "phoned", "read", "written", "cased", "begun", "checked",
           "unfit", "done", "refused"}

(* That call begins or goes on, and moves to another place. *)
LEMMA CallMoves ==
  ASSUME TypeOK, NEW c \in Calls, Own(c)
  PROVE  /\ Starts(c) \/ Continues(c)
         /\ \E where \in Places : Moves(c, where)
<1>1. CASE c \in Registrations /\ OfRegistration(c)
  <2>1. CASE StartRegister(c)
    BY <1>1, <2>1, KindsDisjoint DEF StartRegister, Begins, Takes, Starts, LookFor, Go, Moves, Places
  <2>2. CASE LookPhone(c)
    BY <2>2 DEF LookPhone, ghostVars, Continues, InFlight, LookFor, Go, Moves, Places
  <2>3. CASE Create(c)
    BY <2>3 DEF Create, ghostVars, Continues, InFlight, Looked, Go, Moves, Places
  <2> QED
    BY <1>1, <2>1, <2>2, <2>3 DEF OfRegistration
<1>2. CASE c \in Logins /\ OfLogin(c)
  <2>1. CASE StartLogin(c)
    BY <1>2, <2>1, KindsDisjoint DEF StartLogin, Begins, Takes, Starts, Find, Go, Moves, Places
  <2>2. CASE FindByPhone(c)
    BY <2>2 DEF FindByPhone, ghostVars, Continues, InFlight, Find, Go, Moves, Places
  <2>3. CASE LogIn(c)
    BY <2>3 DEF LogIn, Ends, Continues, InFlight, Go, Moves, Places
  <2>4. CASE RefuseLogin(c)
    BY <2>4 DEF RefuseLogin, Ends, Continues, InFlight, Go, Moves, Places
  <2> QED
    BY <1>2, <2>1, <2>2, <2>3, <2>4 DEF OfLogin
<1>3. CASE c \in Setups /\ OfSetup(c)
  <2>1. CASE StartSetup(c)
    BY <1>3, <2>1, KindsDisjoint DEF StartSetup, Begins, Takes, Starts, Reads, Go, Moves, Places
  <2>2. CASE WriteSecret(c)
    BY <2>2 DEF WriteSecret, ghostVars, Continues, InFlight, Go, Moves, Places
  <2>3. CASE KeepCodes(c)
    BY <2>3 DEF KeepCodes, Ends, Continues, InFlight, Go, Moves, Places
  <2> QED
    BY <1>3, <2>1, <2>2, <2>3 DEF OfSetup
<1>4. CASE c \in Enables /\ OfEnable(c)
  <2>1. CASE StartEnable(c)
    BY <1>4, <2>1, KindsDisjoint DEF StartEnable, Begins, Takes, Starts, Reads, Go, Moves, Places
  <2>2. CASE Enable(c)
    BY <2>2 DEF Enable, Ends, Continues, InFlight, Go, Moves, Places
  <2>3. CASE RefuseEnable(c)
    BY <2>3 DEF RefuseEnable, Ends, Continues, InFlight, Go, Moves, Places
  <2> QED
    BY <1>4, <2>1, <2>2, <2>3 DEF OfEnable
<1>5. CASE c \in StatusCalls /\ OfStatus(c)
  <2>1. CASE StartStatusCall(c)
    BY <1>5, <2>1 DEF StartStatusCall, Takes, Starts, Reads, Go, Moves, Places
  <2>2. CASE SelfExclude(c)
    BY <1>5, <2>2 DEF SelfExclude, Ends, Continues, InFlight, Go, Moves, Places, Statuses
  <2>3. CASE CoolOff(c)
    BY <1>5, <2>3 DEF CoolOff, Ends, Continues, InFlight, Go, Moves, Places, Statuses
  <2>4. CASE Process(c)
    BY <1>5, <2>4 DEF Process, Verdict, Ends, Continues, InFlight, Go, Moves, Places, Statuses
  <2>5. CASE OpenCase(c)
    BY <2>5 DEF OpenCase, ghostVars, Continues, InFlight, Go, Moves, Places
  <2>6. CASE SuspendSanctioned(c)
    BY <1>5, <2>6 DEF SuspendSanctioned, Ends, Continues, InFlight, Go, Moves, Places, Statuses
  <2> QED
    BY <1>5, <2>1, <2>2, <2>3, <2>4, <2>5, <2>6 DEF OfStatus, OfKyc
<1>6. CASE c \in Sessions /\ RecordSession(c)
  BY <1>6, KindsDisjoint DEF RecordSession, Begins, Takes, Starts, Go, Moves, Places
<1>7. CASE c \in Wagers /\ OfWager(c)
  <2>1. CASE BeginWager(c)
    BY <1>7, <2>1, KindsDisjoint DEF BeginWager, Begins, Takes, Starts, Go, Moves, Places
  <2>2. CASE CheckAccount(c)
    BY <2>2 DEF CheckAccount, ghostVars, Continues, InFlight, Go, Moves, Places
  <2>3. CASE AcceptWager(c)
    BY <2>3 DEF AcceptWager, Ends, Continues, InFlight, Go, Moves, Places
  <2>4. CASE RefuseWager(c)
    BY <2>4 DEF RefuseWager, Ends, Continues, InFlight, Go, Moves, Places
  <2> QED
    BY <1>7, <2>1, <2>2, <2>3, <2>4 DEF OfWager
<1> QED
  BY <1>1, <1>2, <1>3, <1>4, <1>5, <1>6, <1>7 DEF Own

-----------------------------------------------------------------------------
(* The first of several users is one of them. *)
LEMMA FirstIsOne ==
  ASSUME NEW s \in Stores, NEW U \in SUBSET UsersOf(s), U # {}
  PROVE  FirstOf(s, U) \in U /\ FirstOf(s, U) \in Accounts
<1> DEFINE I == {i \in DOMAIN s.users : s.users[i] \in U}
<1>1. s.users \in Seq(Accounts) /\ Len(s.users) \in Nat /\ DOMAIN s.users = 1 .. Len(s.users)
  BY StoreFields, LenProperties
<1>2. I \subseteq Nat
  BY <1>1
<1>3. I # {}
  BY DEF UsersOf
<1>4. PICK i \in I : \A j \in I : <<j, i>> \notin OpToRel(<, Nat)
  BY <1>2, <1>3, NatLessThanWellFounded, WFMin
<1>5. \A j \in 1 .. i - 1 : s.users[j] \notin U
  <2> SUFFICES ASSUME NEW j \in 1 .. i - 1, s.users[j] \in U
               PROVE  FALSE
    OBVIOUS
  <2>1. j \in I
    BY <1>1
  <2>2. j \in Nat /\ i \in Nat /\ j < i
    BY <1>2
  <2>3. <<j, i>> \in OpToRel(<, Nat)
    BY <2>2 DEF OpToRel
  <2> QED
    BY <1>4, <2>1, <2>3
<1>6. \E k \in DOMAIN s.users :
        /\ s.users[k] \in U
        /\ \A j \in 1 .. k - 1 : s.users[j] \notin U
  BY <1>5
<1>7. FirstOf(s, U) \in U
  BY <1>6 DEF FirstOf
<1>8. \A k \in DOMAIN s.users : s.users[k] \in Accounts
  BY <1>1, ElementOfSeq
<1> QED
  BY <1>7, <1>8 DEF UsersOf

(* What a call reads of a user. *)
LEMMA RowRead ==
  ASSUME NEW s \in Stores, NEW u \in Accounts
  PROVE  /\ Row(s, u) \in Reading
         /\ Row(s, u).user = u /\ Row(s, u).status = s.status[u]
         /\ Row(s, u).secret = s.secret[u]
<1>1. s.status[u] \in Statuses /\ s.secret[u] \in Setups \cup {NoSecret}
  BY StoreFields
<1> QED
  BY <1>1 DEF Row, Reading

(* What a call has read: nothing, or a row of the stores it holds. *)
LEMMA GotMoves ==
  ASSUME TypeOK, NEW c \in Calls, Own(c)
  PROVE  \/ got' = got
         \/ got' = [got EXCEPT ![c] = NothingRead]
         \/ \E s \in Stores, u \in Accounts : got' = [got EXCEPT ![c] = Row(s, u)]
<1> HIDE DEF Stores
<1>1. Latest \in Stores /\ Held(c) \in Stores
  BY StoresHeld
<1>2. ASSUME NEW s \in Stores, NEW of, NEW otherwise, Find(c, s, of, otherwise)
      PROVE  got' = got \/ \E u \in Accounts : got' = [got EXCEPT ![c] = Row(s, u)]
  <2> DEFINE U == Holders(s, of, IdOf[c])
  <2>1. CASE U = {}
    BY <1>2, <2>1 DEF Find
  <2>2. CASE U # {}
    <3>1. U \in SUBSET UsersOf(s)
      BY DEF Holders
    <3>2. FirstOf(s, U) \in Accounts
      BY <2>2, <3>1, FirstIsOne
    <3>3. got' = [got EXCEPT ![c] = Row(s, FirstOf(s, U))]
      BY <1>2, <2>2 DEF Find
    <3> QED
      BY <3>2, <3>3
  <2> QED
    BY <2>1, <2>2
<1>3. ASSUME Reads(c), UserOf[c] \in Accounts
      PROVE  got' = [got EXCEPT ![c] = Row(Latest, UserOf[c])]
  BY <1>3 DEF Reads
<1>4. ASSUME NEW where, Ends(c, where)
      PROVE  got' = [got EXCEPT ![c] = NothingRead]
  BY <1>4 DEF Ends
<1>5. CASE c \in Registrations /\ OfRegistration(c)
  BY <1>5 DEF OfRegistration, StartRegister, LookPhone, Create
<1>6. CASE c \in Logins /\ OfLogin(c)
  <2>1. CASE StartLogin(c)
    BY <1>1, <1>2, <2>1 DEF StartLogin
  <2>2. CASE FindByPhone(c)
    BY <1>1, <1>2, <2>2 DEF FindByPhone
  <2>3. CASE LogIn(c) \/ RefuseLogin(c)
    BY <1>4, <2>3 DEF LogIn, RefuseLogin
  <2> QED
    BY <1>6, <2>1, <2>2, <2>3 DEF OfLogin
<1>7. CASE c \in Setups /\ OfSetup(c)
  <2>1. UserOf[c] \in Accounts
    BY <1>7, CallFacts
  <2> QED
    BY <1>1, <1>3, <1>4, <1>7, <2>1 DEF OfSetup, StartSetup, WriteSecret, KeepCodes
<1>8. CASE c \in Enables /\ OfEnable(c)
  <2>1. UserOf[c] \in Accounts
    BY <1>8, CallFacts
  <2> QED
    BY <1>1, <1>3, <1>4, <1>8, <2>1 DEF OfEnable, StartEnable, Enable, RefuseEnable
<1>9. CASE c \in StatusCalls /\ OfStatus(c)
  <2>1. UserOf[c] \in Accounts
    BY <1>9, CallFacts
  <2> QED
    BY <1>1, <1>3, <1>4, <1>9, <2>1 DEF OfStatus, OfKyc, StartStatusCall, SelfExclude, CoolOff,
       Process, OpenCase, SuspendSanctioned
<1>10. CASE c \in Sessions /\ RecordSession(c)
  BY <1>10 DEF RecordSession
<1>11. CASE c \in Wagers /\ OfWager(c)
  BY <1>4, <1>11 DEF OfWager, BeginWager, CheckAccount, AcceptWager, RefuseWager
<1> QED
  BY <1>5, <1>6, <1>7, <1>8, <1>9, <1>10, <1>11 DEF Own

(* Who changes what the services keep themselves. *)
LEMMA RestMoves ==
  ASSUME NEW c \in Calls, Own(c)
  PROVE  /\ \/ UNCHANGED <<session, codes>>
            \/ c \in Logins /\ LogIn(c)
            \/ c \in Setups /\ KeepCodes(c)
         /\ UNCHANGED profiles \/ (c \in Sessions /\ RecordSession(c))
         /\ UNCHANGED overlap \/ (c \in Registrations /\ StartRegister(c))
         /\ UNCHANGED saved \/ c \in Wagers
<1>1. CASE c \in Registrations /\ OfRegistration(c)
  BY <1>1 DEF OfRegistration, StartRegister, LookPhone, Create, ghostVars
<1>2. CASE c \in Logins /\ OfLogin(c)
  <2>1. CASE LogIn(c)
    <3>1. UNCHANGED profiles /\ UNCHANGED overlap /\ UNCHANGED saved
      BY <2>1 DEF LogIn
    <3> QED
      BY <1>2, <2>1, <3>1
  <2>2. CASE StartLogin(c)
    BY <2>2 DEF StartLogin
  <2>3. CASE FindByPhone(c) \/ RefuseLogin(c)
    BY <2>3 DEF FindByPhone, RefuseLogin, ghostVars
  <2> QED
    BY <1>2, <2>1, <2>2, <2>3 DEF OfLogin
<1>3. CASE c \in Setups /\ OfSetup(c)
  <2>1. CASE KeepCodes(c)
    <3>1. UNCHANGED profiles /\ UNCHANGED overlap /\ UNCHANGED saved
      BY <2>1 DEF KeepCodes
    <3> QED
      BY <1>3, <2>1, <3>1
  <2>2. CASE StartSetup(c) \/ WriteSecret(c)
    BY <2>2 DEF StartSetup, WriteSecret, ghostVars
  <2> QED
    BY <1>3, <2>1, <2>2 DEF OfSetup
<1>4. CASE c \in Enables /\ OfEnable(c)
  BY <1>4 DEF OfEnable, StartEnable, Enable, RefuseEnable
<1>5. CASE c \in StatusCalls /\ OfStatus(c)
  BY <1>5 DEF OfStatus, OfKyc, StartStatusCall, SelfExclude, CoolOff, Process, OpenCase,
     SuspendSanctioned, ghostVars
<1>6. CASE c \in Sessions /\ RecordSession(c)
  <2>1. UNCHANGED <<session, codes>> /\ UNCHANGED overlap /\ UNCHANGED saved
    BY <1>6 DEF RecordSession
  <2> QED
    BY <1>6, <2>1
<1>7. CASE c \in Wagers /\ OfWager(c)
  BY <1>7 DEF OfWager, BeginWager, CheckAccount, AcceptWager, RefuseWager, ghostVars
<1> QED
  BY <1>1, <1>2, <1>3, <1>4, <1>5, <1>6, <1>7 DEF Own

(* What a step leaves of a call. *)
LEMMA CallFrame ==
  ASSUME TypeOK, [Next]_vars, NEW d \in Calls
  PROVE  /\ (pc'[d] = pc[d] /\ got'[d] = got[d]) \/ Own(d)
         /\ pc[d] # "idle" => /\ ctx'[d] = ctx[d] /\ pc'[d] # "idle"
                              /\ \A u \in Seeded : known'[d][u] \in {known[d][u], "NONE"}
         /\ pc[d] \in {"done", "refused"} => pc'[d] = pc[d]
         /\ pc'[d] = "idle" => pc[d] = "idle" /\ known'[d] = known[d]
         /\ d \in InFlight' /\ d \notin InFlight => Starts(d) /\ pc[d] = "idle"
<1>1. CASE UNCHANGED vars
  <2>1. pc' = pc /\ got' = got /\ ctx' = ctx /\ known' = known
    BY <1>1 DEF vars, callVars, ghostVars
  <2> QED
    BY <2>1 DEF InFlight
<1>2. CASE Next
  <2>1. PICK c \in Calls : Own(c)
    BY <1>2, OneCall
  <2>2. PICK where \in Places : Moves(c, where)
    BY <2>1, CallMoves
  <2>3. Starts(c) \/ Continues(c)
    BY <2>1, CallMoves
  <2>4. /\ pc \in [Calls -> Places \cup {"idle"}] /\ got \in [Calls -> Reading]
        /\ ctx \in [Calls -> 1 .. Len(db)]
        /\ known \in [Calls -> [Seeded -> Statuses \cup {"NONE"}]]
    BY DEF TypeOK, Places
  <2>5. \A e \in Calls : e # c => got'[e] = got[e]
    BY <2>1, <2>4, GotMoves
  <2>6. \A e \in Calls : e # c => pc'[e] = pc[e]
    BY <2>2, <2>4 DEF Moves
  <2>7. pc'[c] = where /\ where # "idle"
    BY <2>2, <2>4 DEF Moves
  <2>8. \A e \in Calls : pc[e] # "idle" => ctx'[e] = ctx[e]
    BY <2>3, <2>4 DEF Starts, Continues
  <2>9. ASSUME NEW e \in Calls
         PROVE  /\ e # c /\ pc[e] = "idle" => known'[e] = known[e]
                /\ pc[e] # "idle" => \A u \in Seeded : known'[e][u] \in {known[e][u], "NONE"}
    <3>1. CASE known' = known
      BY <3>1
    <3>2. CASE pc[c] = "idle" /\ known' = [known EXCEPT ![c] = firm]
      BY <2>4, <3>2
    <3>3. CASE StartStatusCall(c) /\ pc[c] = "idle"
      <4>1. known' = [x \in Calls |-> IF x \in InFlight
                        THEN [known[x] EXCEPT ![UserOf[c]] = "NONE"] ELSE known[x]]
        BY <3>3 DEF StartStatusCall
      <4>2. known'[e] = IF e \in InFlight THEN [known[e] EXCEPT ![UserOf[c]] = "NONE"]
                                          ELSE known[e]
        BY <4>1
      <4>3. pc[e] = "idle" => e \notin InFlight
        BY DEF InFlight
      <4> QED
        BY <2>4, <4>2, <4>3
    <3> QED
      BY <2>3, <3>1, <3>2, <3>3 DEF Starts, Continues
  <2>10. CASE d # c
    <3>1. pc'[d] = pc[d] /\ got'[d] = got[d]
      BY <2>5, <2>6, <2>10
    <3>2. d \in InFlight' => d \in InFlight
      BY <3>1 DEF InFlight
    <3> QED
      BY <2>8, <2>9, <2>10, <3>1, <3>2
  <2>11. CASE d = c
    <3>1. Own(d) /\ pc'[d] # "idle"
      BY <2>1, <2>7, <2>11
    <3>2. pc[d] \notin {"done", "refused"}
      BY <2>3, <2>11 DEF Starts, Continues, InFlight
    <3>3. d \notin InFlight => Starts(d) /\ pc[d] = "idle"
      BY <2>3, <2>11 DEF Starts, Continues
    <3> QED
      BY <2>8, <2>9, <3>1, <3>2, <3>3
  <2> QED
    BY <2>10, <2>11
<1> QED
  BY <1>1, <1>2

(* A call takes the steps of its kind. *)
LEMMA OwnKind ==
  ASSUME NEW c \in Calls, Own(c)
  PROVE  /\ c \in Registrations => OfRegistration(c)
         /\ c \in Logins => OfLogin(c)
         /\ c \in Setups => OfSetup(c)
         /\ c \in Wagers => OfWager(c)
BY KindsDisjoint DEF Own

(* Transactions wait for each other, and every one that throws leaves the  *)
(* stores it found behind.                                                 *)
LEMMA WagerStep ==
  ASSUME TypeOK, OneWager, [Next]_vars
  PROVE  OneWager'
<1> DEFINE R == {w \in Wagers : pc[w] = "refused"}
<1>1. CASE UNCHANGED vars
  <2>1. pc' = pc /\ db' = db /\ saved' = saved
    BY <1>1 DEF vars, callVars
  <2> QED
    BY <2>1 DEF OneWager
<1>2. CASE Next
  <2>1. PICK c \in Calls : Own(c)
    BY <1>2, OneCall
  <2>2. PICK where \in Places : Moves(c, where)
    BY <2>1, CallMoves
  <2>3. \A e \in Calls : pc'[e] = IF e = c THEN where ELSE pc[e]
    BY <2>2 DEF Moves, TypeOK
  <2>4. Wagers \subseteq Calls
    BY CallFacts
  <2>5. CASE c \notin Wagers
    <3>1. \A w \in Wagers : pc'[w] = pc[w]
      BY <2>3, <2>4, <2>5
    <3>2. saved' = saved
      BY <2>1, <2>5, RestMoves
    <3>3. ~ \E w \in Wagers : RefuseWager(w)
      <4> SUFFICES ASSUME NEW w \in Wagers, RefuseWager(w)
                   PROVE  FALSE
        OBVIOUS
      <4>1. pc'[w] = "refused" /\ pc[w] # "refused"
        BY <2>4 DEF RefuseWager, Ends, Go, TypeOK
      <4> QED
        BY <3>1, <4>1
    <3>4. Len(db') = Len(db)
      BY <3>3, StoresMove DEF Written
    <3> QED
      BY <3>1, <3>2, <3>4 DEF OneWager
  <2>6. CASE c \in Wagers /\ BeginWager(c)
    <3>1. /\ pc[c] = "idle" /\ pc'[c] = "begun" /\ saved = <<>> /\ saved' = <<Latest>>
          /\ db' = db
      BY <2>4, <2>6 DEF BeginWager, Begins, Takes, Go, TypeOK
    <3>2. \A w \in Wagers : pc[w] \notin Placing
      BY <3>1 DEF OneWager
    <3>3. \A w \in Wagers : pc'[w] = "refused" <=> pc[w] = "refused"
      BY <2>3, <2>4, <3>1
    <3>4. \A w \in Wagers : pc'[w] \in Placing => w = c
      BY <2>3, <2>4, <3>2
    <3> QED
      BY <3>1, <3>3, <3>4 DEF OneWager
  <2>7. CASE c \in Wagers /\ CheckAccount(c)
    <3>1. /\ pc[c] = "begun" /\ pc'[c] \in {"checked", "unfit"} /\ saved' = saved /\ db' = db
      BY <2>4, <2>7 DEF CheckAccount, Go, TypeOK
    <3>2. \A w \in Wagers : /\ pc'[w] = "refused" <=> pc[w] = "refused"
                            /\ pc'[w] \in Placing <=> pc[w] \in Placing
      BY <2>3, <2>4, <3>1 DEF Placing
    <3> QED
      BY <3>1, <3>2 DEF OneWager
  <2>8. CASE c \in Wagers /\ AcceptWager(c)
    <3>1. /\ pc[c] = "checked" /\ pc'[c] = "done" /\ db' = db
      BY <2>4, <2>8 DEF AcceptWager, Ends, Go, TypeOK
    <3>2. \A w \in Wagers : w # c => pc[w] \notin Placing
      BY <2>8, <3>1 DEF OneWager, Placing
    <3>3. \A w \in Wagers : /\ pc'[w] = "refused" <=> pc[w] = "refused"
                            /\ pc'[w] \notin Placing
      BY <2>3, <2>4, <3>1, <3>2 DEF Placing
    <3> QED
      BY <3>1, <3>3 DEF OneWager
  <2>9. CASE c \in Wagers /\ RefuseWager(c)
    <3>1. /\ pc[c] \in Placing /\ pc[c] # "refused" /\ pc'[c] = "refused"
          /\ db' = Append(db, saved[1])
      BY <2>4, <2>9 DEF RefuseWager, Ends, Go, TypeOK, Placing
    <3>2. \A w \in Wagers : w # c => pc[w] \notin Placing
      BY <2>9, <3>1 DEF OneWager
    <3>3. \A w \in Wagers : pc'[w] \notin Placing
      BY <2>3, <2>4, <3>1, <3>2 DEF Placing
    <3>4. {w \in Wagers : pc'[w] = "refused"} = R \cup {c}
      BY <2>3, <2>4, <2>9, <3>1
    <3>5. IsFiniteSet(R) /\ c \notin R
      BY <3>1, AccountAssumption, FS_Subset
    <3>6. Cardinality(R \cup {c}) = Cardinality(R) + 1
      BY <3>5, FS_AddElement
    <3>7. Len(db') = Len(db) + 1
      <4>1. saved # <<>>
        BY <2>9, <3>1 DEF OneWager
      <4>2. saved[1] \in Stores /\ db \in Seq(Stores)
        BY <4>1, StoresHeld DEF TypeOK
      <4> QED
        BY <3>1, <4>2, AppendProperties
    <3>8. Len(db) = Cardinality(R) + 1
      BY DEF OneWager
    <3>9. Len(db') = Cardinality({w \in Wagers : pc'[w] = "refused"}) + 1
      BY <3>4, <3>6, <3>7, <3>8
    <3> QED
      BY <3>3, <3>9 DEF OneWager
  <2> QED
    BY <2>1, <2>5, <2>6, <2>7, <2>8, <2>9, OwnKind DEF OfWager
<1> QED
  BY <1>1, <1>2

-----------------------------------------------------------------------------
(* A login that has read a user has read one there is. *)
ReadSomeone == \A l \in Logins : pc[l] = "read" => got[l].user \in Accounts

(* Who is found is a user of the stores that were searched. *)
LEMMA FindFacts ==
  ASSUME TypeOK, NEW l \in Logins, NEW s \in Stores, NEW of, NEW otherwise,
         Find(l, s, of, otherwise), otherwise # "read", pc'[l] = "read"
  PROVE  \E u \in Accounts : got'[l] = Row(s, u)
<1> DEFINE U == Holders(s, of, IdOf[l])
<1>1. l \in Calls
  BY CallFacts
<1>2. CASE U = {}
  <2>1. pc'[l] = otherwise
    BY <1>1, <1>2 DEF Find, Go, TypeOK
  <2> QED
    BY <2>1
<1>3. CASE U # {}
  <2>1. U \in SUBSET UsersOf(s)
    BY DEF Holders
  <2>2. FirstOf(s, U) \in Accounts
    BY <1>3, <2>1, FirstIsOne
  <2>3. got'[l] = Row(s, FirstOf(s, U))
    BY <1>1, <1>3 DEF Find, TypeOK
  <2> QED
    BY <2>2, <2>3
<1> QED
  BY <1>2, <1>3

(* A login that has read has read somebody. *)
LEMMA SomeoneStep ==
  ASSUME TypeOK, ReadSomeone, [Next]_vars
  PROVE  ReadSomeone'
<1> SUFFICES ASSUME NEW l \in Logins, pc'[l] = "read"
             PROVE  got'[l].user \in Accounts
  BY DEF ReadSomeone
<1>1. l \in Calls
  BY CallFacts
<1>2. CASE pc'[l] = pc[l] /\ got'[l] = got[l]
  BY <1>2 DEF ReadSomeone
<1>3. CASE Own(l)
  <2>1. OfLogin(l)
    BY <1>1, <1>3, OwnKind
  <2> HIDE DEF Stores
  <2>3. Latest \in Stores /\ Held(l) \in Stores
    BY <1>1, StoresHeld
  <2>4. CASE StartLogin(l)
    <3>1. \E u \in Accounts : got'[l] = Row(Latest, u)
      BY <2>3, <2>4, FindFacts DEF StartLogin
    <3> QED
      BY <2>3, <3>1, RowRead
  <2>5. CASE FindByPhone(l)
    <3>1. \E u \in Accounts : got'[l] = Row(Held(l), u)
      BY <2>3, <2>5, FindFacts DEF FindByPhone
    <3> QED
      BY <2>3, <3>1, RowRead
  <2>6. CASE LogIn(l) \/ RefuseLogin(l)
    <3>1. pc'[l] \in {"done", "refused"}
      BY <1>1, <2>6 DEF LogIn, RefuseLogin, Ends, Go, TypeOK
    <3> QED
      BY <3>1
  <2> QED
    BY <2>1, <2>4, <2>5, <2>6 DEF OfLogin
<1> QED
  BY <1>1, <1>2, <1>3, CallFrame

(* The stores keep their types; there are no more of them than placements  *)
(* that could be refused.                                                  *)
LEMMA StoresType ==
  ASSUME TypeOK, OneWager, [Next]_vars
  PROVE  /\ db' \in Seq(Stores) /\ Len(db') \in 1 .. Cardinality(Wagers) + 1
         /\ Len(db) <= Len(db') /\ Len(db') \in Nat
         /\ saved' \in Seq(Stores)
         /\ undone' \subseteq Cases
<1> HIDE DEF Stores
<1>1. /\ db \in Seq(Stores) /\ Len(db) \in Nat /\ Len(db) >= 1 /\ Latest \in Stores
      /\ saved # <<>> => saved[1] \in Stores
      /\ saved \in Seq(Stores) /\ undone \subseteq Cases
  BY StoresHeld DEF TypeOK
<1>2. /\ db' \in Seq(Stores) /\ saved' \in Seq(Stores) /\ undone' \subseteq Cases
      /\ Len(db') = Len(db) \/ Len(db') = Len(db) + 1
  <2>1. CASE Written
    <3>1. <<>> \in Seq(Stores) /\ <<Latest>> \in Seq(Stores)
      BY <1>1
    <3> QED
      BY <1>1, <2>1, <3>1 DEF Written
  <2>2. CASE PutBack
    <3>1. /\ Append(db, saved[1]) \in Seq(Stores)
          /\ Len(Append(db, saved[1])) = Len(db) + 1
      BY <1>1, <2>2, AppendProperties DEF PutBack
    <3>2. Latest.cases \in SUBSET Cases
      BY <1>1, StoreFields
    <3>3. <<>> \in Seq(Stores)
      OBVIOUS
    <3> QED
      BY <1>1, <2>2, <3>1, <3>2, <3>3 DEF PutBack
  <2> QED
    BY <2>1, <2>2, StoresMove
<1>3. Len(db') = Cardinality({w \in Wagers : pc'[w] = "refused"}) + 1
  BY WagerStep DEF OneWager
<1>4. /\ Cardinality({w \in Wagers : pc'[w] = "refused"}) <= Cardinality(Wagers)
      /\ Cardinality(Wagers) \in Nat
      /\ Cardinality({w \in Wagers : pc'[w] = "refused"}) \in Nat
  <2>1. IsFiniteSet(Wagers)
    BY AccountAssumption
  <2>2. {w \in Wagers : pc'[w] = "refused"} \in SUBSET Wagers
    OBVIOUS
  <2> QED
    BY <2>1, <2>2, FS_Subset, FS_CardinalityType
<1> QED
  BY <1>1, <1>2, <1>3, <1>4

(* Places, readings and history keep their types. *)
LEMMA CallType ==
  ASSUME TypeOK, OneWager, [Next]_vars
  PROVE  /\ pc' \in [Calls -> Places \cup {"idle"}]
         /\ ctx' \in [Calls -> 1 .. Len(db')]
         /\ got' \in [Calls -> Reading]
         /\ firm' \in [Seeded -> Statuses \cup {"NONE"}]
         /\ known' \in [Calls -> [Seeded -> Statuses \cup {"NONE"}]]
<1>1. /\ pc \in [Calls -> Places \cup {"idle"}] /\ ctx \in [Calls -> 1 .. Len(db)]
      /\ got \in [Calls -> Reading] /\ firm \in [Seeded -> Statuses \cup {"NONE"}]
      /\ known \in [Calls -> [Seeded -> Statuses \cup {"NONE"}]]
      /\ Len(db) \in Nat /\ Len(db) >= 1
  BY StoresHeld DEF TypeOK, Places
<1>2. Len(db) <= Len(db') /\ Len(db') \in Nat
  BY StoresType
<1>3. CASE UNCHANGED vars
  <2>1. /\ pc' = pc /\ ctx' = ctx /\ got' = got /\ firm' = firm /\ known' = known
        /\ db' = db
    BY <1>3 DEF vars, callVars, ghostVars
  <2> QED
    BY <1>1, <2>1
<1>4. CASE Next
  <2>1. PICK c \in Calls : Own(c)
    BY <1>4, OneCall
  <2>2. PICK where \in Places : Moves(c, where)
    BY <2>1, CallMoves
  <2>3. pc' \in [Calls -> Places \cup {"idle"}]
    BY <1>1, <2>2 DEF Moves
  <2>4. Starts(c) \/ Continues(c)
    BY <2>1, CallMoves
  <2>5. ctx' \in [Calls -> 1 .. Len(db')]
    <3>1. ctx' = ctx \/ ctx' = [ctx EXCEPT ![c] = Len(db)]
      BY <2>4 DEF Starts, Continues
    <3>2. 1 .. Len(db) \subseteq 1 .. Len(db') /\ Len(db) \in 1 .. Len(db')
      BY <1>1, <1>2
    <3> QED
      BY <1>1, <3>1, <3>2
  <2>6. got' \in [Calls -> Reading]
    <3>1. NothingRead \in Reading
      BY DEF NothingRead, Reading, Statuses
    <3>2. CASE got' = got
      BY <1>1, <3>2
    <3>3. CASE got' = [got EXCEPT ![c] = NothingRead]
      BY <1>1, <3>1, <3>3
    <3>4. CASE \E s \in Stores, u \in Accounts : got' = [got EXCEPT ![c] = Row(s, u)]
      <4>1. PICK s \in Stores, u \in Accounts : got' = [got EXCEPT ![c] = Row(s, u)]
        BY <3>4
      <4>2. Row(s, u) \in Reading
        BY RowRead
      <4> QED
        BY <1>1, <4>1, <4>2
    <3> QED
      BY <2>1, <3>2, <3>3, <3>4, GotMoves
  <2>7. /\ firm' \in [Seeded -> Statuses \cup {"NONE"}]
        /\ known' \in [Calls -> [Seeded -> Statuses \cup {"NONE"}]]
    <3>1. CASE firm' = firm /\ known' = [known EXCEPT ![c] = firm]
      BY <1>1, <3>1
    <3>2. CASE StartStatusCall(c)
      <4>1. firm' = [firm EXCEPT ![UserOf[c]] = "NONE"]
        BY <3>2 DEF StartStatusCall
      <4>2. known' = [d \in Calls |-> IF d \in InFlight
                        THEN [known[d] EXCEPT ![UserOf[c]] = "NONE"] ELSE known[d]]
        BY <3>2 DEF StartStatusCall
      <4>3. \A d \in Calls : /\ known[d] \in [Seeded -> Statuses \cup {"NONE"}]
                             /\ [known[d] EXCEPT ![UserOf[c]] = "NONE"]
                                  \in [Seeded -> Statuses \cup {"NONE"}]
        BY <1>1
      <4> QED
        BY <1>1, <4>1, <4>2, <4>3
    <3>3. CASE Continues(c)
      <4>1. known' = known
        BY <3>3 DEF Continues
      <4>2. firm' = firm \/ \E x \in Statuses : WriteStatus(c, x)
        BY <3>3 DEF Continues
      <4>3. CASE \E x \in Statuses : WriteStatus(c, x)
        <5>1. PICK x \in Statuses : WriteStatus(c, x)
          BY <4>3
        <5>2. \/ firm' = [firm EXCEPT ![UserOf[c]] = x]
              \/ firm' = [firm EXCEPT ![UserOf[c]] = "NONE"]
          BY <5>1 DEF WriteStatus
        <5> QED
          BY <1>1, <4>1, <5>2
      <4> QED
        BY <1>1, <4>1, <4>2, <4>3
    <3> QED
      BY <2>4, <3>1, <3>2, <3>3 DEF Starts
  <2> QED
    BY <2>3, <2>5, <2>6, <2>7
<1> QED
  BY <1>3, <1>4

(* The codes, sessions and profiles. *)
LEMMA LogInFacts ==
  ASSUME TypeOK, ReadSomeone, NEW l \in Logins, LogIn(l)
  PROVE  \E factor \in Factors :
           /\ Admits(l, factor)
           /\ got[l].user \in Accounts /\ got[l].status \notin Locked
           /\ session' = [session EXCEPT ![l] = {[user |-> got[l].user, factor |-> factor,
                                                   needed |-> NeedsFactor(l)]}]
           /\ NeedsFactor(l) \in BOOLEAN
           /\ \/ factor[1] # "code" /\ codes' = codes
              \/ /\ factor[1] = "code" /\ factor[2] \in Codes /\ got[l].user \in Seeded
                 /\ factor[2] \in codes[got[l].user]
                 /\ codes' = [codes EXCEPT ![got[l].user] =
                                codes[got[l].user] \ {factor[2]}]
           /\ factor[1] = "totp" => factor[2] \in Setups
<1>1. l \in Calls /\ pc[l] = "read" /\ got[l].status \notin Locked
  BY CallFacts DEF LogIn
<1>2. got[l].user \in Accounts /\ got[l].enabled \in BOOLEAN
  BY <1>1 DEF ReadSomeone, TypeOK, Reading
<1>3. PICK factor \in Factors :
        /\ Admits(l, factor)
        /\ session' = [session EXCEPT ![l] =
             {[user |-> got[l].user, factor |-> factor,
               needed |-> got[l].enabled \/ l \in Privileged]}]
        /\ codes' = IF factor[1] = "code"
                    THEN [codes EXCEPT ![got[l].user] = Remaining(got[l].user, factor)]
                    ELSE codes
  BY DEF LogIn
<1>4. NeedsFactor(l) \in BOOLEAN /\ NeedsFactor(l) = (got[l].enabled \/ l \in Privileged)
  BY <1>2 DEF NeedsFactor
<1>5. /\ factor[1] = "code" => factor[2] \in Codes
      /\ factor[1] = "totp" => factor[2] \in Setups
  BY DEF Factors
<1>6. CASE factor[1] = "code"
  <2>1. NeedsFactor(l)
    BY <1>3, <1>6 DEF Admits
  <2>2. factor[2] \in CodesOf(got[l].user)
    BY <1>3, <1>6, <2>1 DEF Admits
  <2>3. got[l].user \in Seeded /\ CodesOf(got[l].user) = codes[got[l].user]
    BY <2>2 DEF CodesOf
  <2>4. codes' = [codes EXCEPT ![got[l].user] = codes[got[l].user] \ {factor[2]}]
    BY <1>3, <1>6, <2>3 DEF Remaining
  <2> QED
    BY <1>1, <1>2, <1>3, <1>4, <1>5, <1>6, <2>2, <2>3, <2>4
<1>7. CASE factor[1] # "code"
  BY <1>1, <1>2, <1>3, <1>4, <1>5, <1>7
<1> QED
  BY <1>6, <1>7

(* The Maps beside the stores keep their types. *)
LEMMA KeptType ==
  ASSUME TypeOK, ReadSomeone, [Next]_vars
  PROVE  /\ codes' \in [Seeded -> SUBSET Codes]
         /\ \A u \in Seeded, k \in Codes : k \in codes'[u] => UserOf[k[1]] = u
         /\ profiles' \in [Seeded -> SUBSET Profile]
         /\ \A u \in Seeded : Cardinality(profiles'[u]) <= 1
         /\ session' \in [Logins -> SUBSET [user: Accounts, factor: Factors, needed: BOOLEAN]]
         /\ overlap' \subseteq SUBSET Registrations
<1>1. /\ codes \in [Seeded -> SUBSET Codes]
      /\ \A u \in Seeded, k \in Codes : k \in codes[u] => UserOf[k[1]] = u
      /\ profiles \in [Seeded -> SUBSET Profile]
      /\ \A u \in Seeded : Cardinality(profiles[u]) <= 1
      /\ session \in [Logins -> SUBSET [user: Accounts, factor: Factors, needed: BOOLEAN]]
      /\ overlap \subseteq SUBSET Registrations
  BY DEF TypeOK
<1>2. CASE UNCHANGED vars
  BY <1>1, <1>2 DEF vars, ghostVars
<1>3. CASE Next
  <2>1. PICK c \in Calls : Own(c)
    BY <1>3, OneCall
  <2>2. /\ codes' \in [Seeded -> SUBSET Codes]
        /\ \A u \in Seeded, k \in Codes : k \in codes'[u] => UserOf[k[1]] = u
        /\ session' \in [Logins -> SUBSET [user: Accounts, factor: Factors, needed: BOOLEAN]]
    <3>1. CASE UNCHANGED <<session, codes>>
      BY <1>1, <3>1
    <3>2. CASE c \in Logins /\ LogIn(c)
      <4>1. PICK factor \in Factors :
           /\ got[c].user \in Accounts /\ NeedsFactor(c) \in BOOLEAN
           /\ session' = [session EXCEPT ![c] = {[user |-> got[c].user, factor |-> factor,
                                                   needed |-> NeedsFactor(c)]}]
           /\ \/ codes' = codes
              \/ /\ got[c].user \in Seeded
                 /\ codes' = [codes EXCEPT ![got[c].user] =
                                codes[got[c].user] \ {factor[2]}]
        BY <3>2, LogInFacts
      <4>2. {[user |-> got[c].user, factor |-> factor, needed |-> NeedsFactor(c)]}
              \in SUBSET [user: Accounts, factor: Factors, needed: BOOLEAN]
        BY <4>1
      <4>3. session' \in [Logins -> SUBSET [user: Accounts, factor: Factors, needed: BOOLEAN]]
        BY <1>1, <4>1, <4>2
      <4>4. CASE codes' = codes
        BY <1>1, <4>3, <4>4
      <4>5. CASE /\ got[c].user \in Seeded
                 /\ codes' = [codes EXCEPT ![got[c].user] =
                                codes[got[c].user] \ {factor[2]}]
        <5>1. /\ codes' \in [Seeded -> SUBSET Codes]
              /\ \A u \in Seeded : codes'[u] \subseteq codes[u]
          BY <1>1, <4>5
        <5> QED
          BY <1>1, <4>3, <5>1
      <4> QED
        BY <4>1, <4>4, <4>5
    <3>3. CASE c \in Setups /\ KeepCodes(c)
      <4> DEFINE K == {c} \X (1 .. CodesPerSetup)
      <4>1. UserOf[c] \in Seeded /\ session' = session
        BY <3>3, CallFacts DEF KeepCodes
      <4>2. codes' = [codes EXCEPT ![UserOf[c]] = K]
        BY <3>3 DEF KeepCodes
      <4>3. K \subseteq Codes /\ \A k \in K : k[1] = c
        BY <3>3 DEF Codes
      <4> HIDE DEF K
      <4>4. \A u \in Seeded : codes'[u] = IF u = UserOf[c] THEN K ELSE codes[u]
        BY <1>1, <4>2
      <4>5. codes' \in [Seeded -> SUBSET Codes]
        BY <1>1, <4>2, <4>3
      <4> QED
        BY <1>1, <4>1, <4>3, <4>4, <4>5
    <3> QED
      BY <2>1, <3>1, <3>2, <3>3, RestMoves
  <2>3. /\ profiles' \in [Seeded -> SUBSET Profile]
        /\ \A u \in Seeded : Cardinality(profiles'[u]) <= 1
    <3>1. CASE profiles' = profiles
      BY <1>1, <3>1
    <3>2. CASE c \in Sessions /\ RecordSession(c)
      <4>1. profiles' = [profiles EXCEPT ![UserOf[c]] = {ProfileFrom(c)}]
        BY <3>2 DEF RecordSession
      <4>2. ProfileFrom(c) \in Profile
        <5>1. DeviceOf[c] \in Devices /\ PayerOf[c] \in Payers \cup {NoPayer}
          BY <3>2, AccountAssumption
        <5>2. UserOf[c] \in Seeded
          BY <3>2, CallFacts
        <5>3. profiles[UserOf[c]] # {} =>
                 (CHOOSE p \in profiles[UserOf[c]] : TRUE) \in Profile
          BY <1>1, <5>2
        <5>4. profiles[UserOf[c]] # {} =>
                 (CHOOSE p \in profiles[UserOf[c]] : TRUE).payer \in Payers \cup {NoPayer}
          BY <5>3 DEF Profile
        <5> QED
          BY <5>1, <5>4 DEF ProfileFrom, Profile
      <4>3. Cardinality({ProfileFrom(c)}) = 1
        BY FS_Singleton
      <4>4. UserOf[c] \in Seeded
        BY <3>2, CallFacts
      <4> DEFINE P == {ProfileFrom(c)}
      <4>5. P \in SUBSET Profile /\ Cardinality(P) = 1 /\ Cardinality(P) <= 1
        BY <4>2, <4>3
      <4>6. profiles' = [profiles EXCEPT ![UserOf[c]] = P]
        BY <4>1
      <4> HIDE DEF P
      <4>7. \A u \in Seeded : profiles'[u] = IF u = UserOf[c] THEN P ELSE profiles[u]
        BY <1>1, <4>6
      <4> QED
        BY <1>1, <4>5, <4>6, <4>7
    <3> QED
      BY <2>1, <3>1, <3>2, RestMoves
  <2>4. overlap' \subseteq SUBSET Registrations
    <3>1. CASE overlap' = overlap
      BY <1>1, <3>1
    <3>2. CASE c \in Registrations /\ StartRegister(c)
      BY <1>1, <3>2 DEF StartRegister
    <3> QED
      BY <2>1, <3>1, <3>2, RestMoves
  <2> QED
    BY <2>2, <2>3, <2>4
<1> QED
  BY <1>2, <1>3

(* Type correctness is kept. *)
LEMMA TypeStep ==
  ASSUME TypeOK, OneWager, ReadSomeone, [Next]_vars
  PROVE  TypeOK'
BY StoresType, CallType, KeptType DEF TypeOK, Places

-----------------------------------------------------------------------------
(* The inductive invariant, a part for each of the properties.             *)

(* A firm status is that of every store in use, and stays what the calls   *)
(* have known it to be.                                                    *)
FirmStands ==
    \A u \in Seeded : firm[u] # "NONE" =>
        /\ Latest.status[u] = firm[u] /\ ~Changing(u)
        /\ saved # <<>> => saved[1].status[u] = firm[u]
KnownIsFirm ==
    \A c \in Calls, u \in Seeded :
        /\ pc[c] = "idle" => known[c][u] = "NONE"
        /\ c \in InFlight /\ known[c][u] # "NONE" =>
             known[c][u] = firm[u] /\ Held(c).status[u] = known[c][u]
ReadAsKnown ==
    \A l \in Logins : pc[l] = "read" /\ got[l].user \in Seeded =>
        known[l][got[l].user] \in {"NONE", got[l].status}
LetInUnlocked ==
    \A l \in Logins : \A s \in session[l] :
        pc[l] = "done" /\ (s.user \in Seeded => known[l][s.user] \notin Locked)
PlacedUnlocked ==
    \A w \in Wagers : pc[w] \in {"checked", "done"} =>
        known[w][UserOf[w]] \in {"NONE", "ACTIVE", "KYC_VERIFIED"}

(* A code is there when its setup is done, and gone when it was used.      *)
CodesOfDone == \A u \in Seeded, k \in Codes : k \in codes[u] => pc[k[1]] = "done"
UsedIsGone ==
    \A l \in Logins : \A s \in session[l] : s.factor[1] = "code" =>
        /\ pc[s.factor[2][1]] = "done"
        /\ \A u \in Seeded : s.factor[2] \notin codes[u]

(* A secret is of the user who holds it. *)
OwnSecrets(s) ==
    \A u \in Accounts : s.secret[u] \in Setups => UserOf[s.secret[u]] = u
SecretsAreOwn ==
    /\ \A i \in 1 .. Len(db) : OwnSecrets(db[i])
    /\ saved # <<>> => OwnSecrets(saved[1])
    /\ \A l \in Logins : pc[l] = "read" /\ got[l].secret \in Setups =>
         UserOf[got[l].secret] = got[l].user

(* Who has registered with the same email or phone number did so at the    *)
(* same time, in every store; and a registration that has looked has found *)
(* only those.                                                             *)
ClashesOverlap(s, pairs) ==
    \A u, v \in UsersOf(s) : u # v /\ SameIdentifier(u, v) => {u, v} \in pairs
Clear(r, v, of) == of[r] # NoId /\ of[v] = of[r] => {r, v} \in overlap
RegistrationsOverlap ==
    /\ \A q, r \in Registrations \cap InFlight : q # r => {q, r} \in overlap
    /\ \A i \in 1 .. Len(db) : ClashesOverlap(db[i], overlap)
    /\ saved # <<>> => ClashesOverlap(saved[1], overlap)
    /\ \A r \in Registrations : pc[r] \in {"emailed", "phoned"} =>
         \A v \in UsersOf(Held(r)) : v # r =>
           Clear(r, v, EmailOf) /\ (pc[r] = "phoned" => Clear(r, v, PhoneOf))

IInv ==
    /\ TypeOK /\ OneWager /\ ReadSomeone
    /\ FirmStands /\ KnownIsFirm /\ ReadAsKnown /\ LetInUnlocked /\ PlacedUnlocked
    /\ CodesOfDone /\ UsedIsGone /\ CodeOnce
    /\ SecretsAreOwn /\ FactorIsShown
    /\ RegistrationsOverlap
    /\ SharingIsACase

-----------------------------------------------------------------------------
(* Where the stores of before a step are after it. *)
StoresStay ==
    /\ \A i \in 1 .. Len(db) : i \in 1 .. Len(db') /\ Evolves(i, db'[i])
    /\ \A c \in Calls : pc[c] # "idle" => Held(c)' = db'[ctx[c]] /\ Evolves(ctx[c], Held(c)')
StoresKept ==
    /\ Len(db') = Len(db) /\ Latest' = db'[Len(db)] /\ Evolves(Len(db), Latest')
    /\ undone' = undone
    /\ saved' = saved \/ saved' = <<>> \/ (saved' = <<Latest>> /\ saved'[1] = Latest)
StoresBack ==
    /\ saved # <<>> /\ saved' = <<>>
    /\ Len(db') = Len(db) + 1 /\ Latest' = saved[1] /\ db'[Len(db) + 1] = saved[1]
    /\ undone' = undone \cup (Latest.cases \ saved[1].cases)

(* No store is lost; the last one is the old last one, written to, or a    *)
(* copy of what a placement saved.                                         *)
LEMMA StoresEvolve ==
  ASSUME TypeOK, OneWager, [Next]_vars
  PROVE  StoresStay /\ (StoresKept \/ StoresBack)
<1> HIDE DEF Stores
<1>1. /\ Len(db) \in Nat /\ Len(db) >= 1 /\ Len(db) \in 1 .. Len(db) /\ db \in Seq(Stores)
      /\ saved # <<>> => saved[1] \in Stores
      /\ \A c \in Calls : ctx[c] \in 1 .. Len(db)
  BY StoresHeld DEF TypeOK
<1>2. \A c \in Calls : pc[c] # "idle" => Held(c)' = db'[ctx[c]]
  BY CallFrame DEF Held
<1>3. CASE Written
  <2>1. \A i \in 1 .. Len(db) : i \in 1 .. Len(db') /\ Evolves(i, db'[i])
    BY <1>3 DEF Written
  <2>2. Len(db') = Len(db) /\ Latest' = db'[Len(db)] /\ undone' = undone
    BY <1>3 DEF Written, Latest
  <2>3. saved' = saved \/ saved' = <<>> \/ (saved' = <<Latest>> /\ saved'[1] = Latest)
    BY <1>3 DEF Written
  <2> HIDE DEF Evolves, Latest
  <2>4. StoresKept
    BY <1>1, <2>1, <2>2, <2>3 DEF StoresKept
  <2> QED
    BY <1>1, <1>2, <2>1, <2>4 DEF StoresStay
<1>4. CASE PutBack
  <2>1. saved # <<>> /\ saved' = <<>> /\ db' = Append(db, saved[1])
    BY <1>4 DEF PutBack
  <2>2. /\ Len(db') = Len(db) + 1
        /\ \A i \in 1 .. Len(db) : db'[i] = db[i]
        /\ db'[Len(db) + 1] = saved[1]
    BY <1>1, <2>1, AppendProperties
  <2>3. \A i \in 1 .. Len(db) : i \in 1 .. Len(db')
    BY <1>1, <2>2
  <2>4. \A i \in 1 .. Len(db) : Evolves(i, db[i])
    BY DEF Evolves
  <2>5. Latest' = saved[1]
    BY <2>2 DEF Latest
  <2>6. undone' = undone \cup (Latest.cases \ saved[1].cases)
    BY <1>4 DEF PutBack
  <2> HIDE DEF Evolves, Latest
  <2>7. \A i \in 1 .. Len(db) : Evolves(i, db'[i])
    BY <2>2, <2>4
  <2> QED
    BY <1>1, <1>2, <2>1, <2>2, <2>3, <2>5, <2>6, <2>7 DEF StoresStay, StoresBack
<1> QED
  BY <1>3, <1>4, StoresMove

(* A user nobody is changing keeps the status in every store in use. *)
LEMMA StatusKept ==
  ASSUME TypeOK, OneWager, [Next]_vars, NEW u \in Seeded, ~Changing(u)
  PROVE  /\ \A c \in Calls : pc[c] # "idle" => Held(c)'.status[u] = Held(c).status[u]
         /\ StoresKept => Latest'.status[u] = Latest.status[u]
<1>1. u \in Accounts
  BY CallFacts
<1>2. StoresStay
  BY StoresEvolve
<1> QED
  BY <1>1, <1>2 DEF StoresStay, StoresKept, Evolves, Held, Latest

(* A call that begins writes no status. *)
LEMMA StartsNext ==
  ASSUME TypeOK, OneWager, [Next]_vars, NEW c \in Calls, Starts(c), Own(c)
  PROVE  StoresKept /\ Held(c)' = Latest'
<1>1. pc[c] = "idle" /\ ctx' = [ctx EXCEPT ![c] = Len(db)]
  BY DEF Starts
<1>2. ctx'[c] = Len(db)
  BY <1>1 DEF TypeOK
<1>3. StoresKept
  <2> SUFFICES ASSUME PutBack /\ \E w \in Wagers : RefuseWager(w)
               PROVE  FALSE
    <3>1. ASSUME Written
          PROVE  Len(db') = Len(db)
      BY <3>1 DEF Written
    <3>2. Len(db) \in Nat
      BY StoresHeld
    <3>3. StoresBack => Len(db') # Len(db)
      BY <3>2 DEF StoresBack
    <3> QED
      BY <3>1, <3>3, StoresMove, StoresEvolve
  <2>1. PICK w \in Wagers : RefuseWager(w)
    OBVIOUS
  <2>2. ctx' = ctx /\ w \in Calls /\ pc' = [pc EXCEPT ![w] = "refused"] /\ pc[w] # "idle"
    BY <2>1, CallFacts DEF RefuseWager, Ends, Go
  <2>3. pc'[c] # "idle"
    <3>1. PICK where \in Places : Moves(c, where)
      BY CallMoves
    <3> QED
      BY <3>1 DEF Moves, TypeOK
  <2> QED
    BY <1>1, <2>2, <2>3 DEF TypeOK
<1>4. Held(c)' = Latest'
  BY <1>2, <1>3 DEF StoresKept, Held
<1> QED
  BY <1>3, <1>4

-----------------------------------------------------------------------------
(* A call that will write a status takes what was firm with it. *)
LEMMA ChangingMoves ==
  ASSUME TypeOK, [Next]_vars, NEW d \in StatusCalls, d \in InFlight', d \notin InFlight
  PROVE  firm'[UserOf[d]] = "NONE"
<1>1. d \in Calls /\ UserOf[d] \in Seeded
  BY CallFacts
<1>2. Starts(d)
  BY <1>1, CallFrame
<1>3. StartStatusCall(d)
  BY <1>2 DEF Starts
<1> QED
  BY <1>1, <1>3 DEF StartStatusCall, TypeOK

(* How the firm status of a user moves: a call writes it alone, or not at  *)
(* all.                                                                    *)
LEMMA FirmMoves ==
  ASSUME TypeOK, [Next]_vars, NEW u \in Seeded, firm'[u] # "NONE"
  PROVE  \/ firm'[u] = firm[u]
         \/ \E c \in StatusCalls : /\ c \in InFlight /\ UserOf[c] = u /\ Alone(c)
                                   /\ pc' = [pc EXCEPT ![c] = "done"] /\ Own(c)
                                   /\ WriteStatus(c, firm'[u])
<1>1. firm \in [Seeded -> Statuses \cup {"NONE"}]
  BY DEF TypeOK
<1>2. CASE UNCHANGED vars
  BY <1>2 DEF vars, ghostVars
<1>3. CASE Next
  <2>1. PICK c \in Calls : Own(c)
    BY <1>3, OneCall
  <2>2. Starts(c) \/ Continues(c)
    BY <2>1, CallMoves
  <2>3. CASE Starts(c)
    <3>1. firm' = firm \/ firm' = [firm EXCEPT ![UserOf[c]] = "NONE"]
      BY <2>3 DEF Starts, StartStatusCall
    <3> QED
      BY <1>1, <3>1
  <2>4. CASE Continues(c)
    <3>1. CASE firm' = firm
      BY <3>1
    <3>2. CASE /\ c \in StatusCalls /\ pc' = [pc EXCEPT ![c] = "done"]
               /\ \E x \in Statuses : WriteStatus(c, x)
      <4>1. PICK x \in Statuses : WriteStatus(c, x)
        BY <3>2
      <4>2. firm' = [firm EXCEPT ![UserOf[c]] = IF Alone(c) THEN x ELSE "NONE"]
        BY <4>1 DEF WriteStatus
      <4>3. CASE u # UserOf[c] \/ ~Alone(c)
        BY <1>1, <4>2, <4>3
      <4>4. CASE u = UserOf[c] /\ Alone(c)
        <5>1. firm'[u] = x
          BY <1>1, <4>2, <4>4
        <5>2. c \in InFlight
          BY <2>4 DEF Continues
        <5> QED
          BY <2>1, <3>2, <4>1, <4>4, <5>1, <5>2
      <4> QED
        BY <4>3, <4>4
    <3> QED
      BY <2>4, <3>1, <3>2 DEF Continues
  <2> QED
    BY <2>2, <2>3, <2>4
<1> QED
  BY <1>2, <1>3

(* A status given undisturbed is in every store a call could go on with. *)
LEMMA FirmStep ==
  ASSUME TypeOK, OneWager, FirmStands, [Next]_vars
  PROVE  FirmStands'
<1> SUFFICES ASSUME NEW u \in Seeded, firm'[u] # "NONE"
             PROVE  /\ Latest'.status[u] = firm'[u] /\ ~Changing(u)'
                    /\ saved' # <<>> => saved'[1].status[u] = firm'[u]
  BY DEF FirmStands
<1>1. StoresKept \/ StoresBack
  BY StoresEvolve
<1>2. CASE firm'[u] = firm[u]
  <2>1. /\ Latest.status[u] = firm[u] /\ ~Changing(u)
        /\ saved # <<>> => saved[1].status[u] = firm[u]
    BY <1>2 DEF FirmStands
  <2>2. ~Changing(u)'
    BY <2>1, ChangingMoves DEF Changing
  <2>3. CASE StoresKept
    <3>1. Latest'.status[u] = Latest.status[u]
      BY <2>1, <2>3, StatusKept
    <3>2. saved' = saved \/ saved' = <<>> \/ (saved' = <<Latest>> /\ saved'[1] = Latest)
      BY <2>3 DEF StoresKept
    <3> HIDE DEF Latest, Changing
    <3> QED
      BY <1>2, <2>1, <2>2, <3>1, <3>2
  <2>4. CASE StoresBack
    BY <1>2, <2>1, <2>2, <2>4 DEF StoresBack
  <2> QED
    BY <1>1, <2>3, <2>4
<1>3. ASSUME NEW c \in StatusCalls, c \in InFlight, UserOf[c] = u, Alone(c),
             pc' = [pc EXCEPT ![c] = "done"], Own(c), WriteStatus(c, firm'[u])
      PROVE  /\ Latest'.status[u] = firm'[u] /\ ~Changing(u)'
             /\ saved' # <<>> => saved'[1].status[u] = firm'[u]
  <2> DEFINE n == WithStatus(Held(c), u, firm'[u])
  <2>1. saved = <<>> /\ ctx[c] = Len(db)
    BY <1>3 DEF Alone
  <2>2. saved' = <<>>
    BY <1>3, <2>1, KindsDisjoint, CallFacts, RestMoves
  <2>3. c \in Calls /\ u \in Accounts /\ firm'[u] \in Statuses
    BY CallFacts, CallType
  <2>4. Held(c) \in Stores /\ Len(db) \in 1 .. Len(db) /\ db \in Seq(Stores)
    BY <2>3, StoresHeld DEF TypeOK
  <2>5. db' = [db EXCEPT ![Len(db)] = n]
    BY <1>3, <2>1 DEF WriteStatus, Write, WithStatus
  <2>6. n \in Stores /\ n.status = [Held(c).status EXCEPT ![u] = firm'[u]]
    BY <2>3, <2>4, StatusField
  <2> HIDE DEF n, Stores
  <2>7. Len(db') = Len(db) /\ db'[Len(db)] = n
    BY <2>4, <2>5, <2>6, ExceptSeq
  <2>8. Latest' = n
    BY <2>7 DEF Latest
  <2>9. n.status[u] = firm'[u]
    BY <2>3, <2>4, <2>6, StoreFields
  <2>10. ~Changing(u)'
    <3> SUFFICES ASSUME NEW d \in StatusCalls, d \in InFlight', UserOf[d] = u
                 PROVE  FALSE
      BY DEF Changing
    <3>1. d \in InFlight
      BY ChangingMoves
    <3>2. d = c
      BY <1>3, <3>1 DEF Alone
    <3>3. pc'[c] = "done"
      BY <1>3, <2>3 DEF TypeOK
    <3> QED
      BY <3>2, <3>3 DEF InFlight
  <2> QED
    BY <2>2, <2>8, <2>9, <2>10
<1> QED
  BY <1>2, <1>3, FirmMoves

(* A firm status that is given up is no longer known to any call. *)
LEMMA FirmGivenUp ==
  ASSUME TypeOK, [Next]_vars, NEW u \in Seeded, firm'[u] # firm[u], ~Changing(u),
         NEW d \in Calls, d \in InFlight
  PROVE  known'[d][u] = "NONE"
<1>1. /\ firm \in [Seeded -> Statuses \cup {"NONE"}]
      /\ known \in [Calls -> [Seeded -> Statuses \cup {"NONE"}]]
  BY DEF TypeOK
<1>2. Next
  <2>1. UNCHANGED vars => firm' = firm
    BY DEF vars, ghostVars
  <2> QED
    BY <2>1
<1>3. PICK c \in Calls : Own(c)
  BY <1>2, OneCall
<1>4. Starts(c) \/ Continues(c)
  BY <1>3, CallMoves
<1>5. CASE Continues(c)
  <2>1. PICK x \in Statuses : c \in StatusCalls /\ c \in InFlight /\ WriteStatus(c, x)
    BY <1>5 DEF Continues
  <2>2. UserOf[c] # u
    BY <2>1 DEF Changing
  <2>3. firm'[u] = firm[u]
    BY <1>1, <2>1, <2>2 DEF WriteStatus
  <2> QED
    BY <2>3
<1>6. CASE Starts(c)
  <2>1. StartStatusCall(c)
    BY <1>6 DEF Starts
  <2>2. firm' = [firm EXCEPT ![UserOf[c]] = "NONE"]
    BY <2>1 DEF StartStatusCall
  <2>3. UserOf[c] = u
    BY <1>1, <2>2
  <2>4. known'[d] = [known[d] EXCEPT ![UserOf[c]] = "NONE"]
    BY <2>1 DEF StartStatusCall
  <2> QED
    BY <1>1, <2>3, <2>4
<1> QED
  BY <1>4, <1>5, <1>6

(* What a call knows is firm when it is known. *)
LEMMA KnownStep ==
  ASSUME TypeOK, OneWager, FirmStands, KnownIsFirm, [Next]_vars
  PROVE  KnownIsFirm'
<1> SUFFICES ASSUME NEW c \in Calls, NEW u \in Seeded
             PROVE  /\ pc'[c] = "idle" => known'[c][u] = "NONE"
                    /\ c \in InFlight' /\ known'[c][u] # "NONE" =>
                         known'[c][u] = firm'[u] /\ Held(c)'.status[u] = known'[c][u]
  BY DEF KnownIsFirm
<1>1. pc'[c] = "idle" => known'[c][u] = "NONE"
  BY CallFrame DEF KnownIsFirm
<1>2. ASSUME c \in InFlight', known'[c][u] # "NONE", c \in InFlight
      PROVE  known'[c][u] = firm'[u] /\ Held(c)'.status[u] = known'[c][u]
  <2>1. pc[c] # "idle"
    BY <1>2 DEF InFlight
  <2>2. known'[c][u] = known[c][u]
    BY <1>2, <2>1, CallFrame
  <2>3. known[c][u] = firm[u] /\ Held(c).status[u] = known[c][u] /\ firm[u] # "NONE"
    BY <1>2, <2>2 DEF KnownIsFirm
  <2>4. ~Changing(u)
    BY <2>3 DEF FirmStands
  <2>5. firm'[u] = firm[u]
    BY <1>2, <2>4, FirmGivenUp
  <2>6. Held(c)'.status[u] = Held(c).status[u]
    BY <2>1, <2>4, StatusKept
  <2> QED
    BY <2>2, <2>3, <2>5, <2>6
<1>3. ASSUME c \in InFlight', known'[c][u] # "NONE", c \notin InFlight
      PROVE  known'[c][u] = firm'[u] /\ Held(c)'.status[u] = known'[c][u]
  <2>1. Starts(c) /\ pc[c] = "idle"
    BY <1>3, CallFrame
  <2>2. Own(c)
    <3>1. pc'[c] # pc[c]
      BY <1>3 DEF InFlight
    <3> QED
      BY <3>1, CallFrame
  <2>3. ~StartStatusCall(c)
    <3> SUFFICES ASSUME StartStatusCall(c)
                 PROVE  FALSE
      OBVIOUS
    <3>1. known'[c] = known[c]
      BY <1>3 DEF StartStatusCall
    <3> QED
      BY <1>3, <2>1, <3>1 DEF KnownIsFirm
  <2>4. firm' = firm /\ known' = [known EXCEPT ![c] = firm]
    BY <2>1, <2>3 DEF Starts
  <2>5. known'[c][u] = firm[u]
    BY <2>4 DEF TypeOK
  <2>6. ~Changing(u) /\ Latest.status[u] = firm[u]
    BY <1>3, <2>5 DEF FirmStands
  <2>7. Held(c)' = Latest' /\ StoresKept
    BY <2>1, <2>2, StartsNext
  <2>8. Latest'.status[u] = Latest.status[u]
    BY <2>6, <2>7, StatusKept
  <2> QED
    BY <2>4, <2>5, <2>6, <2>7, <2>8
<1> QED
  BY <1>1, <1>2, <1>3

(* A call that reads after it began reads what it knew. *)
LEMMA ReadStep ==
  ASSUME TypeOK, OneWager, FirmStands, KnownIsFirm, ReadAsKnown, [Next]_vars
  PROVE  ReadAsKnown'
<1> SUFFICES ASSUME NEW l \in Logins, pc'[l] = "read", got'[l].user \in Seeded
             PROVE  known'[l][got'[l].user] \in {"NONE", got'[l].status}
  BY DEF ReadAsKnown
<1>1. l \in Calls
  BY CallFacts
<1>2. CASE pc'[l] = pc[l] /\ got'[l] = got[l]
  <2>1. known[l][got[l].user] \in {"NONE", got[l].status}
    BY <1>2 DEF ReadAsKnown
  <2>2. known'[l][got[l].user] \in {known[l][got[l].user], "NONE"}
    BY <1>1, <1>2, CallFrame
  <2> QED
    BY <1>2, <2>1, <2>2
<1>3. CASE Own(l)
  <2>1. OfLogin(l)
    BY <1>1, <1>3, OwnKind
  <2> HIDE DEF Stores
  <2>2. Latest \in Stores /\ Held(l) \in Stores
    BY <1>1, StoresHeld
  <2>3. CASE StartLogin(l)
    <3>1. PICK u \in Accounts : got'[l] = Row(Latest, u)
      BY <2>2, <2>3, FindFacts DEF StartLogin
    <3>2. got'[l].user = u /\ got'[l].status = Latest.status[u]
      BY <2>2, <3>1, RowRead
    <3>3. known'[l][u] = firm[u]
      BY <1>1, <2>3 DEF StartLogin, Begins, TypeOK
    <3>4. firm[u] # "NONE" => Latest.status[u] = firm[u]
      BY <3>2 DEF FirmStands
    <3> QED
      BY <3>2, <3>3, <3>4
  <2>4. CASE FindByPhone(l)
    <3>1. PICK u \in Accounts : got'[l] = Row(Held(l), u)
      BY <2>2, <2>4, FindFacts DEF FindByPhone
    <3>2. got'[l].user = u /\ got'[l].status = Held(l).status[u]
      BY <2>2, <3>1, RowRead
    <3>3. known' = known /\ l \in InFlight
      BY <1>1, <2>4 DEF FindByPhone, ghostVars, InFlight
    <3>4. known[l][u] # "NONE" => Held(l).status[u] = known[l][u]
      BY <1>1, <3>2, <3>3 DEF KnownIsFirm
    <3> QED
      BY <3>2, <3>3, <3>4
  <2>5. CASE LogIn(l) \/ RefuseLogin(l)
    <3>1. pc'[l] \in {"done", "refused"}
      BY <1>1, <2>5 DEF LogIn, RefuseLogin, Ends, Go, TypeOK
    <3> QED
      BY <3>1
  <2> QED
    BY <2>1, <2>3, <2>4, <2>5 DEF OfLogin
<1> QED
  BY <1>1, <1>2, <1>3, CallFrame

(* No placement is accepted of an account it knew locked. *)
LEMMA PlacedStep ==
  ASSUME TypeOK, KnownIsFirm, PlacedUnlocked, [Next]_vars
  PROVE  PlacedUnlocked'
<1> SUFFICES ASSUME NEW w \in Wagers, pc'[w] \in {"checked", "done"}
             PROVE  known'[w][UserOf[w]] \in {"NONE", "ACTIVE", "KYC_VERIFIED"}
  BY DEF PlacedUnlocked
<1>1. w \in Calls /\ UserOf[w] \in Seeded
  BY CallFacts
<1>2. CASE pc'[w] = pc[w]
  <2>1. known[w][UserOf[w]] \in {"NONE", "ACTIVE", "KYC_VERIFIED"}
    BY <1>2 DEF PlacedUnlocked
  <2>2. known'[w][UserOf[w]] \in {known[w][UserOf[w]], "NONE"}
    BY <1>1, <1>2, CallFrame
  <2> QED
    BY <2>1, <2>2
<1>3. CASE Own(w)
  <2>1. CASE BeginWager(w)
    <3>1. pc'[w] = "begun"
      BY <1>1, <2>1 DEF BeginWager, Go, TypeOK
    <3> QED
      BY <3>1
  <2>2. CASE CheckAccount(w)
    <3>1. pc[w] = "begun" /\ known' = known /\ w \in InFlight
      BY <1>1, <2>2 DEF CheckAccount, ghostVars, InFlight
    <3>2. pc'[w] = IF MayWager(Held(w).status[UserOf[w]]) THEN "checked" ELSE "unfit"
      BY <1>1, <2>2 DEF CheckAccount, Go, TypeOK
    <3>3. Held(w).status[UserOf[w]] \in {"ACTIVE", "KYC_VERIFIED"}
      BY <3>2 DEF MayWager
    <3>4. known[w][UserOf[w]] # "NONE" => Held(w).status[UserOf[w]] = known[w][UserOf[w]]
      BY <1>1, <3>1 DEF KnownIsFirm
    <3> QED
      BY <3>1, <3>3, <3>4
  <2>3. CASE AcceptWager(w)
    <3>1. pc[w] = "checked" /\ known' = known
      BY <2>3 DEF AcceptWager, Ends
    <3> QED
      BY <3>1 DEF PlacedUnlocked
  <2>4. CASE RefuseWager(w)
    <3>1. pc'[w] = "refused"
      BY <1>1, <2>4 DEF RefuseWager, Ends, Go, TypeOK
    <3> QED
      BY <3>1
  <2> QED
    BY <1>1, <1>3, <2>1, <2>2, <2>3, <2>4, OwnKind DEF OfWager
<1> QED
  BY <1>1, <1>2, <1>3, CallFrame

(* A session is that of a login, given when it is let in. *)
LEMMA SessionMoves ==
  ASSUME TypeOK, [Next]_vars, NEW l \in Logins
  PROVE  session'[l] = session[l] \/ LogIn(l)
<1>1. CASE UNCHANGED vars
  BY <1>1 DEF vars
<1>2. CASE Next
  <2>1. PICK c \in Calls : Own(c)
    BY <1>2, OneCall
  <2>2. CASE UNCHANGED <<session, codes>>
    BY <2>2
  <2>3. CASE c \in Logins /\ LogIn(c)
    <3>1. CASE c = l
      BY <2>3, <3>1
    <3>2. CASE c # l
      BY <2>3, <3>2 DEF LogIn, TypeOK
    <3> QED
      BY <3>1, <3>2
  <2>4. CASE c \in Setups /\ KeepCodes(c)
    BY <2>4 DEF KeepCodes
  <2> QED
    BY <2>1, <2>2, <2>3, <2>4, RestMoves
<1> QED
  BY <1>1, <1>2

(* No login gets through to an account it knew locked. *)
LEMMA LetInStep ==
  ASSUME TypeOK, ReadSomeone, ReadAsKnown, LetInUnlocked, [Next]_vars
  PROVE  LetInUnlocked'
<1> SUFFICES ASSUME NEW l \in Logins, NEW s \in session'[l]
             PROVE  /\ pc'[l] = "done"
                    /\ s.user \in Seeded => known'[l][s.user] \notin Locked
  BY DEF LetInUnlocked
<1>1. l \in Calls
  BY CallFacts
<1>2. "NONE" \notin Locked
  BY DEF Locked
<1>3. CASE session'[l] = session[l]
  <2>1. pc[l] = "done" /\ (s.user \in Seeded => known[l][s.user] \notin Locked)
    BY <1>3 DEF LetInUnlocked
  <2>2. pc'[l] = pc[l]
    BY <1>1, <2>1, CallFrame
  <2>3. s.user \in Seeded => known'[l][s.user] \in {known[l][s.user], "NONE"}
    BY <1>1, <2>1, CallFrame
  <2> QED
    BY <1>2, <2>1, <2>2, <2>3
<1>4. CASE LogIn(l)
  <2>1. /\ pc[l] = "read" /\ got[l].status \notin Locked
        /\ pc'[l] = "done" /\ known' = known
    BY <1>1, <1>4 DEF LogIn, Ends, Go, TypeOK
  <2>2. s.user = got[l].user
    <3>1. PICK factor \in Factors :
            session' = [session EXCEPT ![l] = {[user |-> got[l].user, factor |-> factor,
                                                   needed |-> NeedsFactor(l)]}]
      BY <1>4, LogInFacts
    <3>2. session'[l] = {[user |-> got[l].user, factor |-> factor,
                          needed |-> NeedsFactor(l)]}
      BY <3>1 DEF TypeOK
    <3> QED
      BY <3>2
  <2>3. s.user \in Seeded => known[l][s.user] \in {"NONE", got[l].status}
    BY <2>1, <2>2 DEF ReadAsKnown
  <2> QED
    BY <1>2, <2>1, <2>3
<1> QED
  BY <1>3, <1>4, SessionMoves

-----------------------------------------------------------------------------
(* What a session says of the login that got it. *)
LEMMA SessionFacts ==
  ASSUME TypeOK, ReadSomeone, NEW l \in Logins, LogIn(l), NEW s \in session'[l]
  PROVE  /\ Admits(l, s.factor) /\ s.user = got[l].user /\ s.needed = NeedsFactor(l)
         /\ s.factor[1] = "totp" => s.factor[2] \in Setups
         /\ s.factor[1] = "code" =>
              /\ s.factor[2] \in Codes /\ s.user \in Seeded
              /\ s.factor[2] \in codes[s.user]
              /\ codes' = [codes EXCEPT ![s.user] = codes[s.user] \ {s.factor[2]}]
         /\ \A m \in Logins : m # l => session'[m] = session[m]
<1>1. session \in [Logins -> SUBSET [user: Accounts, factor: Factors, needed: BOOLEAN]]
  BY DEF TypeOK
<1>2. PICK factor \in Factors :
        /\ Admits(l, factor)
        /\ session' = [session EXCEPT ![l] = {[user |-> got[l].user, factor |-> factor,
                                                needed |-> NeedsFactor(l)]}]
        /\ \/ factor[1] # "code" /\ codes' = codes
           \/ /\ factor[1] = "code" /\ factor[2] \in Codes /\ got[l].user \in Seeded
              /\ factor[2] \in codes[got[l].user]
              /\ codes' = [codes EXCEPT ![got[l].user] =
                             codes[got[l].user] \ {factor[2]}]
        /\ factor[1] = "totp" => factor[2] \in Setups
  BY LogInFacts
<1>3. s = [user |-> got[l].user, factor |-> factor, needed |-> NeedsFactor(l)]
  BY <1>1, <1>2
<1>4. s.user = got[l].user /\ s.factor = factor /\ s.needed = NeedsFactor(l)
  BY <1>3
<1>5. \A m \in Logins : m # l => session'[m] = session[m]
  BY <1>1, <1>2
<1> QED
  BY <1>2, <1>4, <1>5

(* A code appears when its setup ends, and at no other time. *)
LEMMA CodesMove ==
  ASSUME TypeOK, ReadSomeone, [Next]_vars, NEW u \in Seeded, NEW k \in codes'[u], k \notin codes[u]
  PROVE  k[1] \in Setups /\ pc[k[1]] = "written" /\ pc'[k[1]] = "done"
<1>1. codes \in [Seeded -> SUBSET Codes]
  BY DEF TypeOK
<1>2. CASE UNCHANGED vars
  BY <1>2 DEF vars
<1>3. CASE Next
  <2>1. PICK c \in Calls : Own(c)
    BY <1>3, OneCall
  <2>2. CASE UNCHANGED <<session, codes>>
    BY <2>2
  <2>3. CASE c \in Logins /\ LogIn(c)
    <3>1. PICK factor \in Factors :
            \/ codes' = codes
            \/ /\ got[c].user \in Seeded
               /\ codes' = [codes EXCEPT ![got[c].user] = codes[got[c].user] \ {factor[2]}]
      BY <2>3, LogInFacts
    <3>2. codes'[u] \subseteq codes[u]
      BY <1>1, <3>1
    <3> QED
      BY <3>2
  <2>4. CASE c \in Setups /\ KeepCodes(c)
    <3>1. codes' = [codes EXCEPT ![UserOf[c]] = {c} \X (1 .. CodesPerSetup)]
      BY <2>4 DEF KeepCodes
    <3>2. k \in {c} \X (1 .. CodesPerSetup)
      BY <1>1, <3>1
    <3>3. k[1] = c
      BY <3>2
    <3>4. pc[c] = "written" /\ pc'[c] = "done"
      BY <2>4 DEF KeepCodes, Ends, Go, TypeOK
    <3> QED
      BY <2>4, <3>3, <3>4
  <2> QED
    BY <2>1, <2>2, <2>3, <2>4, RestMoves
<1> QED
  BY <1>2, <1>3

(* There are only codes of setups that have ended. *)
LEMMA CodesStep ==
  ASSUME TypeOK, ReadSomeone, CodesOfDone, [Next]_vars
  PROVE  CodesOfDone'
<1> SUFFICES ASSUME NEW u \in Seeded, NEW k \in Codes, k \in codes'[u]
             PROVE  pc'[k[1]] = "done"
  BY DEF CodesOfDone
<1>1. k[1] \in Calls
  BY CallFacts DEF Codes
<1>2. CASE k \in codes[u]
  <2>1. pc[k[1]] = "done"
    BY <1>2 DEF CodesOfDone
  <2> QED
    BY <1>1, <2>1, CallFrame
<1>3. CASE k \notin codes[u]
  BY <1>3, CodesMove
<1> QED
  BY <1>2, <1>3

(* A used code is gone, and its setup does not bring it back. *)
LEMMA UsedStep ==
  ASSUME TypeOK, ReadSomeone, CodesOfDone, UsedIsGone, [Next]_vars
  PROVE  UsedIsGone'
<1> SUFFICES ASSUME NEW l \in Logins, NEW s \in session'[l], s.factor[1] = "code"
             PROVE  /\ pc'[s.factor[2][1]] = "done"
                    /\ \A u \in Seeded : s.factor[2] \notin codes'[u]
  BY DEF UsedIsGone
<1>1. CASE session'[l] = session[l]
  <2>1. pc[s.factor[2][1]] = "done" /\ \A u \in Seeded : s.factor[2] \notin codes[u]
    BY <1>1 DEF UsedIsGone
  <2>2. s.factor \in Factors
    BY <1>1 DEF TypeOK
  <2>3. s.factor[2] \in Codes /\ s.factor[2][1] \in Setups
    BY <2>2 DEF Factors, Codes
  <2>4. pc'[s.factor[2][1]] = "done"
    BY <2>1, <2>3, CallFacts, CallFrame
  <2>5. \A u \in Seeded : s.factor[2] \notin codes'[u]
    <3> SUFFICES ASSUME NEW u \in Seeded, s.factor[2] \in codes'[u]
                 PROVE  FALSE
      OBVIOUS
    <3>1. pc[s.factor[2][1]] = "written"
      BY <2>1, CodesMove
    <3> QED
      BY <2>1, <3>1
  <2> QED
    BY <2>4, <2>5
<1>2. CASE LogIn(l)
  <2> DEFINE k == s.factor[2]
  <2>1. /\ k \in Codes /\ s.user \in Seeded /\ k \in codes[s.user]
        /\ codes' = [codes EXCEPT ![s.user] = codes[s.user] \ {k}]
    BY <1>2, SessionFacts
  <2>2. pc[k[1]] = "done"
    BY <2>1 DEF CodesOfDone
  <2>3. k[1] \in Calls
    BY <2>1, CallFacts DEF Codes
  <2>4. pc'[k[1]] = "done"
    BY <2>2, <2>3, CallFrame
  <2> HIDE DEF k
  <2>5. \A u \in Seeded : k \in codes[u] => u = s.user
    BY <2>1 DEF TypeOK
  <2>6. \A u \in Seeded : k \notin codes'[u]
    BY <2>1, <2>5 DEF TypeOK
  <2> QED
    BY <2>4, <2>6 DEF k
<1> QED
  BY <1>1, <1>2, SessionMoves

(* No code lets a second login in. *)
LEMMA OnceStep ==
  ASSUME TypeOK, ReadSomeone, UsedIsGone, CodeOnce, [Next]_vars
  PROVE  CodeOnce'
<1> SUFFICES ASSUME NEW l \in Logins, NEW m \in Logins, l # m,
                    NEW s \in session'[l], NEW t \in session'[m],
                    s.factor[1] = "code", t.factor = s.factor
             PROVE  FALSE
  BY DEF CodeOnce
<1>1. ASSUME NEW i \in Logins, NEW j \in Logins, i # j, LogIn(i),
             NEW a \in session'[i], NEW b \in session'[j],
             a.factor[1] = "code", b.factor = a.factor
      PROVE  FALSE
  <2>1. /\ a.user \in Seeded /\ a.factor[2] \in codes[a.user]
        /\ session'[j] = session[j]
    BY <1>1, SessionFacts
  <2>2. b \in session[j] /\ b.factor[1] = "code"
    BY <1>1, <2>1
  <2>3. b.factor[2] \notin codes[a.user]
    BY <2>1, <2>2 DEF UsedIsGone
  <2> QED
    BY <1>1, <2>1, <2>3
<1>2. CASE LogIn(l)
  BY <1>1, <1>2
<1>3. CASE LogIn(m)
  BY <1>1, <1>3
<1>4. CASE session'[l] = session[l] /\ session'[m] = session[m]
  BY <1>4 DEF CodeOnce
<1> QED
  BY <1>2, <1>3, <1>4, SessionMoves

-----------------------------------------------------------------------------
(* A position of the stores after a step was one before it, or is the one  *)
(* a placement has put back.                                               *)
LEMMA StoreAfter ==
  ASSUME TypeOK, OneWager, [Next]_vars, NEW i \in 1 .. Len(db')
  PROVE  \/ i \in 1 .. Len(db) /\ Evolves(i, db'[i])
         \/ saved # <<>> /\ db'[i] = saved[1]
<1>1. Len(db) \in Nat /\ Len(db') \in Nat
  BY StoresHeld, StoresType
<1>2. Len(db') = Len(db) \/ (saved # <<>> /\ Len(db') = Len(db) + 1
                              /\ db'[Len(db) + 1] = saved[1])
  BY StoresEvolve DEF StoresKept, StoresBack
<1>3. i \in 1 .. Len(db) \/ (saved # <<>> /\ i = Len(db) + 1 /\ db'[Len(db) + 1] = saved[1])
  BY <1>1, <1>2
<1> QED
  BY <1>3, StoresEvolve DEF StoresStay

(* What a placement has saved was the last store when it began. *)
LEMMA SavedAfter ==
  ASSUME TypeOK, OneWager, [Next]_vars, saved' # <<>>
  PROVE  \/ saved # <<>> /\ saved'[1] = saved[1]
         \/ saved'[1] = db[Len(db)] /\ Len(db) \in 1 .. Len(db)
BY StoresEvolve, StoresHeld DEF StoresKept, StoresBack, Latest

(* The secret of a user was made for that user, in all stores. *)
LEMMA SecretStep ==
  ASSUME TypeOK, OneWager, SecretsAreOwn, [Next]_vars
  PROVE  SecretsAreOwn'
<1>1. ASSUME NEW i \in 1 .. Len(db')
      PROVE  OwnSecrets(db'[i])
  <2>1. CASE i \in 1 .. Len(db) /\ Evolves(i, db'[i])
    BY <2>1 DEF Evolves, SecretsAreOwn, OwnSecrets
  <2>2. CASE saved # <<>> /\ db'[i] = saved[1]
    BY <2>2 DEF SecretsAreOwn
  <2> QED
    BY <2>1, <2>2, StoreAfter
<1>2. saved' # <<>> => OwnSecrets(saved'[1])
  BY SavedAfter DEF SecretsAreOwn
<1>3. ASSUME NEW l \in Logins, pc'[l] = "read", got'[l].secret \in Setups
      PROVE  UserOf[got'[l].secret] = got'[l].user
  <2> HIDE DEF Stores
  <2>1. l \in Calls
    BY CallFacts
  <2>2. /\ Latest \in Stores /\ Held(l) \in Stores
        /\ OwnSecrets(Latest) /\ OwnSecrets(Held(l))
    BY <2>1, StoresHeld DEF SecretsAreOwn, Latest, Held
  <2>3. CASE pc'[l] = pc[l] /\ got'[l] = got[l]
    BY <1>3, <2>3 DEF SecretsAreOwn
  <2>4. ASSUME NEW s \in Stores, OwnSecrets(s), \E u \in Accounts : got'[l] = Row(s, u)
        PROVE  UserOf[got'[l].secret] = got'[l].user
    <3>1. PICK u \in Accounts : got'[l] = Row(s, u)
      BY <2>4
    <3>2. got'[l].user = u /\ got'[l].secret = s.secret[u]
      BY <3>1, RowRead
    <3> QED
      BY <1>3, <2>4, <3>2 DEF OwnSecrets
  <2>5. CASE Own(l)
    <3>1. OfLogin(l)
      BY <2>1, <2>5, OwnKind
    <3>2. CASE StartLogin(l)
      <4>1. \E u \in Accounts : got'[l] = Row(Latest, u)
        BY <1>3, <2>2, <3>2, FindFacts DEF StartLogin
      <4> QED
        BY <2>2, <2>4, <4>1
    <3>3. CASE FindByPhone(l)
      <4>1. \E u \in Accounts : got'[l] = Row(Held(l), u)
        BY <1>3, <2>2, <3>3, FindFacts DEF FindByPhone
      <4> QED
        BY <2>2, <2>4, <4>1
    <3>4. CASE LogIn(l) \/ RefuseLogin(l)
      <4>1. pc'[l] \in {"done", "refused"}
        BY <2>1, <3>4 DEF LogIn, RefuseLogin, Ends, Go, TypeOK
      <4> QED
        BY <1>3, <4>1
    <3> QED
      BY <3>1, <3>2, <3>3, <3>4 DEF OfLogin
  <2> QED
    BY <2>1, <2>3, <2>5, CallFrame
<1>4. \A l \in Logins : pc'[l] = "read" /\ got'[l].secret \in Setups =>
        UserOf[got'[l].secret] = got'[l].user
  BY <1>3
<1>5. \A i \in 1 .. Len(db') : OwnSecrets(db'[i])
  BY <1>1
<1> HIDE DEF OwnSecrets
<1> QED
  BY <1>2, <1>4, <1>5 DEF SecretsAreOwn, OwnSecrets

(* A session that needs a factor shows one of its user. *)
LEMMA ShownStep ==
  ASSUME TypeOK, ReadSomeone, SecretsAreOwn, FactorIsShown, [Next]_vars
  PROVE  FactorIsShown'
<1> SUFFICES ASSUME NEW l \in Logins, NEW s \in session'[l], s.needed
             PROVE  \/ s.factor[1] = "totp" /\ UserOf[s.factor[2]] = s.user
                    \/ s.factor[1] = "code" /\ UserOf[s.factor[2][1]] = s.user
  BY DEF FactorIsShown
<1>1. CASE session'[l] = session[l]
  BY <1>1 DEF FactorIsShown
<1>2. CASE LogIn(l)
  <2>1. /\ Admits(l, s.factor) /\ s.user = got[l].user /\ NeedsFactor(l)
        /\ s.factor[1] = "totp" => s.factor[2] \in Setups
        /\ s.factor[1] = "code" => /\ s.factor[2] \in Codes /\ s.user \in Seeded
                                   /\ s.factor[2] \in codes[s.user]
    BY <1>2, SessionFacts
  <2>2. CASE s.factor[1] = "totp" /\ s.factor[2] = got[l].secret
    BY <1>2, <2>1, <2>2 DEF SecretsAreOwn, LogIn
  <2>3. CASE s.factor[1] = "code"
    BY <2>1, <2>3 DEF TypeOK
  <2> QED
    BY <2>1, <2>2, <2>3 DEF Admits
<1> QED
  BY <1>1, <1>2, SessionMoves

-----------------------------------------------------------------------------
(* The pairs of registrations that were under way together. *)
LEMMA OverlapGrows ==
  ASSUME [Next]_vars
  PROVE  overlap \subseteq overlap'
<1>1. CASE UNCHANGED vars
  BY <1>1 DEF vars, ghostVars
<1>2. CASE Next
  <2>1. PICK c \in Calls : Own(c)
    BY <1>2, OneCall
  <2>2. CASE c \in Registrations /\ StartRegister(c)
    BY <2>2 DEF StartRegister
  <2> QED
    BY <2>1, <2>2, RestMoves
<1> QED
  BY <1>1, <1>2

(* Two registrations in flight together have met. *)
LEMMA PairStep ==
  ASSUME TypeOK, [Next]_vars,
         \A q, r \in Registrations \cap InFlight : q # r => {q, r} \in overlap
  PROVE  \A q, r \in Registrations \cap InFlight' : q # r => {q, r} \in overlap'
<1>1. ASSUME NEW q \in Registrations, NEW r \in Registrations, q # r,
             q \in InFlight', r \in InFlight', q \notin InFlight
      PROVE  {q, r} \in overlap'
  <2>1. q \in Calls /\ r \in Calls
    BY CallFacts
  <2>2. Starts(q) /\ pc[q] = "idle" /\ pc'[q] # "idle"
    BY <1>1, <2>1, CallFrame DEF InFlight
  <2>3. OfRegistration(q)
    BY <2>1, <2>2, CallFrame, OwnKind
  <2>4. StartRegister(q)
    BY <2>2, <2>3 DEF OfRegistration, LookPhone, Create, Looked
  <2>5. r \in InFlight
    <3>1. pc'[r] = pc[r]
      BY <1>1, <2>1, <2>4 DEF StartRegister, LookFor, Go, TypeOK
    <3> QED
      BY <1>1, <3>1 DEF InFlight
  <2> QED
    BY <2>4, <2>5 DEF StartRegister
<1> SUFFICES ASSUME NEW q \in Registrations \cap InFlight', NEW r \in Registrations \cap InFlight',
                    q # r
             PROVE  {q, r} \in overlap'
  OBVIOUS
<1>2. CASE q \in InFlight /\ r \in InFlight
  BY <1>2, OverlapGrows
<1>3. CASE q \notin InFlight
  BY <1>1, <1>3
<1>4. CASE r \notin InFlight
  <2>1. {r, q} \in overlap'
    BY <1>1, <1>4
  <2>2. {r, q} = {q, r}
    OBVIOUS
  <2> QED
    BY <2>1, <2>2
<1> QED
  BY <1>2, <1>3, <1>4

(* A registration that has looked for all it gives may be created. *)
LEMMA LookedClear ==
  ASSUME RegistrationsOverlap, NEW r \in Registrations, pc[r] = Looked(r),
         NEW v \in UsersOf(Held(r)), v # r, SameIdentifier(r, v)
  PROVE  {r, v} \in overlap
<1>1. pc[r] \in {"emailed", "phoned"}
  BY DEF Looked
<1>2. Clear(r, v, EmailOf) /\ (pc[r] = "phoned" => Clear(r, v, PhoneOf))
  BY <1>1 DEF RegistrationsOverlap
<1>3. PhoneOf[r] # NoId => pc[r] = "phoned"
  BY DEF Looked
<1> QED
  BY <1>2, <1>3 DEF Clear, SameIdentifier

(* Users of one store that share an identifier registered at the same      *)
(* time.                                                                   *)
LEMMA ClashStep ==
  ASSUME TypeOK, OneWager, RegistrationsOverlap, [Next]_vars, NEW i \in 1 .. Len(db')
  PROVE  ClashesOverlap(db'[i], overlap')
<1> SUFFICES ASSUME NEW u \in UsersOf(db'[i]), NEW v \in UsersOf(db'[i]), u # v,
                    SameIdentifier(u, v)
             PROVE  {u, v} \in overlap'
  BY DEF ClashesOverlap
<1>1. overlap \subseteq overlap'
  BY OverlapGrows
<1>2. CASE saved # <<>> /\ db'[i] = saved[1]
  BY <1>1, <1>2 DEF RegistrationsOverlap, ClashesOverlap
<1>3. CASE i \in 1 .. Len(db) /\ Evolves(i, db'[i])
  <2>1. CASE UsersOf(db'[i]) = UsersOf(db[i])
    BY <1>1, <1>3, <2>1 DEF RegistrationsOverlap, ClashesOverlap
  <2>2. CASE \E r \in Registrations : /\ pc[r] = Looked(r) /\ ctx[r] = i
                                      /\ UsersOf(db'[i]) = UsersOf(db[i]) \cup {r}
    <3>1. PICK r \in Registrations : /\ pc[r] = Looked(r) /\ ctx[r] = i
                                     /\ UsersOf(db'[i]) = UsersOf(db[i]) \cup {r}
      BY <2>2
    <3>2. Held(r) = db[i]
      BY <3>1 DEF Held
    <3>3. CASE u # r /\ v # r
      BY <1>1, <1>3, <3>1, <3>3 DEF RegistrationsOverlap, ClashesOverlap
    <3>4. CASE u = r
      BY <1>1, <3>1, <3>2, <3>4, LookedClear
    <3>5. CASE v = r
      <4>1. SameIdentifier(v, u)
        BY DEF SameIdentifier
      <4>2. {v, u} \in overlap
        BY <3>1, <3>2, <3>5, <4>1, LookedClear
      <4>3. {v, u} = {u, v}
        OBVIOUS
      <4> QED
        BY <1>1, <4>2, <4>3
    <3> QED
      BY <3>3, <3>4, <3>5
  <2> QED
    BY <1>3, <2>1, <2>2 DEF Evolves
<1> QED
  BY <1>2, <1>3, StoreAfter

(* A registration past its checks clashes only with those it has met. *)
LEMMA ClearStep ==
  ASSUME TypeOK, OneWager, RegistrationsOverlap, [Next]_vars,
         NEW r \in Registrations, pc'[r] \in {"emailed", "phoned"},
         NEW v \in UsersOf(Held(r)'), v # r
  PROVE  Clear(r, v, EmailOf)' /\ (pc'[r] = "phoned" => Clear(r, v, PhoneOf)')
<1>1. r \in Calls /\ overlap \subseteq overlap'
  BY CallFacts, OverlapGrows
<1>2. CASE pc'[r] = pc[r]
  <2>1. r \in InFlight /\ pc[r] # "idle"
    BY <1>1, <1>2 DEF InFlight
  <2>2. Evolves(ctx[r], Held(r)')
    BY <1>1, <2>1, StoresEvolve DEF StoresStay
  <2>3. CASE v \in UsersOf(Held(r))
    BY <1>1, <1>2, <2>3 DEF RegistrationsOverlap, Clear
  <2>4. CASE v \notin UsersOf(Held(r))
    <3>1. PICK q \in Registrations : /\ pc[q] = Looked(q)
                                     /\ UsersOf(Held(r)') = UsersOf(Held(r)) \cup {q}
      BY <2>2, <2>4 DEF Evolves, Held
    <3>2. v = q /\ q \in InFlight
      BY <2>4, <3>1, CallFacts DEF InFlight, Looked
    <3>3. {r, v} \in overlap
      BY <2>1, <3>2 DEF RegistrationsOverlap
    <3> QED
      BY <1>1, <3>3 DEF Clear
  <2> QED
    BY <2>3, <2>4
<1>3. CASE Own(r) /\ pc'[r] # pc[r]
  <2>1. OfRegistration(r)
    BY <1>1, <1>3, OwnKind
  <2>2. ASSUME NEW s, NEW of, NEW where, LookFor(r, s, of, where), pc'[r] # "refused",
               v \in UsersOf(s)
        PROVE  of[v] # of[r] /\ pc'[r] = where
    <3>1. pc'[r] = IF Holders(s, of, of[r]) = {} THEN where ELSE "refused"
      BY <1>1, <2>2 DEF LookFor, Go, TypeOK
    <3>2. Holders(s, of, of[r]) = {} /\ pc'[r] = where
      BY <2>2, <3>1
    <3> QED
      BY <2>2, <3>2 DEF Holders
  <2>3. CASE StartRegister(r)
    <3>1. db' = db /\ ctx' = [ctx EXCEPT ![r] = Len(db)]
      BY <2>3 DEF StartRegister, Begins, Takes
    <3>2. Held(r)' = Latest
      BY <1>1, <3>1 DEF Held, Latest, TypeOK
    <3>3. CASE EmailOf[r] # NoId
      <4>1. LookFor(r, Latest, EmailOf, "emailed")
        BY <2>3, <3>3 DEF StartRegister
      <4>2. EmailOf[v] # EmailOf[r] /\ pc'[r] = "emailed"
        BY <2>2, <3>2, <4>1
      <4> QED
        BY <4>2 DEF Clear
    <3>4. CASE EmailOf[r] = NoId
      <4>1. LookFor(r, Latest, PhoneOf, "phoned")
        BY <2>3, <3>4 DEF StartRegister
      <4>2. PhoneOf[v] # PhoneOf[r]
        BY <2>2, <3>2, <4>1
      <4> QED
        BY <3>4, <4>2 DEF Clear
    <3> QED
      BY <3>3, <3>4
  <2>4. CASE LookPhone(r)
    <3>1. /\ db' = db /\ ctx' = ctx /\ pc[r] = "emailed" /\ overlap' = overlap
          /\ LookFor(r, Held(r), PhoneOf, "phoned")
      BY <2>4 DEF LookPhone, ghostVars
    <3>2. Held(r)' = Held(r)
      BY <3>1 DEF Held
    <3>3. PhoneOf[v] # PhoneOf[r]
      BY <2>2, <3>1, <3>2
    <3>4. Clear(r, v, EmailOf)
      BY <3>1, <3>2 DEF RegistrationsOverlap
    <3> QED
      BY <3>1, <3>3, <3>4 DEF Clear
  <2>5. CASE Create(r)
    <3>1. pc'[r] = "done"
      BY <1>1, <2>5 DEF Create, Go, TypeOK
    <3> QED
      BY <3>1
  <2> QED
    BY <2>1, <2>3, <2>4, <2>5 DEF OfRegistration
<1> QED
  BY <1>1, <1>2, <1>3, CallFrame

(* The facts about registrations together. *)
LEMMA RegistrationStep ==
  ASSUME TypeOK, OneWager, RegistrationsOverlap, [Next]_vars
  PROVE  RegistrationsOverlap'
<1>1. \A q, r \in Registrations \cap InFlight' : q # r => {q, r} \in overlap'
  BY PairStep DEF RegistrationsOverlap
<1>2. \A i \in 1 .. Len(db') : ClashesOverlap(db'[i], overlap')
  BY ClashStep
<1>3. saved' # <<>> => ClashesOverlap(saved'[1], overlap')
  BY SavedAfter, OverlapGrows DEF RegistrationsOverlap, ClashesOverlap
<1>4. \A r \in Registrations : pc'[r] \in {"emailed", "phoned"} =>
        \A v \in UsersOf(Held(r)') : v # r =>
          Clear(r, v, EmailOf)' /\ (pc'[r] = "phoned" => Clear(r, v, PhoneOf)')
  BY ClearStep
<1> QED
  BY <1>1, <1>2, <1>3, <1>4 DEF RegistrationsOverlap, Clear

-----------------------------------------------------------------------------
(* A case that names two users, in use or taken back. *)
Named(u, v, cases) ==
    \E c \in cases : (c.user = u /\ v \in c.linked) \/ (c.user = v /\ u \in c.linked)
Shares(p, q) == p.device = q.device \/ (p.payer = q.payer /\ p.payer # NoPayer)

(* A case is open in the last store or was undone. *)
LEMMA CasesGrow ==
  ASSUME TypeOK, OneWager, [Next]_vars
  PROVE  (Latest.cases \cup undone) \subseteq (Latest'.cases \cup undone')
<1>1. CASE StoresKept
  BY <1>1 DEF StoresKept, Evolves, Latest
<1>2. CASE StoresBack
  BY <1>2 DEF StoresBack
<1> QED
  BY <1>1, <1>2, StoresEvolve

(* A session names everybody its profile shares with. *)
LEMMA SessionCase ==
  ASSUME TypeOK, OneWager, SharingIsACase, [Next]_vars,
         NEW d \in Sessions, RecordSession(d), NEW v \in Seeded, v # UserOf[d],
         NEW q \in profiles[v], Shares(ProfileFrom(d), q)
  PROVE  Named(UserOf[d], v, Latest'.cases \cup undone')
<1> DEFINE u == UserOf[d]
           linked == SameDevice(d) \cup SamePayer(d)
           C == {[signal |-> IF SameDevice(d) # {} THEN "DEVICE" ELSE "PAYER",
                  user |-> u, linked |-> linked]}
<1>1. u \in Seeded /\ linked \in SUBSET Seeded
  BY CallFacts DEF SameDevice, SamePayer
<1>2. /\ ProfileFrom(d).device = DeviceOf[d]
      /\ ProfileFrom(d).payer = IF PayerOf[d] # NoPayer \/ profiles[u] = {} THEN PayerOf[d]
                                ELSE (CHOOSE p \in profiles[u] : TRUE).payer
  BY DEF ProfileFrom
<1>3. CASE v \in linked
  <2>1. db' = [db EXCEPT ![Len(db)].cases = @ \cup C]
    BY <1>3 DEF RecordSession
  <2>2. C \in SUBSET Cases
    BY <1>1 DEF Cases
  <2>3. \A c \in C : c.user = u /\ c.linked = linked
    OBVIOUS
  <2>4. C # {}
    OBVIOUS
  <2> HIDE DEF C, linked, Stores
  <2>5. db' = [db EXCEPT ![Len(db)] = WithCases(db[Len(db)], C)]
    BY <2>1 DEF WithCases
  <2>6. /\ db \in Seq(Stores) /\ Len(db) \in 1 .. Len(db) /\ db[Len(db)] \in Stores
    BY StoresHeld DEF TypeOK
  <2>7. /\ WithCases(db[Len(db)], C) \in Stores
        /\ WithCases(db[Len(db)], C).cases = db[Len(db)].cases \cup C
    BY <2>2, <2>6, CasesField
  <2>8. Len(db') = Len(db) /\ db'[Len(db)] = WithCases(db[Len(db)], C)
    BY <2>5, <2>6, <2>7, ExceptSeq
  <2>9. C \subseteq Latest'.cases
    BY <2>7, <2>8 DEF Latest
  <2> HIDE DEF u
  <2> QED
    BY <1>3, <2>3, <2>4, <2>9 DEF Named, u
<1>4. CASE ProfileFrom(d).device = q.device
  <2>1. v \in SameDevice(d)
    BY <1>2, <1>4 DEF SameDevice
  <2> QED
    BY <1>3, <2>1
<1>5. CASE ProfileFrom(d).payer = q.payer /\ q.payer # NoPayer
  <2>1. CASE PayerOf[d] # NoPayer \/ profiles[u] = {}
    <3>1. v \in SamePayer(d)
      BY <1>2, <1>5, <2>1 DEF SamePayer
    <3> QED
      BY <1>3, <3>1
  <2>2. CASE PayerOf[d] = NoPayer /\ profiles[u] # {}
    <3>1. PICK p \in profiles[u] : p.payer = q.payer
      BY <1>2, <1>5, <2>2
    <3>2. \E c \in Latest.cases \cup undone :
             (c.user = u /\ v \in c.linked) \/ (c.user = v /\ u \in c.linked)
      BY <1>1, <1>5, <3>1 DEF SharingIsACase
    <3> QED
      BY <3>2, CasesGrow DEF Named
  <2> QED
    BY <2>1, <2>2
<1> QED
  BY <1>4, <1>5 DEF Shares

(* Who shares stays named. *)
LEMMA SharingStep ==
  ASSUME TypeOK, OneWager, SharingIsACase, [Next]_vars
  PROVE  SharingIsACase'
<1> SUFFICES ASSUME NEW u \in Seeded, NEW v \in Seeded, u # v,
                    NEW p \in profiles'[u], NEW q \in profiles'[v], Shares(p, q)
             PROVE  Named(u, v, Latest'.cases \cup undone')
  BY DEF SharingIsACase, Shares, Named
<1>1. CASE UNCHANGED profiles
  <2>1. Named(u, v, Latest.cases \cup undone)
    BY <1>1 DEF SharingIsACase, Shares, Named
  <2> QED
    BY <2>1, CasesGrow DEF Named
<1>2. ASSUME NEW d \in Sessions, RecordSession(d)
      PROVE  Named(u, v, Latest'.cases \cup undone')
  <2> DEFINE f == ProfileFrom(d)
  <2>1. profiles' = [profiles EXCEPT ![UserOf[d]] = {f}]
    BY <1>2 DEF RecordSession
  <2> HIDE DEF f
  <2>2. \A x \in Seeded : profiles'[x] = IF x = UserOf[d] THEN {f} ELSE profiles[x]
    BY <2>1 DEF TypeOK
  <2>3. CASE u = UserOf[d]
    <3>1. p = f /\ q \in profiles[v]
      BY <2>2, <2>3
    <3> QED
      BY <1>2, <2>3, <3>1, SessionCase DEF f
  <2>4. CASE v = UserOf[d]
    <3>1. q = f /\ p \in profiles[u]
      BY <2>2, <2>4
    <3>2. Shares(q, p)
      BY DEF Shares
    <3>3. Named(v, u, Latest'.cases \cup undone')
      BY <1>2, <2>4, <3>1, <3>2, SessionCase DEF f
    <3> QED
      BY <3>3 DEF Named
  <2>5. CASE u # UserOf[d] /\ v # UserOf[d]
    <3>1. p \in profiles[u] /\ q \in profiles[v]
      BY <2>2, <2>5
    <3>2. Named(u, v, Latest.cases \cup undone)
      BY <3>1 DEF SharingIsACase, Shares, Named
    <3> QED
      BY <3>2, CasesGrow DEF Named
  <2> QED
    BY <2>3, <2>4, <2>5
<1>3. CASE UNCHANGED vars
  BY <1>1, <1>3 DEF vars
<1>4. CASE Next
  <2>1. PICK c \in Calls : Own(c)
    BY <1>4, OneCall
  <2> QED
    BY <1>1, <1>2, <2>1, RestMoves
<1> QED
  BY <1>3, <1>4

-----------------------------------------------------------------------------
(* The first state. *)
LEMMA TypeStarts ==
  ASSUME Init
  PROVE  TypeOK /\ OneWager /\ ReadSomeone
<1>1. PICK order \in [1 .. Cardinality(Seeded) -> Seeded] :
        db = <<[users |-> order, status |-> [u \in Accounts |-> "ACTIVE"],
                secret |-> [u \in Accounts |-> NoSecret], enabled |-> {}, cases |-> {}]>>
  BY DEF Init
<1> DEFINE s == [users |-> order, status |-> [u \in Accounts |-> "ACTIVE"],
                 secret |-> [u \in Accounts |-> NoSecret], enabled |-> {}, cases |-> {}]
<1>2. s \in Stores
  <2>1. Cardinality(Seeded) \in Nat
    BY AccountAssumption, FS_CardinalityType
  <2>2. order \in Seq(Seeded)
    BY <2>1
  <2>3. order \in Seq(Accounts)
    BY <2>2, CallFacts
  <2>4. [u \in Accounts |-> "ACTIVE"] \in [Accounts -> Statuses]
    BY DEF Statuses
  <2> QED
    BY <2>3, <2>4 DEF Stores
<1>3. db = <<s>>
  BY <1>1
<1> HIDE DEF s, Stores
<1>4. db \in Seq(Stores) /\ Len(db) = 1 /\ saved = <<>> /\ saved \in Seq(Stores)
  <2>1. saved = <<>>
    BY DEF Init
  <2>2. <<s>> \in Seq(Stores) /\ Len(<<s>>) = 1 /\ <<>> \in Seq(Stores)
    BY <1>2
  <2> QED
    BY <1>3, <2>1, <2>2
<1>5. Cardinality(Wagers) \in Nat
  BY AccountAssumption, FS_CardinalityType
<1>6. Len(db) \in 1 .. Cardinality(Wagers) + 1 /\ 1 \in 1 .. Len(db)
  BY <1>4, <1>5
<1>7. NothingRead \in Reading
  BY DEF NothingRead, Reading, Statuses
<1>8. /\ codes \in [Seeded -> SUBSET Codes] /\ \A u \in Seeded : codes[u] = {}
      /\ profiles \in [Seeded -> SUBSET Profile] /\ \A u \in Seeded : profiles[u] = {}
      /\ session \in [Logins -> SUBSET [user: Accounts, factor: Factors, needed: BOOLEAN]]
  BY DEF Init
<1>9. /\ pc \in [Calls -> Places \cup {"idle"}] /\ \A c \in Calls : pc[c] = "idle"
      /\ ctx \in [Calls -> 1 .. Len(db)] /\ got \in [Calls -> Reading]
  BY <1>6, <1>7 DEF Init
<1>10. /\ firm \in [Seeded -> Statuses \cup {"NONE"}]
       /\ known \in [Calls -> [Seeded -> Statuses \cup {"NONE"}]]
       /\ overlap \subseteq SUBSET Registrations /\ undone \subseteq Cases
  BY DEF Init, NoFirm
<1>11. Cardinality({}) = 0 /\ Cardinality({}) <= 1
  BY FS_EmptySet
<1>12. TypeOK
  BY <1>4, <1>6, <1>8, <1>9, <1>10, <1>11 DEF TypeOK, Places
<1>13. OneWager
  <2>1. {w \in Wagers : pc[w] = "refused"} = {}
    BY <1>9, CallFacts
  <2>2. \A w \in Wagers : pc[w] \notin Placing
    BY <1>9, CallFacts DEF Placing
  <2>3. Cardinality({w \in Wagers : pc[w] = "refused"}) = 0
    BY <1>11, <2>1, Zenon
  <2>4. Cardinality({w \in Wagers : pc[w] = "refused"}) + 1 = 1
    BY <2>3
  <2> QED
    BY <1>4, <2>2, <2>4, Zenon DEF OneWager
<1>14. ReadSomeone
  BY <1>9, CallFacts DEF ReadSomeone
<1> QED
  BY <1>12, <1>13, <1>14

(* The invariant holds of the first state. *)
LEMMA Initially ==
  ASSUME Init
  PROVE  IInv
<1>1. PICK order \in [1 .. Cardinality(Seeded) -> Seeded] :
        db = <<[users |-> order, status |-> [u \in Accounts |-> "ACTIVE"],
                secret |-> [u \in Accounts |-> NoSecret], enabled |-> {}, cases |-> {}]>>
  BY DEF Init
<1>2. /\ TypeOK /\ OneWager /\ ReadSomeone
  BY TypeStarts
<1>3. /\ Len(db) = 1 /\ db[1].users = order /\ saved = <<>>
      /\ db[1].secret = [u \in Accounts |-> NoSecret]
  BY <1>1 DEF Init
<1>4. \A c \in Calls : pc[c] = "idle" /\ c \notin InFlight
  BY DEF Init, InFlight
<1>5. /\ \A u \in Seeded : firm[u] = "NONE" /\ codes[u] = {} /\ profiles[u] = {}
      /\ \A l \in Logins : session[l] = {}
      /\ \A c \in Calls, u \in Seeded : known[c][u] = "NONE"
  BY DEF Init, NoFirm
<1>6. FirmStands /\ KnownIsFirm /\ ReadAsKnown /\ LetInUnlocked /\ PlacedUnlocked
  <2>1. FirmStands
    BY <1>5, Zenon DEF FirmStands
  <2>2. KnownIsFirm
    BY <1>4, <1>5, Zenon DEF KnownIsFirm
  <2>3. ReadAsKnown /\ LetInUnlocked /\ PlacedUnlocked
    BY <1>4, <1>5, CallFacts DEF ReadAsKnown, LetInUnlocked, PlacedUnlocked
  <2> QED
    BY <2>1, <2>2, <2>3
<1>7. CodesOfDone /\ UsedIsGone /\ CodeOnce /\ FactorIsShown /\ SharingIsACase
  BY <1>5 DEF CodesOfDone, UsedIsGone, CodeOnce, FactorIsShown, SharingIsACase
<1>8. \A i \in 1 .. Len(db) : i = 1
  BY <1>3
<1>9. SecretsAreOwn
  <2>1. OwnSecrets(db[1])
    BY <1>3, AccountAssumption DEF OwnSecrets
  <2>2. \A l \in Logins : pc[l] # "read"
    BY <1>4, CallFacts
  <2> QED
    BY <1>3, <1>8, <2>1, <2>2 DEF SecretsAreOwn
<1>10. RegistrationsOverlap
  <2>1. \A u \in UsersOf(db[1]) : u \in Seeded
    <3>1. DOMAIN order = 1 .. Cardinality(Seeded)
      OBVIOUS
    <3> QED
      BY <1>3, <3>1 DEF UsersOf
  <2>2. ClashesOverlap(db[1], overlap)
    <3>1. \A u, v \in Seeded : u # v => ~SameIdentifier(u, v)
      BY AccountAssumption
    <3> QED
      BY <2>1, <3>1, Zenon DEF ClashesOverlap
  <2>3. \A r \in Registrations : pc[r] = "idle" /\ r \notin InFlight
    BY <1>4, CallFacts
  <2> QED
    BY <1>3, <1>8, <2>2, <2>3 DEF RegistrationsOverlap
<1> QED
  BY <1>2, <1>6, <1>7, <1>9, <1>10 DEF IInv

-----------------------------------------------------------------------------
(* The invariant is inductive. *)
LEMMA Inductive ==
  ASSUME IInv, [Next]_vars
  PROVE  IInv'
<1>1. TypeOK' /\ OneWager' /\ ReadSomeone'
  BY TypeStep, WagerStep, SomeoneStep DEF IInv
<1>2. FirmStands' /\ KnownIsFirm' /\ ReadAsKnown' /\ LetInUnlocked' /\ PlacedUnlocked'
  BY FirmStep, KnownStep, ReadStep, LetInStep, PlacedStep DEF IInv
<1>3. CodesOfDone' /\ UsedIsGone' /\ CodeOnce'
  BY CodesStep, UsedStep, OnceStep DEF IInv
<1>4. SecretsAreOwn' /\ FactorIsShown'
  BY SecretStep, ShownStep DEF IInv
<1>5. RegistrationsOverlap' /\ SharingIsACase'
  BY RegistrationStep, SharingStep DEF IInv
<1> QED
  BY <1>1, <1>2, <1>3, <1>4, <1>5 DEF IInv

(* The inductive invariant of the accounts. *)
THEOREM Invariance == Spec => []IInv
<1>1. IInv /\ [Next]_vars => IInv'
  BY Inductive
<1> QED
  BY <1>1, Initially, PTL DEF Spec

(* The stores, the calls and what the services keep are of their types: a  *)
(* user has one device profile, and the codes there are are its own.       *)
THEOREM TypeCorrect == Spec => []TypeOK
<1>1. IInv => TypeOK
  BY DEF IInv
<1> QED
  BY <1>1, Invariance, PTL

(* A status given when nothing else was under way stands until another     *)
(* call sets one, whatever logins, second factors, sessions and refused    *)
(* placements run.                                                         *)
THEOREM StatusStands == Spec => []StatusHolds
<1>1. IInv => StatusHolds
  BY DEF IInv, FirmStands, StatusHolds
<1> QED
  BY <1>1, Invariance, PTL

(* A login or a placement that begins when the account is locked does not  *)
(* get through.                                                            *)
THEOREM LockedOut == Spec => []LockedStaysOut
<1>1. IInv => LockedStaysOut
  BY DEF IInv, LetInUnlocked, PlacedUnlocked, LockedStaysOut
<1> QED
  BY <1>1, Invariance, PTL

(* A backup code lets one login in, however many setups and logins of the  *)
(* user run at once.                                                       *)
THEOREM CodesOnce == Spec => []CodeOnce
<1>1. IInv => CodeOnce
  BY DEF IInv
<1> QED
  BY <1>1, Invariance, PTL

(* A login that needs a second factor has shown one of its own user.       *)
THEOREM FactorShown == Spec => []FactorIsShown
<1>1. IInv => FactorIsShown
  BY DEF IInv
<1> QED
  BY <1>1, Invariance, PTL

(* Users who share an email or a phone number registered at the same time: *)
(* that is the only way past the two lookups.                              *)
THEOREM OneUser == Spec => []OneUserPerIdentifier
<1>1. IInv => OneUserPerIdentifier
  BY StoresHeld DEF IInv, RegistrationsOverlap, ClashesOverlap, OneUserPerIdentifier, Latest
<1> QED
  BY <1>1, Invariance, PTL

(* Users who share a device or an M-Pesa name are named by a case, unless  *)
(* a refused placement has taken the case back.                            *)
THEOREM SharingFlagged == Spec => []SharingIsACase
<1>1. IInv => SharingIsACase
  BY DEF IInv
<1> QED
  BY <1>1, Invariance, PTL

=============================================================================
