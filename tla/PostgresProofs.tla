--------------------------- MODULE PostgresProofs ---------------------------
(***************************************************************************)
(* What read-committed transactions keep for every set of users, deposits, *)
(* deliveries, withdrawals, bets and keys, and all amounts.                *)
(***************************************************************************)
EXTENDS Postgres, CentsTheorems, FiniteSetTheorems, TLAPS

(* A call whose transaction has read the wallet and has not ended. *)
HasRead(c) == \/ pc[c] = "read"
              \/ c \in Withdrawals /\ pc[c] = "posted"

(* What a spending has read covers it. *)
SeenCovers == \A c \in Spendings : HasRead(c) => seen[c].available >= Amount(c)

(* A callback posts before it reads the wallet, a withdrawal after. *)
PostedFirst ==
    /\ \A c \in Callbacks : pc[c] \in {"posted", "read"} => Subject(c) \in journals
    /\ \A w \in Withdrawals : pc[w] = "posted" => w \in journals

(* Of a user whose transactions have never been open together one is open  *)
(* at most; what it has read is what the row holds, and the deposit it     *)
(* credits has not been credited.                                          *)
AloneUnlessOverlapped ==
    \A c \in Open : Owner(c) \notin overlapped =>
        /\ \A d \in Open : Owner(d) = Owner(c) => d = c
        /\ HasRead(c) => seen[c] = [available |-> available[Owner(c)],
                                    held |-> held[Owner(c)]]
        /\ c \in Callbacks => Subject(c) \notin success

IInv ==
    /\ TypeOK
    /\ SeenCovers
    /\ PostedFirst
    /\ JournalComesFirst
    /\ AloneUnlessOverlapped
    /\ RightUnlessOverlapped

-----------------------------------------------------------------------------
(* What a call is about, and whose. *)
LEMMA CallTypes ==
  /\ \A c \in Callbacks : Subject(c) = DepositOf[c] /\ Subject(c) \in Deposits
                          /\ c \notin Spendings
  /\ \A c \in Spendings : Subject(c) = c /\ c \notin Callbacks /\ c \notin Deposits
  /\ \A c \in Calls : Owner(c) \in Users /\ Amount(c) \in Nat
  /\ Calls = Callbacks \cup Spendings /\ Spendings = Withdrawals \cup Bets
  /\ Withdrawals \cap Bets = {}
BY TransactionAssumption DEF Subject, Owner, Amount, Calls, Spendings

(* What a spending writes back is an amount again. *)
LEMMA TypeStep ==
  ASSUME TypeOK, SeenCovers, [Next]_vars
  PROVE  TypeOK'
<1> USE CallTypes DEF rows, Go, Ends
<1>1. ASSUME NEW c \in Calls, Begin(c)
      PROVE  TypeOK'
  BY <1>1 DEF Begin, TypeOK
<1>2. ASSUME NEW c \in Calls, ReadWallet(c)
      PROVE  TypeOK'
  <2>1. [available |-> available[Owner(c)], held |-> held[Owner(c)]] \in Wallet
    BY <1>2 DEF TypeOK, Wallet
  <2> QED
    BY <1>2, <2>1 DEF ReadWallet, TypeOK
<1>3. ASSUME NEW c \in Calls, PostJournal(c)
      PROVE  TypeOK'
  BY <1>3 DEF PostJournal, TypeOK
<1>4. Unread \in Wallet
  BY DEF Unread, Wallet
<1>5. ASSUME NEW c \in Calls, Abort(c)
      PROVE  TypeOK'
  BY <1>4, <1>5 DEF Abort, TypeOK
<1>6. ASSUME NEW c \in Calls
      PROVE  seen[c].available \in Nat /\ seen[c].held \in Nat
  BY <1>6 DEF TypeOK, Wallet
<1>7. ASSUME NEW c \in Calls, CreditDeposit(c)
      PROVE  TypeOK'
  <2>1. seen[c].available + Amount(c) \in Nat
    BY <1>6
  <2>2. available' \in [Users -> Nat]
    BY <1>7, <2>1 DEF CreditDeposit, TypeOK
  <2>3. success' \subseteq Deposits
    BY <1>7 DEF CreditDeposit, TypeOK
  <2> QED
    BY <1>4, <1>7, <2>2, <2>3 DEF CreditDeposit, TypeOK
<1>8. ASSUME NEW c \in Spendings, HasRead(c)
      PROVE  seen[c].available - Amount(c) \in Nat
  BY <1>6, <1>8 DEF SeenCovers
<1>9. ASSUME NEW w \in Calls, Withdraw(w)
      PROVE  TypeOK'
  <2>1. seen[w].available - Amount(w) \in Nat
    BY <1>8, <1>9 DEF Withdraw, Ready, HasRead
  <2>2. available' \in [Users -> Nat]
    BY <1>9, <2>1 DEF Withdraw, TypeOK
  <2> QED
    BY <1>4, <1>9, <2>2 DEF Withdraw, TypeOK
<1>10. ASSUME NEW b \in Calls, PlaceBet(b)
       PROVE  TypeOK'
  <2>0. b \in Spendings /\ HasRead(b)
    BY <1>10 DEF PlaceBet, Ready, HasRead
  <2>1. seen[b].available - Amount(b) \in Nat
    BY <1>8, <2>0
  <2>2. seen[b].held + Amount(b) \in Nat
    BY <1>6
  <2>3. available' \in [Users -> Nat]
    BY <1>10, <2>1 DEF PlaceBet, TypeOK
  <2>4. held' \in [Users -> Nat]
    BY <1>10, <2>2 DEF PlaceBet, TypeOK
  <2> QED
    BY <1>4, <1>10, <2>3, <2>4 DEF PlaceBet, TypeOK
<1>11. CASE UNCHANGED vars
  BY <1>11 DEF vars, TypeOK
<1> QED
  BY <1>1, <1>2, <1>3, <1>5, <1>7, <1>9, <1>10, <1>11 DEF Next

(* A call only moves its own place. *)
LEMMA Places ==
  ASSUME TypeOK, NEW c \in Calls, NEW where, Go(c, where)
  PROVE  pc'[c] = where /\ \A d \in Calls : d # c => pc'[d] = pc[d]
BY DEF Go, TypeOK

(* The wallet is read when it covers the spending, and kept until the end. *)
LEMMA SeenStep ==
  ASSUME TypeOK, SeenCovers, [Next]_vars
  PROVE  SeenCovers'
<1> USE CallTypes DEF Ends
<1>1. ASSUME NEW c \in Calls, NEW where, Go(c, where), seen' = seen,
             c \in Spendings => HasRead(c) \/ where \notin {"read", "posted"}
      PROVE  SeenCovers'
  BY <1>1, Places DEF SeenCovers, HasRead
<1>2. ASSUME NEW c \in Calls, NEW where, Go(c, where), where \notin {"read", "posted"},
             NEW s, seen' = [seen EXCEPT ![c] = s]
      PROVE  SeenCovers'
  BY <1>2, Places DEF SeenCovers, HasRead, TypeOK
<1>3. ASSUME NEW c \in Calls, Begin(c)
      PROVE  SeenCovers'
  BY <1>1, <1>3 DEF Begin
<1>4. ASSUME NEW c \in Calls, ReadWallet(c)
      PROVE  SeenCovers'
  <2>1. Go(c, "read") /\ Covered(c)
        /\ seen' = [seen EXCEPT ![c] = [available |-> available[Owner(c)],
                                        held |-> held[Owner(c)]]]
    BY <1>4 DEF ReadWallet
  <2>2. c \in Spendings => seen'[c].available >= Amount(c)
    BY <2>1 DEF Covered, TypeOK
  <2>3. \A d \in Calls : d # c => seen'[d] = seen[d] /\ pc'[d] = pc[d]
    BY <2>1, Places DEF TypeOK
  <2> QED
    BY <2>2, <2>3 DEF SeenCovers, HasRead
<1>5. ASSUME NEW c \in Calls, PostJournal(c)
      PROVE  SeenCovers'
  <2>1. Go(c, "posted") /\ seen' = seen
    BY <1>5 DEF PostJournal
  <2>2. c \in Spendings => HasRead(c)
    BY <1>5 DEF PostJournal, HasRead
  <2> QED
    BY <1>1, <2>1, <2>2
<1>6. ASSUME NEW c \in Calls, Abort(c)
      PROVE  SeenCovers'
  BY <1>2, <1>6 DEF Abort
<1>7. ASSUME NEW c \in Calls, CreditDeposit(c) \/ Withdraw(c) \/ PlaceBet(c)
      PROVE  SeenCovers'
  BY <1>2, <1>7 DEF CreditDeposit, Withdraw, PlaceBet
<1>8. CASE UNCHANGED vars
  BY <1>8 DEF vars, SeenCovers, HasRead
<1> QED
  BY <1>3, <1>4, <1>5, <1>6, <1>7, <1>8 DEF Next

-----------------------------------------------------------------------------
(* The calls that end: their transactions commit, or abort. *)
LEMMA Steps ==
  ASSUME TypeOK, NEW c \in Calls
  PROVE  /\ CreditDeposit(c) => c \in Callbacks /\ pc[c] = "read" /\ Go(c, "done")
         /\ Withdraw(c) => c \in Withdrawals /\ pc[c] = "posted" /\ Go(c, "done")
         /\ PlaceBet(c) => c \in Bets /\ pc[c] = "read" /\ Go(c, "done")
         /\ Abort(c) => c \in Open /\ Go(c, "failed")
<1>1. \A d \in Callbacks \cup Bets : d \notin Withdrawals
  BY CallTypes
<1>2. CreditDeposit(c) => c \in Callbacks /\ pc[c] = "read" /\ Go(c, "done")
  BY <1>1 DEF CreditDeposit, Ready, Ends
<1>3. Withdraw(c) => c \in Withdrawals /\ pc[c] = "posted" /\ Go(c, "done")
  BY <1>1 DEF Withdraw, Ready, Ends
<1>4. PlaceBet(c) => c \in Bets /\ pc[c] = "read" /\ Go(c, "done")
  BY <1>1 DEF PlaceBet, Ready, Ends
<1>5. Abort(c) => c \in Open /\ Go(c, "failed")
  BY DEF Abort
<1> QED
  BY <1>2, <1>3, <1>4, <1>5

(* The journal is posted before what depends on it. *)
LEMMA PostedStep ==
  ASSUME TypeOK, PostedFirst, [Next]_vars
  PROVE  PostedFirst'
<1>1. ASSUME NEW c \in Calls, NEW where, Go(c, where), journals \subseteq journals',
             c \in Callbacks /\ where \in {"posted", "read"} => Subject(c) \in journals',
             c \in Withdrawals /\ where = "posted" => c \in journals'
      PROVE  PostedFirst'
  <2>1. ASSUME NEW d \in Callbacks, pc'[d] \in {"posted", "read"}
        PROVE  Subject(d) \in journals'
    BY <1>1, <2>1, Places, CallTypes DEF PostedFirst
  <2>2. ASSUME NEW w \in Withdrawals, pc'[w] = "posted"
        PROVE  w \in journals'
    BY <1>1, <2>2, Places, CallTypes DEF PostedFirst
  <2>3. \A d \in Callbacks : Subject(d)' = Subject(d)
    BY DEF Subject
  <2> QED
    BY <2>1, <2>2, <2>3 DEF PostedFirst
<1>2. ASSUME NEW c \in Calls, Begin(c)
      PROVE  PostedFirst'
  BY <1>1, <1>2 DEF Begin
<1>3. ASSUME NEW c \in Calls, ReadWallet(c)
      PROVE  PostedFirst'
  BY <1>1, <1>3, CallTypes DEF ReadWallet, PostedFirst
<1>4. ASSUME NEW c \in Calls, PostJournal(c)
      PROVE  PostedFirst'
  <2>1. /\ Go(c, "posted") /\ journals \subseteq journals'
        /\ Subject(c) \in journals'
    BY <1>4 DEF PostJournal
  <2> QED
    BY <1>1, <2>1, CallTypes
<1>5. ASSUME NEW c \in Calls, Abort(c)
      PROVE  PostedFirst'
  BY <1>1, <1>5 DEF Abort
<1>6. ASSUME NEW c \in Calls, CreditDeposit(c) \/ Withdraw(c) \/ PlaceBet(c)
      PROVE  PostedFirst'
  <2>1. Go(c, "done") /\ journals' = journals
    BY <1>6 DEF CreditDeposit, Withdraw, PlaceBet, Ends
  <2> QED
    BY <1>1, <2>1
<1>7. CASE UNCHANGED vars
  BY <1>7 DEF vars, PostedFirst, Subject
<1> QED
  BY <1>2, <1>3, <1>4, <1>5, <1>6, <1>7 DEF Next

(* The ledger is never behind the payments. *)
LEMMA JournalStep ==
  ASSUME TypeOK, PostedFirst, JournalComesFirst, [Next]_vars
  PROVE  JournalComesFirst'
<1> DEFINE Paid == success \cup withdrawn
           Posting(p) == \E d \in Calls : /\ Subject(d) = p
                                          /\ pc[d] \in {"read", "posted", "failed"}
<1>1. Paid \subseteq journals /\ \A p \in journals \ Paid : Posting(p)
  BY DEF JournalComesFirst
<1>2. ASSUME Paid' \subseteq journals', \A p \in journals' \ Paid' : Posting(p)'
      PROVE  JournalComesFirst'
  BY <1>2 DEF JournalComesFirst
<1>3. \A d : Subject(d)' = Subject(d)
  BY DEF Subject
<1>4. ASSUME NEW c \in Calls, NEW where, Go(c, where), NEW p, Posting(p),
             \/ where \in {"read", "posted", "failed"}
             \/ pc[c] \in {"idle", "begun"}
             \/ Subject(c) # p
      PROVE  Posting(p)'
  <2>1. PICK d \in Calls : Subject(d) = p /\ pc[d] \in {"read", "posted", "failed"}
    BY <1>4
  <2>2. pc'[d] \in {"read", "posted", "failed"}
    BY <1>4, <2>1, Places
  <2> QED
    BY <1>3, <2>1, <2>2
<1>5. ASSUME NEW c \in Calls, Begin(c)
      PROVE  JournalComesFirst'
  <2>1. PICK where : Go(c, where)
    BY <1>5 DEF Begin
  <2>2. pc[c] = "idle" /\ UNCHANGED <<journals, success, withdrawn>>
    BY <1>5 DEF Begin, rows
  <2> HIDE DEF Posting
  <2> QED
    BY <1>1, <1>2, <1>4, <2>1, <2>2
<1>6. ASSUME NEW c \in Calls, ReadWallet(c) \/ Abort(c)
      PROVE  JournalComesFirst'
  <2>1. PICK where \in {"read", "failed"} : Go(c, where)
    BY <1>6 DEF ReadWallet, Abort
  <2>2. UNCHANGED <<journals, success, withdrawn>>
    BY <1>6 DEF ReadWallet, Abort, rows
  <2> HIDE DEF Posting
  <2> QED
    BY <1>1, <1>2, <1>4, <2>1, <2>2
<1>7. ASSUME NEW c \in Calls, PostJournal(c)
      PROVE  JournalComesFirst'
  <2>1. /\ Go(c, "posted") /\ journals' = journals \cup {Subject(c)}
        /\ UNCHANGED <<success, withdrawn>>
    BY <1>7 DEF PostJournal, rows
  <2>2. pc'[c] = "posted"
    BY <2>1, Places
  <2>3. Posting(Subject(c))'
    BY <1>3, <2>2
  <2> HIDE DEF Posting
  <2> QED
    BY <1>1, <1>2, <1>4, <2>1, <2>3
<1>8. ASSUME NEW c \in Calls, CreditDeposit(c)
      PROVE  JournalComesFirst'
  <2>1. /\ c \in Callbacks /\ pc[c] = "read" /\ Go(c, "done")
        /\ Subject(c) = DepositOf[c]
    BY <1>8, Steps, CallTypes
  <2>2. success' = success \cup {Subject(c)} /\ UNCHANGED <<journals, withdrawn>>
    BY <1>8, <2>1 DEF CreditDeposit, Ends
  <2>3. Subject(c) \in journals
    BY <2>1 DEF PostedFirst
  <2> HIDE DEF Posting
  <2> QED
    BY <1>1, <1>2, <1>4, <2>1, <2>2, <2>3
<1>9. ASSUME NEW c \in Calls, Withdraw(c)
      PROVE  JournalComesFirst'
  <2>1. c \in Withdrawals /\ pc[c] = "posted" /\ Go(c, "done") /\ Subject(c) = c
    BY <1>9, Steps, CallTypes
  <2>2. withdrawn' = withdrawn \cup {c} /\ UNCHANGED <<journals, success>>
    BY <1>9 DEF Withdraw, Ends
  <2>3. c \in journals
    BY <2>1 DEF PostedFirst
  <2> HIDE DEF Posting
  <2> QED
    BY <1>1, <1>2, <1>4, <2>1, <2>2, <2>3
<1>10. ASSUME NEW c \in Calls, PlaceBet(c)
       PROVE  JournalComesFirst'
  <2>1. c \in Bets /\ Go(c, "done") /\ Subject(c) = c
    BY <1>10, Steps, CallTypes
  <2>2. UNCHANGED <<journals, success, withdrawn>>
    BY <1>10 DEF PlaceBet, Ends
  <2>3. c \notin journals
    BY <2>1, TransactionAssumption DEF TypeOK, Spendings
  <2> HIDE DEF Posting
  <2> QED
    BY <1>1, <1>2, <1>4, <2>1, <2>2, <2>3
<1>11. CASE UNCHANGED vars
  BY <1>11 DEF vars, rows, JournalComesFirst, Subject
<1> QED
  BY <1>5, <1>6, <1>7, <1>8, <1>9, <1>10, <1>11 DEF Next

-----------------------------------------------------------------------------
(* A transaction that ends writes its own user's row, and its own deposit. *)
LEMMA EndAlone ==
  ASSUME TypeOK, AloneUnlessOverlapped, NEW c \in Open,
         NEW where \in {"done", "failed"}, Go(c, where),
         \A d \in Calls : d # c => seen'[d] = seen[d], overlapped' = overlapped,
         \A u \in Users : u # Owner(c) => available'[u] = available[u] /\ held'[u] = held[u],
         success' \subseteq success \cup {Subject(c)}
  PROVE  AloneUnlessOverlapped'
<1>1. c \in Calls
  BY DEF Open
<1>2. \A d \in Open' : d \in Open /\ d # c
  BY <1>1, Places DEF Open
<1>3. \A d \in Calls : Owner(d)' = Owner(d) /\ Subject(d)' = Subject(d)
  BY DEF Owner, Subject
<1>4. ASSUME NEW d \in Open', Owner(d) \notin overlapped
      PROVE  /\ \A e \in Open' : Owner(e) = Owner(d) => e = d
             /\ HasRead(d)' => seen'[d] = [available |-> available'[Owner(d)],
                                           held |-> held'[Owner(d)]]
             /\ d \in Callbacks => Subject(d) \notin success'
  <2>1. d \in Open /\ d # c /\ d \in Calls /\ Owner(d) \in Users
    BY <1>2, CallTypes DEF Open
  <2>2. Owner(c) # Owner(d)
    BY <1>4, <2>1 DEF AloneUnlessOverlapped
  <2>3. \A e \in Open' : Owner(e) = Owner(d) => e = d
    BY <1>2, <1>4, <2>1 DEF AloneUnlessOverlapped
  <2>4. HasRead(d)' <=> HasRead(d)
    BY <1>1, <2>1, Places DEF HasRead
  <2>5. HasRead(d) => seen[d] = [available |-> available[Owner(d)], held |-> held[Owner(d)]]
    BY <1>4, <2>1 DEF AloneUnlessOverlapped
  <2>6. d \in Callbacks => Subject(d) \notin success /\ Subject(d) # Subject(c)
    BY <1>4, <2>1, <2>2 DEF AloneUnlessOverlapped, Owner
  <2> QED
    BY <2>1, <2>2, <2>3, <2>4, <2>5, <2>6
<1>5. Open' \subseteq Calls
  BY DEF Open
<1> QED
  BY <1>3, <1>4, <1>5 DEF AloneUnlessOverlapped

(* Calls that are open together make their user overlapped. *)
LEMMA AloneStep ==
  ASSUME TypeOK, AloneUnlessOverlapped, [Next]_vars
  PROVE  AloneUnlessOverlapped'
<1> USE DEF rows
<1>1. \A d \in Calls : Owner(d)' = Owner(d) /\ Subject(d)' = Subject(d)
  BY DEF Owner, Subject
<1>2. Open \subseteq Calls /\ Open' \subseteq Calls
  BY DEF Open
<1>3. ASSUME NEW c \in Calls, Begin(c)
      PROVE  AloneUnlessOverlapped'
  <2>1. /\ pc'[c] \in {"begun", "done"} /\ \A d \in Calls : d # c => pc'[d] = pc[d]
        /\ pc[c] = "idle"
    BY <1>3, Places DEF Begin
  <2>2. \A d \in Open' : d = c \/ d \in Open
    BY <2>1 DEF Open
  <2>3. /\ overlapped' = overlapped \cup ({Owner(d) : d \in Open} \cap {Owner(c)})
        /\ UNCHANGED <<available, held, success, seen>>
    BY <1>3 DEF Begin
  <2>4. c \in Open' /\ c \in Callbacks => Subject(c) \notin success
    <3>1. c \in Open' => ~AlreadyDone(c)
      BY <1>3, <2>1 DEF Begin, Go, Open, TypeOK
    <3> QED
      BY <3>1 DEF AlreadyDone, Subject
  <2>5. ~HasRead(c)'
    BY <2>1 DEF HasRead
  <2>6. ASSUME NEW d \in Open', Owner(d) \notin overlapped'
        PROVE  /\ \A e \in Open' : Owner(e) = Owner(d) => e = d
               /\ HasRead(d)' => seen'[d] = [available |-> available'[Owner(d)],
                                             held |-> held'[Owner(d)]]
               /\ d \in Callbacks => Subject(d) \notin success'
    <3>1. \A e \in Open' : Owner(e) = Owner(d) => e = d
      BY <2>2, <2>3, <2>6 DEF AloneUnlessOverlapped
    <3>2. CASE d = c
      BY <2>3, <2>4, <2>5, <3>1, <3>2
    <3>3. CASE d # c
      <4>1. d \in Open /\ Owner(d) \notin overlapped /\ (HasRead(d)' <=> HasRead(d))
        BY <1>2, <2>1, <2>2, <2>3, <2>6, <3>3 DEF HasRead
      <4>2. /\ HasRead(d) => seen[d] = [available |-> available[Owner(d)],
                                        held |-> held[Owner(d)]]
            /\ d \in Callbacks => Subject(d) \notin success
        BY <4>1 DEF AloneUnlessOverlapped
      <4> QED
        BY <2>3, <3>1, <4>1, <4>2
    <3> QED
      BY <3>2, <3>3
  <2> QED
    BY <1>1, <1>2, <2>6 DEF AloneUnlessOverlapped
<1>4. ASSUME NEW c \in Open, UNCHANGED <<available, held, success, overlapped>>,
             Open' = Open,
             \A d \in Calls : d # c => seen'[d] = seen[d] /\ pc'[d] = pc[d],
             \/ seen'[c] = [available |-> available[Owner(c)], held |-> held[Owner(c)]]
             \/ seen'[c] = seen[c] /\ (HasRead(c)' => HasRead(c))
      PROVE  AloneUnlessOverlapped'
  <2>1. ASSUME NEW d \in Open, Owner(d) \notin overlapped
        PROVE  /\ \A e \in Open : Owner(e) = Owner(d) => e = d
               /\ HasRead(d)' => seen'[d] = [available |-> available[Owner(d)],
                                             held |-> held[Owner(d)]]
               /\ d \in Callbacks => Subject(d) \notin success
    <3>1. d # c => (HasRead(d)' <=> HasRead(d)) /\ seen'[d] = seen[d]
      BY <1>2, <1>4 DEF HasRead
    <3>2. /\ \A e \in Open : Owner(e) = Owner(d) => e = d
          /\ HasRead(d) => seen[d] = [available |-> available[Owner(d)],
                                      held |-> held[Owner(d)]]
          /\ d \in Callbacks => Subject(d) \notin success
      BY <2>1 DEF AloneUnlessOverlapped
    <3> QED
      BY <1>4, <3>1, <3>2
  <2> QED
    BY <1>1, <1>2, <1>4, <2>1 DEF AloneUnlessOverlapped
<1>5. ASSUME NEW c \in Calls, ReadWallet(c)
      PROVE  AloneUnlessOverlapped'
  <2>1. /\ c \in Open /\ Go(c, "read") /\ UNCHANGED <<available, held, success, overlapped>>
        /\ seen' = [seen EXCEPT ![c] = [available |-> available[Owner(c)],
                                        held |-> held[Owner(c)]]]
    BY <1>5 DEF ReadWallet, Open
  <2>2. Open' = Open /\ \A d \in Calls : d # c => pc'[d] = pc[d] /\ seen'[d] = seen[d]
    BY <2>1, Places DEF Open, TypeOK
  <2>3. seen'[c] = [available |-> available[Owner(c)], held |-> held[Owner(c)]]
    BY <2>1 DEF TypeOK
  <2> QED
    BY <1>4, <2>1, <2>2, <2>3
<1>6. ASSUME NEW c \in Calls, PostJournal(c)
      PROVE  AloneUnlessOverlapped'
  <2>1. /\ c \in Open /\ Go(c, "posted")
        /\ UNCHANGED <<available, held, success, overlapped, seen>>
    BY <1>6 DEF PostJournal, Open
  <2>2. Open' = Open /\ \A d \in Calls : d # c => pc'[d] = pc[d]
    BY <2>1, Places DEF Open
  <2>3. HasRead(c)' => HasRead(c)
    <3>1. c \in Withdrawals => pc[c] = "read"
      BY <1>6, CallTypes DEF PostJournal
    <3>2. pc'[c] = "posted"
      BY <2>1, Places
    <3> QED
      BY <3>1, <3>2 DEF HasRead
  <2> QED
    BY <1>4, <2>1, <2>2, <2>3
<1>7. ASSUME NEW c \in Calls, Abort(c)
      PROVE  AloneUnlessOverlapped'
  <2>1. /\ c \in Open /\ Go(c, "failed")
        /\ UNCHANGED <<available, held, success, overlapped>>
        /\ \A d \in Calls : d # c => seen'[d] = seen[d]
    BY <1>7 DEF Abort, TypeOK
  <2> QED
    BY <2>1, EndAlone
<1>8. ASSUME NEW c \in Calls, CreditDeposit(c) \/ Withdraw(c) \/ PlaceBet(c)
      PROVE  AloneUnlessOverlapped'
  <2>1. c \in Open /\ Go(c, "done") /\ Owner(c) \in Users
    BY <1>8, Steps, CallTypes DEF Open
  <2>2. /\ overlapped' = overlapped
        /\ \A d \in Calls : d # c => seen'[d] = seen[d]
    BY <1>8 DEF CreditDeposit, Withdraw, PlaceBet, Ends, TypeOK
  <2>3. /\ \A u \in Users : u # Owner(c) =>
             available'[u] = available[u] /\ held'[u] = held[u]
        /\ success' \subseteq success \cup {Subject(c)}
    <3>1. CASE CreditDeposit(c)
      BY <3>1, Steps, CallTypes DEF CreditDeposit, TypeOK
    <3>2. CASE Withdraw(c)
      BY <3>2 DEF Withdraw, TypeOK
    <3>3. CASE PlaceBet(c)
      BY <3>3 DEF PlaceBet, TypeOK
    <3> QED
      BY <1>8, <3>1, <3>2, <3>3
  <2> QED
    BY <2>1, <2>2, <2>3, EndAlone
<1>9. ASSUME UNCHANGED vars
      PROVE  AloneUnlessOverlapped'
  BY <1>9 DEF vars, AloneUnlessOverlapped, Open, HasRead, Owner, Subject
<1> QED
  BY <1>3, <1>5, <1>6, <1>7, <1>8, <1>9 DEF Next

-----------------------------------------------------------------------------
(* Sums over deposits and spendings are amounts, and a new one adds its    *)
(* own amount.                                                             *)
LEMMA RowsTotal ==
  ASSUME NEW S, S \subseteq Deposits \cup Spendings
  PROVE  /\ Total(S, AmountOf) \in Nat
         /\ \A x \in (Deposits \cup Spendings) \ S :
              Total(S \cup {x}, AmountOf) = Total(S, AmountOf) + AmountOf[x]
<1>1. IsFiniteSet(Deposits \cup Spendings)
  BY TransactionAssumption, FS_Union DEF Spendings
<1>2. IsFiniteSet(S) /\ \A x \in Deposits \cup Spendings : AmountOf[x] \in Nat
  BY <1>1, FS_Subset, TransactionAssumption
<1>3. Total(S, AmountOf) \in Nat
  BY <1>2, CentsFinite
<1>4. ASSUME NEW x \in (Deposits \cup Spendings) \ S
      PROVE  Total(S \cup {x}, AmountOf) = Total(S, AmountOf) + AmountOf[x]
  BY <1>2, TotalAdd
<1> QED
  BY <1>3, <1>4

(* The sums a wallet stands for, by user. *)
In(u)    == Total(Of(u, success), AmountOf)
Out(u)   == Total(Of(u, withdrawn \cup placed), AmountOf)
Stake(u) == Total(Of(u, placed), AmountOf)

(* They are amounts. *)
LEMMA SumTypes ==
  ASSUME TypeOK, NEW u \in Users
  PROVE  In(u) \in Nat /\ Out(u) \in Nat /\ Stake(u) \in Nat
BY RowsTotal DEF TypeOK, Of, In, Out, Stake, Spendings

(* What a transaction that is alone has read is the row as it stands. *)
LEMMA SeenIsRow ==
  ASSUME AloneUnlessOverlapped, NEW c \in Open, HasRead(c), Owner(c) \notin overlapped
  PROVE  /\ seen[c].available = available[Owner(c)]
         /\ seen[c].held = held[Owner(c)]
         /\ c \in Callbacks => Subject(c) \notin success
<1>1. /\ seen[c] = [available |-> available[Owner(c)], held |-> held[Owner(c)]]
      /\ c \in Callbacks => Subject(c) \notin success
  BY DEF AloneUnlessOverlapped
<1> QED
  BY <1>1

(* The transaction of a user that was alone writes a right row. *)
LEMMA RightStep ==
  ASSUME TypeOK, AloneUnlessOverlapped, RightUnlessOverlapped, [Next]_vars
  PROVE  RightUnlessOverlapped'
<1> USE DEF rows
<1>1. ASSUME NEW u \in Users \ overlapped
      PROVE  available[u] + Out(u) = In(u) /\ held[u] = Stake(u)
  BY DEF RightUnlessOverlapped, In, Out, Stake
<1>2. ASSUME \A u \in Users \ overlapped' :
               available'[u] + Out(u)' = In(u)' /\ held'[u] = Stake(u)'
      PROVE  RightUnlessOverlapped'
  BY <1>2 DEF RightUnlessOverlapped, In, Out, Stake
<1>3. ASSUME UNCHANGED rows, overlapped \subseteq overlapped'
      PROVE  RightUnlessOverlapped'
  BY <1>3 DEF RightUnlessOverlapped, Of
<1>4. ASSUME NEW c \in Calls, Begin(c) \/ ReadWallet(c) \/ PostJournal(c) \/ Abort(c)
      PROVE  RightUnlessOverlapped'
  BY <1>3, <1>4 DEF Begin, ReadWallet, PostJournal, Abort
<1>5. ASSUME NEW c \in Calls, CreditDeposit(c)
      PROVE  RightUnlessOverlapped'
  <2>1. /\ c \in Callbacks /\ c \in Open /\ HasRead(c)
        /\ Subject(c) = DepositOf[c] /\ Subject(c) \in Deposits
        /\ Owner(c) = UserOf[Subject(c)] /\ Amount(c) = AmountOf[Subject(c)]
        /\ Owner(c) \in Users /\ Amount(c) \in Nat
    BY <1>5, Steps, CallTypes DEF Open, HasRead, Owner, Amount
  <2>2. /\ available' = [available EXCEPT ![Owner(c)] = seen[c].available + Amount(c)]
        /\ success' = success \cup {Subject(c)}
        /\ UNCHANGED <<held, withdrawn, placed, overlapped>>
    BY <1>5, <2>1 DEF CreditDeposit, Ends
  <2>3. ASSUME NEW u \in Users \ overlapped
        PROVE  available'[u] + Out(u)' = In(u)' /\ held'[u] = Stake(u)'
    <3>1. Out(u)' = Out(u) /\ Stake(u)' = Stake(u)
      BY <2>2 DEF Out, Stake, Of
    <3>2. CASE u = Owner(c)
      <4>1. Subject(c) \notin success /\ seen[c].available = available[u]
        BY <2>1, <2>3, <3>2, SeenIsRow
      <4>2. Of(u, success)' = Of(u, success) \cup {Subject(c)}
            /\ Subject(c) \notin Of(u, success) /\ Of(u, success) \subseteq Deposits
        BY <2>1, <2>2, <3>2, <4>1 DEF Of, TypeOK
      <4>3. In(u)' = In(u) + Amount(c)
        BY <2>1, <4>2, RowsTotal DEF In
      <4>4. available'[u] = available[u] + Amount(c) /\ available[u] \in Nat
        BY <2>1, <2>2, <3>2, <4>1 DEF TypeOK
      <4> QED
        BY <1>1, <2>1, <2>2, <2>3, <3>1, <4>3, <4>4, SumTypes
    <3>3. CASE u # Owner(c)
      <4>1. Of(u, success)' = Of(u, success)
        BY <2>1, <2>2, <3>3 DEF Of
      <4>2. In(u)' = In(u)
        BY <4>1 DEF In
      <4>3. available'[u] = available[u]
        BY <2>2, <3>3 DEF TypeOK
      <4> QED
        BY <1>1, <2>2, <2>3, <3>1, <4>2, <4>3
    <3> QED
      BY <3>2, <3>3
  <2> QED
    BY <1>2, <2>2, <2>3
<1>6. ASSUME NEW c \in Calls, c \in Open, c \in Spendings, HasRead(c),
             c \notin withdrawn, c \notin placed,
             available' = [available EXCEPT ![Owner(c)] = seen[c].available - Amount(c)],
             withdrawn' \cup placed' = (withdrawn \cup placed) \cup {c},
             UNCHANGED <<success, overlapped>>,
             NEW u \in Users \ overlapped
      PROVE  available'[u] + Out(u)' = In(u)'
  <2>1. /\ Subject(c) = c /\ Owner(c) = UserOf[c] /\ Amount(c) = AmountOf[c]
        /\ Owner(c) \in Users /\ Amount(c) \in Nat
    BY <1>6, CallTypes DEF Owner, Amount
  <2>2. In(u)' = In(u)
    BY <1>6 DEF In, Of
  <2>3. Of(u, withdrawn \cup placed) \subseteq Spendings
    BY DEF Of, TypeOK, Spendings
  <2>4. CASE u = Owner(c)
    <3>1. seen[c].available = available[u] /\ available[u] \in Nat
      BY <1>6, <2>4, SeenIsRow DEF TypeOK
    <3>2. Of(u, withdrawn \cup placed)' = Of(u, withdrawn \cup placed) \cup {c}
          /\ c \notin Of(u, withdrawn \cup placed)
      BY <1>6, <2>1, <2>4 DEF Of
    <3>3. Out(u)' = Out(u) + Amount(c)
      BY <1>6, <2>1, <2>3, <3>2, RowsTotal DEF Out
    <3>4. available'[u] = available[u] - Amount(c)
      BY <1>6, <2>4, <3>1 DEF TypeOK
    <3> QED
      BY <1>1, <1>6, <2>1, <2>2, <3>1, <3>3, <3>4, SumTypes
  <2>5. CASE u # Owner(c)
    <3>1. Of(u, withdrawn \cup placed)' = Of(u, withdrawn \cup placed)
      BY <1>6, <2>1, <2>5 DEF Of
    <3>2. Out(u)' = Out(u)
      BY <3>1 DEF Out
    <3>3. available'[u] = available[u]
      BY <1>6, <2>5 DEF TypeOK
    <3> QED
      BY <1>1, <1>6, <2>2, <3>2, <3>3
  <2> QED
    BY <2>4, <2>5
<1>7. ASSUME NEW w \in Calls, Withdraw(w)
      PROVE  RightUnlessOverlapped'
  <2>1. w \in Withdrawals /\ w \in Spendings /\ w \in Open /\ HasRead(w)
    BY <1>7, Steps, CallTypes DEF Open, HasRead
  <2>2. /\ available' = [available EXCEPT ![Owner(w)] = seen[w].available - Amount(w)]
        /\ withdrawn' = withdrawn \cup {w}
        /\ UNCHANGED <<held, success, placed, overlapped>>
    BY <1>7 DEF Withdraw, Ends
  <2>3. w \notin withdrawn /\ w \notin placed
    BY <1>7, <2>1, CallTypes DEF Withdraw, KeyTaken, TypeOK
  <2>4. withdrawn' \cup placed' = (withdrawn \cup placed) \cup {w}
    BY <2>2
  <2>5. ASSUME NEW u \in Users \ overlapped
        PROVE  available'[u] + Out(u)' = In(u)' /\ held'[u] = Stake(u)'
    <3>1. available'[u] + Out(u)' = In(u)'
      BY <1>6, <2>1, <2>2, <2>3, <2>4
    <3>2. Stake(u)' = Stake(u)
      BY <2>2 DEF Stake, Of
    <3> QED
      BY <1>1, <2>2, <3>1, <3>2
  <2> QED
    BY <1>2, <2>2, <2>5
<1>8. ASSUME NEW b \in Calls, PlaceBet(b)
      PROVE  RightUnlessOverlapped'
  <2>1. /\ b \in Bets /\ b \in Spendings /\ b \in Open /\ HasRead(b)
        /\ Subject(b) = b /\ Owner(b) = UserOf[b] /\ Amount(b) = AmountOf[b]
        /\ Owner(b) \in Users /\ Amount(b) \in Nat
    BY <1>8, Steps, CallTypes DEF Open, HasRead, Owner, Amount
  <2>2. /\ available' = [available EXCEPT ![Owner(b)] = seen[b].available - Amount(b)]
        /\ held' = [held EXCEPT ![Owner(b)] = seen[b].held + Amount(b)]
        /\ placed' = placed \cup {b}
        /\ UNCHANGED <<success, withdrawn, overlapped>>
    BY <1>8 DEF PlaceBet, Ends
  <2>3. b \notin withdrawn /\ b \notin placed
    BY <1>8, <2>1, CallTypes DEF PlaceBet, KeyTaken, TypeOK
  <2>4. withdrawn' \cup placed' = (withdrawn \cup placed) \cup {b}
    BY <2>2
  <2>5. ASSUME NEW u \in Users \ overlapped
        PROVE  available'[u] + Out(u)' = In(u)' /\ held'[u] = Stake(u)'
    <3>1. available'[u] + Out(u)' = In(u)'
      BY <1>6, <2>1, <2>2, <2>3, <2>4
    <3>2. CASE u = Owner(b)
      <4>1. seen[b].held = held[u] /\ held[u] \in Nat
        BY <2>1, <2>5, <3>2, SeenIsRow DEF TypeOK
      <4>2. /\ Of(u, placed)' = Of(u, placed) \cup {b} /\ b \notin Of(u, placed)
            /\ Of(u, placed) \subseteq Spendings
        BY <2>1, <2>2, <2>3, <3>2 DEF Of, TypeOK, Spendings
      <4>3. Stake(u)' = Stake(u) + Amount(b)
        BY <2>1, <4>2, RowsTotal DEF Stake
      <4>4. held'[u] = held[u] + Amount(b)
        BY <2>1, <2>2, <3>2, <4>1 DEF TypeOK
      <4> QED
        BY <1>1, <2>5, <3>1, <4>1, <4>3, <4>4
    <3>3. CASE u # Owner(b)
      <4>1. Of(u, placed)' = Of(u, placed)
        BY <2>1, <2>2, <3>3 DEF Of
      <4>2. Stake(u)' = Stake(u) /\ held'[u] = held[u]
        BY <2>2, <3>3, <4>1 DEF Stake, TypeOK
      <4> QED
        BY <1>1, <2>5, <3>1, <4>2
    <3> QED
      BY <3>2, <3>3
  <2> QED
    BY <1>2, <2>2, <2>5
<1>9. CASE UNCHANGED vars
  BY <1>3, <1>9 DEF vars
<1> QED
  BY <1>4, <1>5, <1>7, <1>8, <1>9 DEF Next

-----------------------------------------------------------------------------
(* IInv holds at the start. *)
LEMMA InitInv ==
  ASSUME Init
  PROVE  IInv
<1>1. TypeOK
  BY DEF Init, TypeOK, Unread, Wallet
<1>2. SeenCovers /\ PostedFirst /\ JournalComesFirst /\ AloneUnlessOverlapped
  BY CallTypes DEF Init, SeenCovers, HasRead, PostedFirst, JournalComesFirst,
     AloneUnlessOverlapped, Open
<1>3. RightUnlessOverlapped
  <2>1. \A u : Of(u, {}) = {}
    BY DEF Of
  <2>2. Total({}, AmountOf) = 0
    BY TotalEmpty
  <2>3. \A u \in Users : available[u] = 0 /\ held[u] = 0
    BY DEF Init
  <2>4. success = {} /\ placed = {} /\ withdrawn \cup placed = {}
    BY DEF Init
  <2>5. ASSUME NEW u \in Users
        PROVE  /\ available[u] + Total(Of(u, withdrawn \cup placed), AmountOf)
                    = Total(Of(u, success), AmountOf)
               /\ held[u] = Total(Of(u, placed), AmountOf)
    BY <2>1, <2>2, <2>3, <2>4
  <2> QED
    BY <2>5 DEF RightUnlessOverlapped
<1> QED
  BY <1>1, <1>2, <1>3 DEF IInv

(* The inductive invariant of the read-committed database. *)
THEOREM Invariance == Spec => []IInv
<1>1. Init => IInv
  BY InitInv
<1>2. ASSUME IInv, [Next]_vars
      PROVE  IInv'
  <2>1. /\ TypeOK /\ SeenCovers /\ PostedFirst /\ JournalComesFirst
        /\ AloneUnlessOverlapped /\ RightUnlessOverlapped
    BY <1>2 DEF IInv
  <2>2. TypeOK' /\ SeenCovers' /\ PostedFirst'
    BY <1>2, <2>1, TypeStep, SeenStep, PostedStep
  <2>3. JournalComesFirst' /\ AloneUnlessOverlapped' /\ RightUnlessOverlapped'
    BY <1>2, <2>1, JournalStep, AloneStep, RightStep
  <2> QED
    BY <2>2, <2>3 DEF IInv
<1> QED
  BY <1>1, <1>2, PTL DEF Spec

(* The rows are of their types; no transaction writes a negative balance,  *)
(* however many of a user's are open together.                             *)
THEOREM TypeCorrect == Spec => []TypeOK
<1>1. IInv => TypeOK
  BY DEF IInv
<1> QED
  BY <1>1, Invariance, PTL

(* A payment that succeeded has its journal, and a journal without payment *)
(* belongs to a call that is open or has failed.                           *)
THEOREM JournalAhead == Spec => []JournalComesFirst
<1>1. IInv => JournalComesFirst
  BY DEF IInv
<1> QED
  BY <1>1, Invariance, PTL

(* A wallet whose user never had two transactions open together is right,  *)
(* to the cent: what goes wrong under read committed needs an overlap.     *)
THEOREM RightAlone == Spec => []RightUnlessOverlapped
<1>1. IInv => RightUnlessOverlapped
  BY DEF IInv
<1> QED
  BY <1>1, Invariance, PTL
=============================================================================
