------------------------------ MODULE Postgres ------------------------------
(***************************************************************************)
(* PrismaDatabase: the callbacks of deposits, the withdrawals and the      *)
(* placements of users, as transactions of a database that is read         *)
(* committed.                                                              *)
(*                                                                         *)
(* A transaction reads what is committed, each time it reads, and writes   *)
(* the balance it has read, more or less an amount; the row it writes is   *)
(* locked until it ends, so its writes and its commit are one step.  The   *)
(* ledger opens a transaction of its own, which commits by itself.         *)
(***************************************************************************)
EXTENDS Cents

CONSTANTS
    Users,
    Deposits,    \* the deposits, PENDING from the beginning
    Callbacks,   \* deliveries of callbacks that report a success
    Withdrawals, \* calls of initiateWithdrawal
    Bets,        \* calls of placeBet
    Keys,
    DepositOf,   \* the deposit of each callback
    KeyOf,       \* the idempotency key of each withdrawal and bet
    UserOf,
    AmountOf     \* in cents

Calls == Callbacks \cup Withdrawals \cup Bets
Spendings == Withdrawals \cup Bets

ASSUME TransactionAssumption ==
    /\ IsFiniteSet(Deposits) /\ IsFiniteSet(Withdrawals) /\ IsFiniteSet(Bets)
    /\ Deposits \cap Spendings = {} /\ Withdrawals \cap Bets = {}
    /\ Callbacks \cap Spendings = {}
    /\ DepositOf \in [Callbacks -> Deposits]
    /\ KeyOf \in [Spendings -> Keys]
    /\ UserOf \in [Deposits \cup Spendings -> Users]
    /\ AmountOf \in [Deposits \cup Spendings -> Nat \ {0}]

VARIABLES
    available, held, \* the columns of the wallets, as committed
    success,    \* deposits whose status is SUCCESS
    withdrawn,  \* withdrawals whose payment has been created
    placed,     \* bets that have been created, with their slips
    journals,   \* the payments whose journal the ledger has
    pc,         \* where each call is
    seen,       \* the wallet as the call has read it
    overlapped  \* users of whom two transactions have been open together

rows == <<available, held, success, withdrawn, placed>>
vars == <<rows, journals, pc, seen, overlapped>>

Wallet == [available: Nat, held: Nat]
Unread == [available |-> 0, held |-> 0]
Open == {c \in Calls : pc[c] \in {"begun", "read", "posted"}}

TypeOK ==
    /\ available \in [Users -> Nat]
    /\ held \in [Users -> Nat]
    /\ success \subseteq Deposits
    /\ withdrawn \subseteq Withdrawals
    /\ placed \subseteq Bets
    /\ journals \subseteq Deposits \cup Withdrawals
    /\ pc \in [Calls -> {"idle", "begun", "read", "posted", "done", "failed"}]
    /\ seen \in [Calls -> Wallet]
    /\ overlapped \subseteq Users

Init ==
    /\ available = [u \in Users |-> 0]
    /\ held = [u \in Users |-> 0]
    /\ success = {}
    /\ withdrawn = {}
    /\ placed = {}
    /\ journals = {}
    /\ pc = [c \in Calls |-> "idle"]
    /\ seen = [c \in Calls |-> Unread]
    /\ overlapped = {}

-----------------------------------------------------------------------------
(* What a call is about: its deposit, or itself; and whose wallet it is.   *)
Subject(c) == IF c \in Callbacks THEN DepositOf[c] ELSE c
Owner(c)   == UserOf[Subject(c)]
Amount(c)  == AmountOf[Subject(c)]

Go(c, where) == pc' = [pc EXCEPT ![c] = where]

(* The first reading of a transaction: the deposit has its final status,   *)
(* or the key has its payment or slip.  StatusUnread forgets the former.   *)
KeyTaken(c) == \/ c \in Withdrawals /\ \E w \in withdrawn : KeyOf[w] = KeyOf[c]
               \/ c \in Bets /\ \E b \in placed : KeyOf[b] = KeyOf[c]
StatusUnread(c) == c \in Spendings /\ KeyTaken(c)
AlreadyDone(c) == IF c \in Callbacks THEN DepositOf[c] \in success ELSE KeyTaken(c)

Begin(c) ==
    /\ pc[c] = "idle"
    /\ Go(c, IF AlreadyDone(c) THEN "done" ELSE "begun")
    /\ overlapped' = overlapped \cup ({Owner(d) : d \in Open} \cap {Owner(c)})
    /\ UNCHANGED <<rows, journals, seen>>

(* The wallet must cover what is taken from it, as it is read; SomeMoney   *)
(* asks for any balance at all.                                            *)
SomeMoney(c) == c \in Spendings => available[Owner(c)] > 0
Covered(c)   == c \in Spendings => available[Owner(c)] >= Amount(c)

ReadWallet(c) ==
    LET u == Owner(c) IN
    /\ pc[c] = IF c \in Callbacks THEN "posted" ELSE "begun"
    /\ Covered(c)
    /\ seen' = [seen EXCEPT ![c] = [available |-> available[u], held |-> held[u]]]
    /\ Go(c, "read")
    /\ UNCHANGED <<rows, journals, overlapped>>

(* postJournal, for the payment of the call.  The journal of a deposit is  *)
(* found by its key when another delivery has posted it; a withdrawal has  *)
(* a new payment, and a new key, in every call.                            *)
PostJournal(c) ==
    /\ \/ c \in Callbacks /\ pc[c] = "begun"
       \/ c \in Withdrawals /\ pc[c] = "read"
    /\ journals' = journals \cup {Subject(c)}
    /\ Go(c, "posted")
    /\ UNCHANGED <<rows, seen, overlapped>>

(* The transaction writes and commits.  A callback and a withdrawal write  *)
(* the available column only, a placement both; all of them write what     *)
(* they have read, changed by their amount.  EarlyDebit commits what was   *)
(* not posted.                                                             *)
EarlyDebit(c) == pc[c] = "read"
Ready(c) == pc[c] = IF c \in Withdrawals THEN "posted" ELSE "read"

Ends(c) ==
    /\ Go(c, "done")
    /\ seen' = [seen EXCEPT ![c] = Unread]
    /\ UNCHANGED <<journals, overlapped>>

CreditDeposit(c) ==
    /\ c \in Callbacks /\ Ready(c)
    /\ available' = [available EXCEPT ![Owner(c)] = seen[c].available + Amount(c)]
    /\ success' = success \cup {DepositOf[c]}
    /\ Ends(c)
    /\ UNCHANGED <<held, withdrawn, placed>>

(* The unique indexes refuse a second payment or slip under a key. *)
Withdraw(w) ==
    /\ w \in Withdrawals /\ Ready(w) /\ ~KeyTaken(w)
    /\ available' = [available EXCEPT ![Owner(w)] = seen[w].available - Amount(w)]
    /\ withdrawn' = withdrawn \cup {w}
    /\ Ends(w)
    /\ UNCHANGED <<held, success, placed>>

PlaceBet(b) ==
    /\ b \in Bets /\ Ready(b) /\ ~KeyTaken(b)
    /\ available' = [available EXCEPT ![Owner(b)] = seen[b].available - Amount(b)]
    /\ held' = [held EXCEPT ![Owner(b)] = seen[b].held + Amount(b)]
    /\ placed' = placed \cup {b}
    /\ Ends(b)
    /\ UNCHANGED <<success, withdrawn>>

(* The funds do not suffice, an index refuses a row, the transaction runs  *)
(* into its timeout or the connection is lost: nothing of it is written.   *)
Abort(c) ==
    /\ c \in Open
    /\ Go(c, "failed")
    /\ seen' = [seen EXCEPT ![c] = Unread]
    /\ UNCHANGED <<rows, journals, overlapped>>

Next == \E c \in Calls :
    \/ Begin(c) \/ ReadWallet(c) \/ PostJournal(c) \/ Abort(c)
    \/ CreditDeposit(c) \/ Withdraw(c) \/ PlaceBet(c)

Spec == Init /\ [][Next]_vars

-----------------------------------------------------------------------------
Of(u, S) == {x \in S : UserOf[x] = u}

(* The wallet of a user whose transactions have never been open together   *)
(* is right, to the cent and whatever was delivered twice, sent again or   *)
(* aborted at whichever point.                                             *)
RightUnlessOverlapped ==
    \A u \in Users \ overlapped :
        /\ available[u] + Total(Of(u, withdrawn \cup placed), AmountOf)
             = Total(Of(u, success), AmountOf)
        /\ held[u] = Total(Of(u, placed), AmountOf)

(* The ledger is ahead of the payments and never behind: a payment that    *)
(* succeeded has its journal, and a journal whose payment has not is of a  *)
(* call that is open or has failed.                                        *)
JournalComesFirst ==
    /\ success \cup withdrawn \subseteq journals
    /\ \A p \in journals \ (success \cup withdrawn) :
         \E c \in Calls : Subject(c) = p /\ pc[c] \in {"read", "posted", "failed"}

-----------------------------------------------------------------------------
(***************************************************************************)
(* What the documents say and the code does not do.                        *)
(***************************************************************************)

(* docs/ARCHITECTURE.md: idempotency keys, and serializable transactions   *)
(* or locked rows, prevent double spending; so what a user has staked and  *)
(* withdrawn is no more than what was deposited.                           *)
NoDoubleSpending ==
    \A u \in Users :
        Total(Of(u, withdrawn \cup placed), AmountOf) <= Total(Of(u, success), AmountOf)
=============================================================================
