------------------------------- MODULE BetBook -------------------------------
(***************************************************************************)
(* What the betting core promises a bettor, without ledger, holds or legs: *)
(* a stake is taken once, when the bet opens; a bet that closes has one    *)
(* payout; only the correction of an event reopens closed bets, all those  *)
(* with a leg on it, and it takes their payouts back before it closes them *)
(* again; and the wallet shows nothing but the sum of all that.            *)
(***************************************************************************)
EXTENDS Cents

CONSTANTS Users, Bets, Events, Funds

VARIABLES
    owner, stake, events,  \* of each bet, fixed
    open, closed,          \* sets of bets
    payout,                \* standing payout of each bet
    audit,                 \* number of corrections of each event
    balance, exposure      \* the wallet of each user

bookVars == <<owner, stake, events, open, closed, payout, audit, balance, exposure>>

Of(B, u) == {b \in B : owner[b] = u}

Balance(taken, paid, u) ==
    Funds[u] - Total(Of(taken, u), stake) + Total(Of(Bets, u), paid)

Init ==
    /\ open = {} /\ closed = {}
    /\ payout = [b \in Bets |-> 0]
    /\ audit = [e \in Events |-> 0]
    /\ balance = Funds
    /\ exposure = [u \in Users |-> 0]

(* A new bet is covered by the balance of its owner. *)
Open(b) ==
    /\ b \notin open \cup closed
    /\ balance[owner[b]] >= stake[b]
    /\ open' = open \cup {b}
    /\ UNCHANGED <<closed, payout, audit>>

(* Some open bets close; nobody else's payout changes. *)
Close ==
    /\ open' \subseteq open
    /\ closed' = closed \cup (open \ open')
    /\ \A b \in Bets \ (open \ open') : payout'[b] = payout[b]
    /\ UNCHANGED audit

(* The closed bets with a leg on event e reopen, and then some bets close. *)
Correct(e) ==
    LET reopened == {b \in closed : e \in events[b]}
        again    == open \cup reopened
    IN  /\ audit' = [audit EXCEPT ![e] = @ + 1]
        /\ open' \subseteq again
        /\ closed' = (closed \ reopened) \cup (again \ open')
        /\ \A b \in open' : payout'[b] = 0
        /\ \A b \in Bets \ again : payout'[b] = payout[b]

(* After every step the wallet is what the book says it is. *)
WalletFollows ==
    /\ balance' = [u \in Users |-> Balance(open' \cup closed', payout', u)]
    /\ exposure' = [u \in Users |-> Total(Of(open', u), stake)]

Next ==
    /\ \/ \E b \in Bets : Open(b)
       \/ Close
       \/ \E e \in Events : Correct(e)
    /\ WalletFollows
    /\ UNCHANGED <<owner, stake, events>>

Spec == Init /\ [][Next]_bookVars
=============================================================================
