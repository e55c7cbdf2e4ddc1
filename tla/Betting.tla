------------------------------- MODULE Betting -------------------------------
(***************************************************************************)
(* The life of a bet: placement with a hold on the wallet, settlement of   *)
(* the event, correction (resettlement) of an event, and cash-out.         *)
(*                                                                         *)
(* InMemoryDatabase.transaction runs one transaction at a time and undoes  *)
(* all of it when the callback throws, so each service call is one action  *)
(* here; a call that throws changes nothing and is not a step.             *)
(*                                                                         *)
(* A bet is named by the idempotency key of its placement request: there   *)
(* is at most one slip, one bet and one wallet hold for each key.          *)
(*                                                                         *)
(* A leg is what the client sends of it: a selection and the event the     *)
(* client says it belongs to.  Nothing compares that event with the        *)
(* selection's; the placement checks, stores and settles by it, while the  *)
(* results come by the event the selection's market is on (EventOf).       *)
(***************************************************************************)
EXTENDS SettlementMath, Cents

CONSTANTS
    Users,       \* bettors of one tenant, each with one KES wallet
    Bets,        \* idempotency keys of the placement requests
    Events,      \* sporting events
    Selections,  \* selections of the markets of these events
    EventOf,     \* the event of each selection
    Outcomes,    \* outcomes the rule evaluator may give a selection
    Requests,    \* bodies of placement requests
    Funds,       \* what each user has deposited so far
    TaxRate,     \* withholding rate of a settlement, scaled
    DeadHeat,    \* factor of a dead heat, scaled
    MaxCorrections \* bound on the corrections of one event

AllOutcomes == (LegStatus \ {"PENDING"}) \cup {"DEAD_HEAT"}

SlipTypes == {"SINGLE", "ACCUMULATOR", "SYSTEM"}

LegIds == Selections \X Events
SelectionOf(l) == l[1]
EventNamed(l)  == l[2]

ASSUME FiniteAssumption == IsFiniteSet(Users) /\ IsFiniteSet(Bets)
ASSUME FixtureAssumption ==
    /\ EventOf \in [Selections -> Events]
    /\ Outcomes \subseteq AllOutcomes
ASSUME RequestAssumption ==
    Requests \subseteq [user: Users, stake: Nat, odds: Nat, type: SlipTypes,
                        legs: SUBSET LegIds]
ASSUME MoneyAssumption ==
    /\ Funds \in [Users -> Nat]
    /\ TaxRate \in 0 .. Scale
    /\ MaxCorrections \in Nat
    /\ DeadHeat \in 1 .. Scale - 1

VARIABLES
    request,       \* the request sent under each key; a retry repeats it
    status,        \* Bet.status, "NONE" before the bet exists
    payout,        \* Bet.payoutCents
    leg,           \* BetLeg.status of each leg of each bet
    hold,          \* WalletHold.status
    result,        \* last official outcome of a selection, "NONE" while ACTIVE
    corrections,   \* number of EVENT_RESETTLED entries of each event in auditLogs
    available,     \* Wallet.availableCents
    held,          \* Wallet.heldCents
    availableAcc,  \* credit balance of the ledger account USER_AVAILABLE
    holdAcc,       \* credit balance of the ledger account USER_HOLD
    journals,      \* settlement and cash-out journals posted so far
    flagged        \* users with an OPEN case NEGATIVE_BALANCE_AFTER_RESETTLEMENT

betVars    == <<status, payout, leg, hold>>
walletVars == <<available, held>>
ledgerVars == <<availableAcc, holdAcc, journals>>
vars == <<request, betVars, result, corrections, walletVars, ledgerVars, flagged>>

-----------------------------------------------------------------------------
BetStatus  == {"PLACED", "CASHED_OUT"} \cup Verdicts
HoldStatus == {"NONE", "ACTIVE", "COMMITTED", "RELEASED"}
JournalRow == [bet: Bets, kind: Kinds, hold: Nat, expense: Nat, credit: Nat,
               tax: Nat, ggr: Nat]

TypeOK ==
    /\ request \in [Bets -> Requests]
    /\ status \in [Bets -> {"NONE"} \cup BetStatus]
    /\ payout \in [Bets -> Nat]
    /\ leg \in [Bets -> [LegIds -> LegStatus]]
    /\ hold \in [Bets -> HoldStatus]
    /\ result \in [Selections -> {"NONE"} \cup Outcomes]
    /\ corrections \in [Events -> 0 .. MaxCorrections]
    /\ available \in [Users -> Int]
    /\ held \in [Users -> Nat]
    /\ availableAcc \in [Users -> Int]
    /\ holdAcc \in [Users -> Int]
    /\ journals \subseteq JournalRow
    /\ flagged \subseteq Users

Owner(b)  == request[b].user
Legs(b)   == request[b].legs
Stakes    == [b \in Bets |-> request[b].stake]
OwnedBy(B, u) == {b \in B : Owner(b) = u}
InStatus(S)   == {b \in Bets : status[b] \in S}
Settled       == InStatus(BetStatus \ {"PLACED"})

(* A leg on the event is enough for a bet to be reopened by a correction.  *)
(* WhollyOn overlooks the accumulators.                                    *)
WhollyOn(b, e) == \A l \in Legs(b) : EventNamed(l) = e
Touches(b, e) == \E l \in Legs(b) : EventNamed(l) = e

(* Clamped subtraction: what the engine leaves in heldCents. *)
ReleaseNothing(h, amount) == h
Release(h, amount) == IF h >= amount THEN h - amount ELSE 0

Init ==
    /\ request \in [Bets -> Requests]
    /\ status = [b \in Bets |-> "NONE"]
    /\ payout = [b \in Bets |-> 0]
    /\ leg = [b \in Bets |-> [l \in LegIds |-> "PENDING"]]
    /\ hold = [b \in Bets |-> "NONE"]
    /\ result = [s \in Selections |-> "NONE"]
    /\ corrections = [e \in Events |-> 0]
    /\ available = Funds
    /\ held = [u \in Users |-> 0]
    /\ availableAcc = Funds
    /\ holdAcc = [u \in Users |-> 0]
    /\ journals = {}
    /\ flagged = {}

-----------------------------------------------------------------------------
(* What placeBet checks of a slip before it opens the transaction.  Two    *)
(* legs of an accumulator must name different events.                      *)
ValidSlip(r) ==
    /\ r.stake > 0
    /\ r.legs # {}
    /\ r.type = "ACCUMULATOR" =>
         /\ Cardinality(r.legs) >= 2
         /\ \A k, l \in r.legs : k # l => EventNamed(k) # EventNamed(l)

(* The stake moves from availableCents to heldCents and the bet, its legs  *)
(* and its hold are created.  No journal is posted.  A repeated request    *)
(* finds its slip and changes nothing.  The user's status and the state    *)
(* of the market are those that let a placement through.                   *)
PlaceBet(b) ==
    LET r == request[b] IN
    /\ ValidSlip(r)
    /\ status[b] = "NONE"
    /\ \A l \in r.legs : result[SelectionOf(l)] = "NONE"
    /\ available[r.user] >= r.stake
    /\ available' = [available EXCEPT ![r.user] = @ - r.stake]
    /\ held' = [held EXCEPT ![r.user] = @ + r.stake]
    /\ status' = [status EXCEPT ![b] = "PLACED"]
    /\ hold' = [hold EXCEPT ![b] = "ACTIVE"]
    /\ UNCHANGED <<request, payout, leg, result, corrections, ledgerVars, flagged>>

-----------------------------------------------------------------------------
SelectionsOf(e) == {s \in Selections : EventOf[s] = e}

(* The evaluator settles a dead heat as a win with a factor below one. *)
RawStatusOf(given) == given
StatusOf(given) == IF given = "DEAD_HEAT" THEN "WON" ELSE given

(* The legs of the existing bets after event e got the outcomes out.  The  *)
(* legs that name e are settled, market by market; one whose selection is  *)
(* not of e is not among the outcomes, and LOST.                           *)
LegsAfter(e, out) ==
    [b \in Bets |-> [l \in LegIds |->
        IF /\ status[b] # "NONE" /\ l \in Legs(b)
           /\ EventNamed(l) = e /\ SelectionsOf(e) # {}
        THEN IF EventOf[SelectionOf(l)] = e THEN StatusOf(out[SelectionOf(l)]) ELSE "LOST"
        ELSE leg[b][l]]]

(* The bets of B with no pending leg left; DecidedAgain forgets that only  *)
(* open bets are to be settled.                                            *)
DecidedAgain(B, newLeg) ==
    {b \in InStatus(BetStatus) : \A l \in Legs(b) : newLeg[b][l] # "PENDING"}

Decided(B, newLeg) ==
    {b \in B : \A l \in Legs(b) : newLeg[b][l] # "PENDING"}

VerdictOf(b, newLeg) == Verdict({newLeg[b][l] : l \in Legs(b)})

(* The dead heats the engine sees are those of the event it is settling,   *)
(* whatever event the leg names.                                           *)
FactorOf(b, e, out) ==
    IF \E l \in Legs(b) : EventOf[SelectionOf(l)] = e /\ out[SelectionOf(l)] = "DEAD_HEAT"
    THEN DeadHeat
    ELSE Scale

JournalOf(b, e, out, rate) ==
    SettlementJournal(VerdictOf(b, LegsAfter(e, out)), request[b].stake,
                      request[b].odds, FactorOf(b, e, out), rate)

Row(b, j) == [bet |-> b, kind |-> j.kind, hold |-> j.hold,
              expense |-> j.expense, credit |-> j.credit, tax |-> j.tax,
              ggr |-> j.ggr]

(* postJournal returns the old transaction when the key is already used.   *)
(* The key names the bet; FreshForOwner has the key of a careless caller.  *)
FreshForOwner(b, kind) ==
    \A j \in journals : Owner(j.bet) = Owner(b) => j.kind # kind

Fresh(b, kind) == \A j \in journals : j.bet = b => j.kind # kind

Credits(J) == Total(J, [j \in J |-> j.credit])
Holds(J)   == Total(J, [j \in J |-> j.hold])
RowsOf(J, u) == {j \in J : Owner(j.bet) = u}

(* Settlement of event e, starting from the open bets B, the wallets and   *)
(* the ledger accounts it is given.  Each decided bet posts its journal,   *)
(* moves the money in the wallet and gets its verdict; if postJournal      *)
(* rejects one of the journals the whole transaction is undone.            *)
SettleFrom(e, out, rate, B, avail0, held0, avAcc0, hoAcc0) ==
    LET newLeg == LegsAfter(e, out)
        decided == Decided(B, newLeg)
        jn == [b \in decided |-> JournalOf(b, e, out, rate)]
        pay == [b \in decided |-> jn[b].credit]
        rows == {Row(b, jn[b]) : b \in {c \in decided : Fresh(c, jn[c].kind)}}
    IN
    /\ \A b \in decided : Postable(jn[b])
    /\ leg' = newLeg
    /\ result' = [s \in Selections |-> IF EventOf[s] = e THEN out[s] ELSE result[s]]
    /\ status' = [b \in Bets |->
         IF b \in decided THEN VerdictOf(b, newLeg)
         ELSE IF b \in B THEN "PLACED" ELSE status[b]]
    /\ payout' = [b \in Bets |->
         IF b \in decided THEN pay[b] ELSE IF b \in B THEN 0 ELSE payout[b]]
    /\ hold' = [b \in Bets |->
         IF b \notin decided THEN hold[b]
         ELSE IF VerdictOf(b, newLeg) \in {"WON", "HALF_WON"} THEN "COMMITTED"
         ELSE "RELEASED"]
    /\ available' = [u \in Users |-> avail0[u] + Total(OwnedBy(decided, u), pay)]
    /\ held' = [u \in Users |-> Release(held0[u], Total(OwnedBy(decided, u), Stakes))]
    /\ journals' = journals \cup rows
    /\ availableAcc' = [u \in Users |-> avAcc0[u] + Credits(RowsOf(rows, u))]
    /\ holdAcc' = [u \in Users |-> hoAcc0[u] - Holds(RowsOf(rows, u))]

SettleEvent(e, out) ==
    /\ SettleFrom(e, out, TaxRate, InStatus({"PLACED"}), available, held,
                  availableAcc, holdAcc)
    /\ UNCHANGED <<request, corrections, flagged>>

(* Every bet with a leg on the event that is not PLACED is reopened: the   *)
(* journals of its settlements are reversed, its payout is taken back and  *)
(* its stake is held again.  Then the event is settled under the corrected *)
(* result, at the default tax rate, in the same transaction.  Cash-out     *)
(* journals have another reference type and are not reversed; a reversed   *)
(* journal stays, and is reversed again by a later correction.             *)
DefaultTaxRate == 2000

ReversedFor(reopened) ==
    {j \in journals : j.bet \in reopened /\ j.kind # "cashout"}

(* availableCents once the payouts of the reopened bets are taken back,    *)
(* and, for comparison, if those of the winning bets only were.            *)
AfterTakingBackWins(reopened) ==
    [u \in Users |-> available[u] - Total(OwnedBy(reopened \cap InStatus({"WON"}), u), payout)]
AfterTakingBack(reopened) ==
    [u \in Users |-> available[u] - Total(OwnedBy(reopened, u), payout)]

(* The users a risk case is opened for, and those it would be opened for   *)
(* if the balance was read before the payouts are taken back.              *)
OverdrawnBefore(reopened, avail0) ==
    {u \in Users : OwnedBy(reopened, u) # {} /\ available[u] < 0}
Overdrawn(reopened, avail0) ==
    {u \in Users : OwnedBy(reopened, u) # {} /\ avail0[u] < 0}

ResettleEvent(e, out) ==
    LET reopened == {b \in Settled : Touches(b, e)}
        reversed == ReversedFor(reopened)
        avail0 == AfterTakingBack(reopened)
        held0 == [u \in Users |-> held[u] + Total(OwnedBy(reopened, u), Stakes)]
    IN
    /\ corrections[e] < MaxCorrections
    /\ SettleFrom(e, out, DefaultTaxRate, InStatus({"PLACED"}) \cup reopened,
                  avail0, held0,
                  [u \in Users |-> availableAcc[u] - Credits(RowsOf(reversed, u))],
                  [u \in Users |-> holdAcc[u] + Holds(RowsOf(reversed, u))])
    /\ corrections' = [corrections EXCEPT ![e] = @ + 1]
    /\ flagged' = flagged \cup Overdrawn(reopened, avail0)
    /\ UNCHANGED request

(* getCashoutQuote and executeCashout, one after the other: the quote      *)
(* depends on the potential payout only, which never changes.              *)
Cashout(b) ==
    LET r == request[b]
        j == CashoutJournal(r.stake, r.odds)
        rows == IF Fresh(b, "cashout") THEN {Row(b, j)} ELSE {}
    IN
    /\ status[b] = "PLACED"
    /\ Postable(j)
    /\ journals' = journals \cup rows
    /\ availableAcc' = [availableAcc EXCEPT ![r.user] = @ + Credits(rows)]
    /\ holdAcc' = [holdAcc EXCEPT ![r.user] = @ - Holds(rows)]
    /\ available' = [available EXCEPT ![r.user] = @ + j.credit]
    /\ held' = [held EXCEPT ![r.user] = Release(@, r.stake)]
    /\ status' = [status EXCEPT ![b] = "CASHED_OUT"]
    /\ payout' = [payout EXCEPT ![b] = j.credit]
    /\ UNCHANGED <<request, leg, hold, result, corrections, flagged>>

Next ==
    \/ \E b \in Bets : PlaceBet(b)
    \/ \E b \in Bets : Cashout(b)
    \/ \E e \in Events : \E out \in [SelectionsOf(e) -> Outcomes] :
         SettleEvent(e, out) \/ ResettleEvent(e, out)

Spec == Init /\ [][Next]_vars

-----------------------------------------------------------------------------
(* heldCents is exactly the stakes of the bets still open, whatever mix of *)
(* settlements, corrections and cash-outs the wallet has been through; so  *)
(* the clamp in the engine (heldCents >= stake ? ... : 0) never hides a    *)
(* shortfall.                                                              *)
HeldBacksOpenBets ==
    \A u \in Users :
        held[u] = Total(OwnedBy(InStatus({"PLACED"}), u), Stakes)

(* availableCents is the deposits, less every stake taken, plus the payout *)
(* that stands on each bet: no bet is paid twice and no claw-back is lost  *)
(* or applied twice, however often its events are corrected.               *)
AvailableIsFundsStakesPayouts ==
    \A u \in Users :
        available[u] = Funds[u] - Total(OwnedBy(InStatus(BetStatus), u), Stakes)
                                + Total(OwnedBy(Bets, u), payout)

(* A wallet is below zero only for a user whose risk case is open, the one *)
(* that blocks withdrawals.                                                *)
NegativeOnlyIfFlagged == \A u \in Users : available[u] < 0 => u \in flagged

Uncorrected(u) ==
    \A b \in OwnedBy(InStatus(BetStatus), u), e \in Events :
        Touches(b, e) => corrections[e] = 0

(* What the ledger owes a user in total is what the wallet shows in total, *)
(* for every user none of whose bets is on a corrected event.              *)
LedgerMatchesWallet ==
    \A u \in Users :
        Uncorrected(u) =>
            availableAcc[u] + holdAcc[u] = available[u] + held[u]

(* A bet is paid by the official results of all its legs, those settled    *)
(* earlier and those corrected while the bet was still open included; and  *)
(* a correction pays again every closed bet with a leg on the event, the   *)
(* accumulators that were decided by another event as well.  A leg under   *)
(* an event that is not its selection's counts as lost.  The engine looks  *)
(* for dead heats in the event it settles: excepted are the bets on        *)
(* several events whose results hold one.                                  *)
InItsEvent(l) == EventOf[SelectionOf(l)] = EventNamed(l)

OfficialStatus(l, res) ==
    IF InItsEvent(l) THEN StatusOf(res[SelectionOf(l)]) ELSE "LOST"

TiedIn(b, res) == \E l \in Legs(b) : res[SelectionOf(l)] = "DEAD_HEAT"

OnOneEvent(b) == \A k, l \in Legs(b) : EventNamed(k) = EventNamed(l)

OfficialPayout(b, res, rate) ==
    SettlementJournal(Verdict({OfficialStatus(l, res) : l \in Legs(b)}),
                      request[b].stake, request[b].odds,
                      IF TiedIn(b, res) THEN DeadHeat ELSE Scale,
                      rate).credit

Corrected(b) ==
    \E l \in Legs(b) : corrections'[EventNamed(l)] # corrections[EventNamed(l)]

PaidByOfficialResults ==
    [][\A b \in Bets :
         /\ status'[b] \in Verdicts /\ (status[b] = "PLACED" \/ Corrected(b))
         /\ OnOneEvent(b) \/ ~TiedIn(b, result')
         => payout'[b] \in {OfficialPayout(b, result', rate) :
                               rate \in {TaxRate, DefaultTaxRate}}]_vars

(* No settlement of any event is ever refused by the ledger: whatever the  *)
(* results, the journals of all the bets it decides balance and have no    *)
(* empty line, so one bet cannot keep all the others from being paid.      *)
EverySettlementPosts ==
    \A e \in Events : \A out \in [SelectionsOf(e) -> Outcomes] :
        \A b \in Decided(InStatus({"PLACED"}), LegsAfter(e, out)) :
            Postable(JournalOf(b, e, out, TaxRate))

(* The wallet, seen from the bettor's side, implements the abstract book:  *)
(* placement, settlement, correction and cash-out move money only the way  *)
(* the book allows.                                                        *)
Book == INSTANCE BetBook WITH
    owner    <- [b \in Bets |-> Owner(b)],
    stake    <- Stakes,
    events   <- [b \in Bets |-> {EventNamed(l) : l \in Legs(b)}],
    open     <- InStatus({"PLACED"}),
    closed   <- Settled,
    audit    <- corrections,
    balance  <- available,
    exposure <- held

ImplementsBetBook == Book!Spec

-----------------------------------------------------------------------------
(***************************************************************************)
(* What the documents say and the code does not do.                        *)
(***************************************************************************)

(* A user who cashed a bet out: those journals are another matter. *)
CashedOutOnce(u) == \E j \in journals : Owner(j.bet) = u /\ j.kind = "cashout"

(* docs/SETTLEMENT_EDGE_CASES.md: a correction reverses the journals of a  *)
(* settled bet and posts new, correct ones.                                *)
CorrectionPostsNewJournals ==
    \A u \in Users :
        ~CashedOutOnce(u) =>
            availableAcc[u] + holdAcc[u] = available[u] + held[u]
=============================================================================
