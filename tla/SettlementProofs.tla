-------------------------- MODULE SettlementProofs ---------------------------
(***************************************************************************)
(* The safety of the settlement, in three parts, for every set of users,   *)
(* bets, events, selections, markets, lines, requests and rulings: the     *)
(* arithmetic of its journals; the evaluator and the feeds, by which a     *)
(* selection gets its outcome (Results); and the bets, wallets and ledger  *)
(* that the outcomes are applied to (Betting).                             *)
(***************************************************************************)
EXTENDS Betting, Results, CentsTheorems, FiniteSetTheorems, TLAPS

(***************************************************************************)
(* The arithmetic of a settlement, for every stake, odds, factor and rate. *)
(***************************************************************************)
(* A product grows with its second factor. *)
LEMMA ProductMonotone ==
  ASSUME NEW a \in Nat, NEW m \in Nat, NEW n \in Nat, m <= n
  PROVE  a * m <= a * n /\ a * m \in Nat /\ a * n \in Nat
OBVIOUS

(* A potential payout is an amount, and at odds of at least 1.0000 it is   *)
(* not less than the stake.                                                *)
LEMMA PotentialPayoutBound ==
  ASSUME NEW stake \in Nat, NEW odds \in Nat
  PROVE  /\ PotentialPayout(stake, odds) \in Nat
         /\ odds >= Scale => PotentialPayout(stake, odds) >= stake
<1> DEFINE p == stake * odds
<1>1. p \in Nat
  BY ProductMonotone
<1>2. odds >= Scale => p >= stake * 10000
  BY ProductMonotone DEF Scale
<1> HIDE DEF p
<1>3. (p + 10000 \div 2) \div 10000 \in Nat
  BY <1>1
<1>4. p >= stake * 10000 => (p + 10000 \div 2) \div 10000 >= stake
  BY <1>1
<1> QED
  BY <1>2, <1>3, <1>4 DEF PotentialPayout, p, Scale

(* A share is an amount; a factor of at most one takes no more than there  *)
(* is, odds of at least one return no less.                                *)
LEMMA ShareBound ==
  ASSUME NEW amount \in Nat, NEW factor \in Nat
  PROVE  /\ Share(amount, factor) \in Nat
         /\ factor <= Scale => Share(amount, factor) <= amount
         /\ factor >= Scale => Share(amount, factor) >= amount
<1> DEFINE p == amount * factor
<1>1. p \in Nat
  BY ProductMonotone
<1>2. factor <= Scale => p <= amount * 10000
  BY ProductMonotone DEF Scale
<1>3. factor >= Scale => p >= amount * 10000
  BY ProductMonotone DEF Scale
<1> HIDE DEF p
<1>4. p \div 10000 \in Nat
  BY <1>1
<1>5. /\ p <= amount * 10000 => p \div 10000 <= amount
      /\ p >= amount * 10000 => p \div 10000 >= amount
  BY <1>1
<1> QED
  BY <1>2, <1>3, <1>4, <1>5 DEF Share, p, Scale

(* A free bet pays no more than the profit the same bet would make in      *)
(* cash, which rounds its payout where the free bet cuts it off, and at    *)
(* most one cent less; the payout is an amount whatever the tax rate.      *)
THEOREM FreeBetPaysProfit ==
  ASSUME NEW stake \in Nat, NEW odds \in Nat, NEW rate \in 0 .. Scale, odds >= Scale
  PROVE  /\ FreeBetPayout(stake, odds, rate) \in 0 .. FreeBetWinnings(stake, odds)
         /\ stake + FreeBetWinnings(stake, odds) <= PotentialPayout(stake, odds)
         /\ PotentialPayout(stake, odds) <= stake + FreeBetWinnings(stake, odds) + 1
<1> DEFINE p == stake * odds
           won == FreeBetWinnings(stake, odds)
<1>1. p \in Nat
  BY ProductMonotone
<1>2. won = (p - stake * 10000) \div 10000
  <2>1. CASE stake = 0 \/ odds = Scale
    BY <2>1 DEF FreeBetWinnings, Scale
  <2>2. CASE stake > 0 /\ odds > Scale
    <3>1. stake * (odds - 10000) = p - stake * 10000
      OBVIOUS
    <3> QED
      BY <2>2, <3>1 DEF FreeBetWinnings, Share, Scale
  <2> QED
    BY <2>1, <2>2 DEF Scale
<1>3. p >= stake * 10000
  BY ProductMonotone DEF Scale
<1>4. PotentialPayout(stake, odds) = (p + 5000) \div 10000
  BY DEF PotentialPayout, Scale
<1> HIDE DEF p, won
<1>5. /\ won \in Nat
      /\ stake + won <= (p + 5000) \div 10000
      /\ (p + 5000) \div 10000 <= stake + won + 1
  BY <1>1, <1>2, <1>3
<1>6. Share(won, rate) \in Nat /\ Share(won, rate) <= won
  <2>1. rate \in Nat /\ rate <= Scale
    BY DEF Scale
  <2>2. won \in Nat
    BY <1>5
  <2> QED
    BY <2>1, <2>2, ShareBound, Zenon
<1>7. FreeBetPayout(stake, odds, rate) = won - Share(won, rate)
  BY DEF FreeBetPayout, won
<1> QED
  BY <1>4, <1>5, <1>6, <1>7 DEF won

(* The tax never reaches the stake: what is withheld is at most what was   *)
(* won over it.                                                            *)
LEMMA WithheldBound ==
  ASSUME NEW stake \in Nat, NEW gross \in Nat, NEW rate \in 0 .. Scale
  PROVE  /\ Withheld(stake, gross, rate) \in Nat
         /\ Withheld(stake, gross, rate) <= Excess(gross, stake)
         /\ gross - Withheld(stake, gross, rate) \in Nat
<1>1. CASE gross <= stake \/ rate <= 0
  BY <1>1 DEF Withheld, Excess
<1>2. CASE ~(gross <= stake \/ rate <= 0)
  <2> DEFINE d == gross - stake
             p == d * rate
  <2>1. d \in Nat /\ rate \in Nat /\ rate <= 10000
    BY <1>2 DEF Scale
  <2>2. p \in Nat /\ p <= d * 10000
    <3> HIDE DEF d
    <3> QED
      BY <2>1, ProductMonotone
  <2>3. Withheld(stake, gross, rate) = (p + 10000 \div 2) \div 10000
    BY <1>2 DEF Withheld, Scale
  <2>4. Excess(gross, stake) = d
    BY <1>2 DEF Excess
  <2>5. (p + 10000 \div 2) \div 10000 \in Nat /\ (p + 10000 \div 2) \div 10000 <= d
    <3> HIDE DEF p, d
    <3> QED
      BY <2>1, <2>2
  <2>6. d <= gross
    BY <2>1
  <2> QED
    BY <2>1, <2>3, <2>4, <2>5, <2>6
<1> QED
  BY <1>1, <1>2

-----------------------------------------------------------------------------
Amounts(j) ==
    /\ j.kind \in Kinds
    /\ j.hold \in Nat /\ j.expense \in Nat
    /\ j.credit \in Nat /\ j.tax \in Nat /\ j.ggr \in Nat

(* A won bet: all the amounts are amounts, the whole stake leaves the hold *)
(* and, at odds of at least 1.0000, the journal balances and pays at least *)
(* the stake.                                                              *)
LEMMA WinJournalFacts ==
  ASSUME NEW stake \in Nat, NEW odds \in Nat, NEW rate \in 0 .. Scale
  PROVE  LET j == WinJournal(stake, odds, rate)
         IN  /\ Amounts(j) /\ j.hold = stake /\ j.kind = "win"
             /\ odds >= Scale => Balanced(j) /\ j.credit >= stake
<1> DEFINE gross == PotentialPayout(stake, odds)
           tax   == Withheld(stake, gross, rate)
<1>1. gross \in Nat /\ (odds >= Scale => gross >= stake)
  BY PotentialPayoutBound
<1>2. tax \in Nat /\ tax <= Excess(gross, stake) /\ gross - tax \in Nat
  BY <1>1, WithheldBound
<1> HIDE DEF gross, tax
<1>3. WinJournal(stake, odds, rate) =
        Journal("win", stake, Excess(gross, stake), gross - tax, tax, 0)
  BY DEF WinJournal, gross, tax
<1> QED
  BY <1>1, <1>2, <1>3 DEF Journal, Amounts, Kinds, Balanced, Excess

(* The same for a dead heat, whose stake is cut by the factor.             *)
LEMMA DeadHeatJournalFacts ==
  ASSUME NEW stake \in Nat, NEW odds \in Nat, NEW rate \in 0 .. Scale,
         NEW factor \in 0 .. Scale
  PROVE  LET j == DeadHeatJournal(stake, odds, factor, rate)
         IN  /\ Amounts(j) /\ j.hold = stake /\ j.kind = "deadheat"
             /\ odds >= Scale => Balanced(j)
<1> DEFINE effective == Share(stake, factor)
           gross == Share(effective, odds)
           tax   == Withheld(effective, gross, rate)
<1>1. factor \in Nat /\ factor <= Scale
  BY DEF Scale
<1>2. effective \in Nat /\ effective <= stake
  BY <1>1, ShareBound
<1>3. gross \in Nat /\ (odds >= Scale => gross >= effective)
  BY <1>2, ShareBound
<1>4. tax \in Nat /\ tax <= Excess(gross, effective) /\ gross - tax \in Nat
  BY <1>2, <1>3, WithheldBound
<1> HIDE DEF gross, tax, effective
<1>5. DeadHeatJournal(stake, odds, factor, rate) =
        Journal("deadheat", stake, Excess(gross, effective), gross - tax, tax,
                stake - effective)
  BY DEF DeadHeatJournal, gross, tax, effective
<1> QED
  BY <1>2, <1>3, <1>4, <1>5 DEF Journal, Amounts, Kinds, Balanced, Excess

(* The same for a half-won bet. *)
LEMMA HalfWinJournalFacts ==
  ASSUME NEW stake \in Nat, NEW odds \in Nat, NEW rate \in 0 .. Scale
  PROVE  LET j == HalfWinJournal(stake, odds, rate)
         IN  /\ Amounts(j) /\ j.hold = stake /\ j.kind = "halfwin"
             /\ odds >= Scale => Balanced(j) /\ j.credit >= stake
<1> DEFINE half  == stake \div 2
           share == Share(half, odds)
           gross == share + (stake - half)
           tax   == Withheld(stake, gross, rate)
<1>1. half \in Nat /\ half <= stake
  OBVIOUS
<1>2. share \in Nat /\ (odds >= Scale => share >= half)
  <2> HIDE DEF half
  <2> QED
    BY <1>1, ShareBound
<1> HIDE DEF half, share
<1>3. gross \in Nat /\ (odds >= Scale => gross >= stake)
  BY <1>1, <1>2
<1> HIDE DEF gross
<1>4. tax \in Nat /\ tax <= Excess(gross, stake) /\ gross - tax \in Nat
  BY <1>3, WithheldBound
<1> HIDE DEF tax
<1>5. HalfWinJournal(stake, odds, rate) =
        Journal("halfwin", stake, Excess(gross, stake), gross - tax, tax, 0)
  BY DEF HalfWinJournal, half, share, gross, tax
<1> QED
  BY <1>3, <1>4, <1>5 DEF Journal, Amounts, Kinds, Balanced, Excess

(* The same for a cash-out, whatever the odds. *)
LEMMA CashoutJournalFacts ==
  ASSUME NEW stake \in Nat, NEW odds \in Nat
  PROVE  LET j == CashoutJournal(stake, odds)
         IN  Amounts(j) /\ j.hold = stake /\ j.kind = "cashout" /\ Balanced(j)
<1>1. PotentialPayout(stake, odds) \in Nat
  BY PotentialPayoutBound
<1>2. CashoutQuote(stake, odds) \in Nat
  BY <1>1 DEF CashoutQuote
<1> DEFINE quote == CashoutQuote(stake, odds)
<1> HIDE DEF quote
<1>3. CashoutJournal(stake, odds) =
        Journal("cashout", stake, Excess(quote, stake), quote, 0, Excess(stake, quote))
  BY DEF CashoutJournal, quote
<1>4. quote \in Nat
  BY <1>2 DEF quote
<1> QED
  BY <1>3, <1>4 DEF Journal, Amounts, Kinds, Balanced, Excess

(* Whatever the verdict, the journal of a settlement has amounts that are  *)
(* amounts and takes exactly the stake out of the hold.                    *)
THEOREM SettlementJournalAmounts ==
  ASSUME NEW verdict \in Verdicts, NEW stake \in Nat, NEW odds \in Nat,
         NEW factor \in 0 .. Scale, NEW rate \in 0 .. Scale
  PROVE  LET j == SettlementJournal(verdict, stake, odds, factor, rate)
         IN  Amounts(j) /\ j.hold = stake /\ j.kind # "cashout"
<1>1. CASE verdict = "WON" /\ factor < Scale
  BY <1>1, DeadHeatJournalFacts DEF SettlementJournal, DeadHeatJournal, Journal
<1>2. CASE verdict = "WON" /\ ~(factor < Scale)
  BY <1>2, WinJournalFacts DEF SettlementJournal, WinJournal, Journal
<1>3. CASE verdict = "HALF_WON"
  BY <1>3, HalfWinJournalFacts DEF SettlementJournal, HalfWinJournal, Journal
<1>4. CASE verdict \in {"HALF_LOST", "LOST", "VOIDED"}
  BY <1>4 DEF SettlementJournal, HalfLossJournal, LossJournal, VoidJournal,
              Journal, Amounts, Kinds
<1> QED
  BY <1>1, <1>2, <1>3, <1>4 DEF Verdicts

(* A stake of two cents or more, at odds of at least 1.0000, is settled by *)
(* a journal the ledger accepts, whatever the verdict, the dead-heat       *)
(* factor and the tax rate.                                                *)
THEOREM SettlementJournalPostable ==
  ASSUME NEW verdict \in Verdicts, NEW stake \in Nat, NEW odds \in Nat,
         NEW factor \in 0 .. Scale, NEW rate \in 0 .. Scale,
         stake >= 2, odds >= Scale
  PROVE  Postable(SettlementJournal(verdict, stake, odds, factor, rate))
<1> DEFINE j == SettlementJournal(verdict, stake, odds, factor, rate)
<1>1. CASE verdict = "WON" /\ factor < Scale
  <2>1. Amounts(j) /\ j.hold = stake /\ j.kind = "deadheat" /\ Balanced(j)
    BY <1>1, DeadHeatJournalFacts DEF SettlementJournal
  <2> HIDE DEF j
  <2>2. Pushed(j) = {j.hold}
    BY <2>1 DEF Pushed
  <2> QED
    BY <2>1, <2>2 DEF Postable, j
<1>2. CASE verdict = "WON" /\ ~(factor < Scale)
  <2>1. /\ Amounts(j) /\ j.hold = stake /\ j.kind = "win"
        /\ Balanced(j) /\ j.credit >= stake
    BY <1>2, WinJournalFacts DEF SettlementJournal
  <2> HIDE DEF j
  <2>2. Pushed(j) = {j.hold, j.credit}
    BY <2>1 DEF Pushed
  <2> QED
    BY <2>1, <2>2 DEF Postable, Amounts, j
<1>3. CASE verdict = "HALF_WON"
  <2>1. /\ Amounts(j) /\ j.hold = stake /\ j.kind = "halfwin"
        /\ Balanced(j) /\ j.credit >= stake
    BY <1>3, HalfWinJournalFacts DEF SettlementJournal
  <2> HIDE DEF j
  <2>2. Pushed(j) = {j.hold, j.credit}
    BY <2>1 DEF Pushed
  <2> QED
    BY <2>1, <2>2 DEF Postable, Amounts, j
<1>4. CASE verdict \in {"HALF_LOST", "LOST", "VOIDED"}
  BY <1>4 DEF SettlementJournal, HalfLossJournal, LossJournal, VoidJournal,
              Journal, Postable, Balanced, Pushed
<1> QED
  BY <1>1, <1>2, <1>3, <1>4 DEF Verdicts

(* What the bettor may be paid at most: the potential payout of the slip,  *)
(* or the stake if the odds are below 1.0000.                              *)
Within(credit, stake, odds) == credit <= PotentialPayout(stake, odds) \/ credit <= stake

(* A share at the odds, rounded off, is within the potential payout, which *)
(* is rounded half up.                                                     *)
LEMMA ShareWithin ==
  ASSUME NEW stake \in Nat, NEW odds \in Nat, NEW part \in Nat, part <= stake
  PROVE  /\ Share(part, odds) <= PotentialPayout(stake, odds)
         /\ Within(Share(part, odds) + (stake - part), stake, odds)
<1> DEFINE p == stake * odds
           q == part * odds
           rest == stake - part
           r == rest * odds
<1>1. q \in Nat /\ r \in Nat /\ p \in Nat /\ p = q + r /\ rest \in Nat
  BY ProductMonotone
<1>2. odds >= 10000 => rest * 10000 <= r
  <2> HIDE DEF rest
  <2> QED
    BY <1>1, ProductMonotone DEF r
<1>3. odds <= 10000 => Share(part, odds) <= part
  BY ShareBound DEF Scale
<1>4. PotentialPayout(stake, odds) = (p + 5000) \div 10000 /\ Share(part, odds) = q \div 10000
  BY DEF PotentialPayout, Share, Scale
<1>5. Share(part, odds) \in Nat
  BY ShareBound
<1> HIDE DEF p, q, r
<1>6. q \div 10000 <= (p + 5000) \div 10000
  BY <1>1
<1>7. odds >= 10000 => q \div 10000 + rest <= (p + 5000) \div 10000
  BY <1>1, <1>2
<1> QED
  BY <1>1, <1>3, <1>4, <1>5, <1>6, <1>7 DEF Within

(* No verdict, dead heat or cash-out pays more than the potential payout   *)
(* of the slip, or the stake: what RiskEngine counts as the house's        *)
(* exposure, and what the bettor was shown, is never exceeded by rounding. *)
THEOREM JournalPaysWithin ==
  ASSUME NEW stake \in Nat, NEW odds \in Nat
  PROVE  /\ \A verdict \in Verdicts, factor \in 0 .. Scale, rate \in 0 .. Scale :
              Within(SettlementJournal(verdict, stake, odds, factor, rate).credit, stake, odds)
         /\ Within(CashoutJournal(stake, odds).credit, stake, odds)
<1> DEFINE potential == PotentialPayout(stake, odds)
<1>1. potential \in Nat
  BY PotentialPayoutBound
<1>2. CashoutJournal(stake, odds).credit = (potential * 80) \div 100
  BY DEF CashoutJournal, CashoutQuote, Journal
<1>3. SUFFICES ASSUME NEW verdict \in Verdicts, NEW factor \in 0 .. Scale, NEW rate \in 0 .. Scale
      PROVE  Within(SettlementJournal(verdict, stake, odds, factor, rate).credit, stake, odds)
  <2> HIDE DEF potential
  <2>1. (potential * 80) \div 100 <= potential
    BY <1>1
  <2> QED
    BY <1>2, <2>1 DEF Within, potential
<1>4. CASE verdict = "WON" /\ factor < Scale
  <2> DEFINE effective == Share(stake, factor)
             gross == Share(effective, odds)
             tax == Withheld(effective, gross, rate)
  <2>1. factor \in Nat /\ factor <= Scale
    BY DEF Scale
  <2>2. effective \in Nat /\ effective <= stake
    BY <2>1, ShareBound
  <2> HIDE DEF effective
  <2>3. gross \in Nat /\ gross <= potential
    BY <2>2, ShareBound, ShareWithin
  <2> HIDE DEF gross, potential
  <2>4. tax \in Nat
    BY <2>2, <2>3, WithheldBound
  <2>5. SettlementJournal(verdict, stake, odds, factor, rate).credit = gross - tax
    BY <1>4 DEF SettlementJournal, DeadHeatJournal, Journal, effective, gross, tax
  <2> HIDE DEF tax
  <2> QED
    BY <1>1, <2>3, <2>4, <2>5 DEF Within, potential
<1>5. CASE verdict = "WON" /\ ~(factor < Scale)
  <2> DEFINE tax == Withheld(stake, potential, rate)
  <2>1. tax \in Nat
    BY <1>1, WithheldBound
  <2>2. SettlementJournal(verdict, stake, odds, factor, rate).credit = potential - tax
    BY <1>5 DEF SettlementJournal, WinJournal, Journal
  <2> HIDE DEF potential, tax
  <2>3. potential - tax <= potential
    BY <1>1, <2>1
  <2> QED
    BY <2>2, <2>3 DEF Within, potential
<1>6. CASE verdict = "HALF_WON"
  <2> DEFINE half == stake \div 2
             gross == Share(half, odds) + (stake - half)
             tax == Withheld(stake, gross, rate)
  <2>1. half \in Nat /\ half <= stake
    OBVIOUS
  <2> HIDE DEF half
  <2>2. gross \in Nat /\ Within(gross, stake, odds)
    <3>1. Share(half, odds) \in Nat
      BY <2>1, ShareBound
    <3>2. Within(gross, stake, odds)
      BY <2>1, ShareWithin
    <3> QED
      BY <2>1, <3>1, <3>2
  <2> HIDE DEF gross
  <2>3. tax \in Nat
    BY <2>2, WithheldBound
  <2>4. SettlementJournal(verdict, stake, odds, factor, rate).credit = gross - tax
    BY <1>6 DEF SettlementJournal, HalfWinJournal, Journal, half, gross, tax
  <2> HIDE DEF tax
  <2> QED
    BY <1>1, <2>2, <2>3, <2>4 DEF Within
<1>7. CASE verdict \in {"HALF_LOST", "LOST", "VOIDED"}
  BY <1>7 DEF SettlementJournal, HalfLossJournal, LossJournal, VoidJournal, Journal, Within
<1> QED
  BY <1>4, <1>5, <1>6, <1>7 DEF Verdicts

-----------------------------------------------------------------------------
(***************************************************************************)
(* The outcomes of selections.                                             *)
(***************************************************************************)
(* A settled market shows the outcomes of the last ruling, all of them. *)
OutcomesOfApplied ==
    \A m \in Markets : market[m] = "SETTLED" =>
        /\ applied \in Rulings
        /\ \A s \in Offered[m] : outcome[m][s] = OutcomeIn(m, s, applied)

(* The stages, scores and polls are of their types. *)
FeedTypes ==
    /\ match \in [stage: {"SCHEDULED", "LIVE", "FINISHED"}, home: Nat, away: Nat]
    /\ event \in [status: {"SCHEDULED", "LIVE", "FINISHED", "CANCELLED"},
                  home: Nat, away: Nat]
    /\ market \in [Markets -> {"NONE", "ACTIVE", "SETTLED"}]
    /\ applied \in Ruling \cup {NoRuling}
    /\ poll \in [Polls -> [told: BOOLEAN, home: Nat, away: Nat]]
    /\ finishing \in BOOLEAN

(* A query that has been told the match is over stays right. *)
ToldWhenOver == finishing => match.stage = "FINISHED"

ResultsInv ==
    /\ FeedTypes
    /\ OutcomesOfApplied
    /\ ToldWhenOver
    /\ FinishedAtFullTime

-----------------------------------------------------------------------------
(* The fields of rulings and selections. *)
LEMMA RulingTypes ==
  ASSUME NEW r \in Rulings
  PROVE  /\ r \in Ruling /\ r # NoRuling
         /\ r.home \in Nat /\ r.away \in Nat
         /\ r.places \in Nat \ {0}
         /\ r.status \in Voids \cup {"FINISHED"}
         /\ Cardinality(r.winners) \in Nat
<1>1. r \in Ruling /\ IsFiniteSet(r.winners)
  BY RulingAssumption
<1>2. /\ r.home \in Nat /\ r.away \in Nat /\ r.places \in Nat \ {0}
      /\ r.status \in Voids \cup {"FINISHED"}
  BY <1>1 DEF Ruling
<1>3. r # NoRuling
  BY <1>2 DEF NoRuling, Voids
<1> QED
  BY <1>1, <1>2, <1>3, FS_CardinalityType

(* The fields of a selection and its line. *)
LEMMA SelectionTypes ==
  ASSUME NEW m \in Markets, NEW s \in Offered[m]
  PROVE  /\ s.role \in STRING /\ s.named \in Naming
         /\ s.lined \in BOOLEAN /\ s.line \in Int
         /\ LineOf[m] \in Int
<1>1. s \in Selection
  BY MarketAssumption
<1> QED
  BY <1>1, MarketAssumption DEF Selection

(* A margin in quarter goals decides a bet as its two halves do, each on   *)
(* one of the half-goal lines next to it.                                  *)
LEMMA HalvesOfMargin ==
  ASSUME NEW n \in Int
  PROVE  Returned(Halves(n)) = IF n > 1 THEN "WON"
                               ELSE IF n = 1 THEN "HALF_WON"
                               ELSE IF n = 0 THEN "VOID"
                               ELSE IF n = -1 THEN "HALF_LOST"
                               ELSE "LOST"
<1>1. CASE n > 1
  <2>1. Halves(n) = 2
    BY <1>1 DEF Halves, Sign
  <2> QED
    BY <1>1, <2>1 DEF Returned
<1>2. CASE n = 1
  <2>1. Halves(n) = 1
    BY <1>2 DEF Halves, Sign
  <2> QED
    BY <1>2, <2>1 DEF Returned
<1>3. CASE n = 0
  <2>1. Halves(n) = 0
    BY <1>3 DEF Halves, Sign
  <2> QED
    BY <1>3, <2>1 DEF Returned
<1>4. CASE n = -1
  <2>1. Halves(n) = -1
    BY <1>4 DEF Halves, Sign
  <2> QED
    BY <1>4, <2>1 DEF Returned
<1>5. CASE n < -1
  <2>1. Halves(n) = -2
    BY <1>5 DEF Halves, Sign
  <2> QED
    BY <1>5, <2>1 DEF Returned
<1> QED
  BY <1>1, <1>2, <1>3, <1>4, <1>5

(* The evaluator gives a plain selection what the rules of the game say,   *)
(* market type by market type, for every score.                            *)
LEMMA EvaluatorFollowsRules ==
  ASSUME NEW m \in Markets, NEW s \in Offered[m], NEW r \in Rulings, Plain(m, s)
  PROVE  StatusIn(m, s, r) = RuleBook(m, s, r)
<1>1. /\ s.role \in STRING /\ s.lined \in BOOLEAN /\ s.line \in Int
      /\ LineOf[m] \in Int /\ r.home \in Nat /\ r.away \in Nat
      /\ s.named = "side" /\ Read(s) = s.role
  BY SelectionTypes, RulingTypes DEF Plain, Read
<1>2. CASE TypeOf[m] = "1X2"
  <2>1. s.role \in {"Home", "Away", "Draw"}
    BY <1>2 DEF Plain
  <2>2. ThreeWay(s, r) = WonIf(IF s.role = "Draw" THEN Lead(s, r) = 0 ELSE Lead(s, r) > 0)
    <3>1. CASE s.role = "Home"
      BY <1>1, <3>1 DEF ThreeWay, Side, Opposite, Lead, WonIf
    <3>2. CASE s.role = "Away"
      BY <1>1, <3>2 DEF ThreeWay, Side, Opposite, Lead, WonIf
    <3>3. CASE s.role = "Draw"
      BY <1>1, <3>3 DEF ThreeWay, Side, Opposite, Lead, WonIf
    <3> QED
      BY <2>1, <3>1, <3>2, <3>3
  <2> QED
    BY <1>2, <2>2 DEF StatusIn, RuleBook
<1>3. CASE TypeOf[m] = "DOUBLE_CHANCE"
  <2>1. s.role \in {"1X", "X2", "12"}
    BY <1>3 DEF Plain
  <2>2. CASE s.role = "1X"
    <3>1. Covers(s.role) = {"Home", "Draw"}
      BY <2>2 DEF Covers
    <3> QED
      BY <1>1, <1>3, <2>2, <3>1 DEF StatusIn, RuleBook, DoubleChance, Side
  <2>3. CASE s.role = "X2"
    <3>1. Covers(s.role) = {"Away", "Draw"}
      BY <2>3 DEF Covers
    <3> QED
      BY <1>1, <1>3, <2>3, <3>1 DEF StatusIn, RuleBook, DoubleChance, Side
  <2>4. CASE s.role = "12"
    <3>1. Covers(s.role) = {"Home", "Away"}
      BY <2>4 DEF Covers
    <3> QED
      BY <1>1, <1>3, <2>4, <3>1 DEF StatusIn, RuleBook, DoubleChance, Side
  <2> QED
    BY <2>1, <2>2, <2>3, <2>4
<1>4. CASE TypeOf[m] = "DRAW_NO_BET"
  <2>1. s.role \in {"Home", "Away"}
    BY <1>4 DEF Plain
  <2>2. Lead(s, r) \in Int /\ 4 * Lead(s, r) \in Int
    BY <1>1 DEF Lead
  <2>3. Returned(Halves(4 * Lead(s, r))) = IF Lead(s, r) > 0 THEN "WON"
                                           ELSE IF Lead(s, r) = 0 THEN "VOID" ELSE "LOST"
    BY <2>2, HalvesOfMargin
  <2>4. DrawNoBet(s, r) = IF Lead(s, r) > 0 THEN "WON"
                          ELSE IF Lead(s, r) = 0 THEN "VOID" ELSE "LOST"
    BY <1>1, <2>1 DEF DrawNoBet, Side, Lead, WonIf
  <2> QED
    BY <1>4, <2>3, <2>4 DEF StatusIn, RuleBook
<1>5. CASE TypeOf[m] = "OVER_UNDER"
  BY <1>5 DEF StatusIn, RuleBook, OverUnder
<1>6. CASE TypeOf[m] = "BOTH_TEAMS_TO_SCORE"
  <2>1. /\ (r.home > 0 /\ r.away > 0) <=> (r.home * r.away > 0)
        /\ (r.home * r.away = 0) <=> ~(r.home * r.away > 0)
    <3>1. CASE r.home = 0 \/ r.away = 0
      BY <1>1, <3>1
    <3>2. CASE r.home > 0 /\ r.away > 0
      <4>1. r.home * r.away >= r.home
        BY <1>1, <3>2, SMTT(30)
      <4> QED
        BY <1>1, <3>2, <4>1
    <3> QED
      BY <1>1, <3>1, <3>2
  <2>2. BothScore(s, r) = WonIf(IF s.role = "Yes" THEN r.home * r.away > 0
                                                 ELSE r.home * r.away = 0)
    BY <2>1 DEF BothScore, WonIf
  <2> QED
    BY <1>6, <2>2 DEF StatusIn, RuleBook
<1>7. CASE TypeOf[m] = "ASIAN_HANDICAP"
  <2>1. Margin(s, r, LineOf[m]) = 4 * Lead(s, r) + OwnLine(m, s)
    BY <1>1 DEF Margin, Lead, OwnLine, Plain
  <2>2. Margin(s, r, LineOf[m]) \in Int
    BY <1>1 DEF Margin
  <2>3. Handicap(s, r, LineOf[m]) = Returned(Halves(Margin(s, r, LineOf[m])))
    BY <2>2, HalvesOfMargin DEF Handicap
  <2> QED
    BY <1>7, <2>1, <2>3 DEF StatusIn, RuleBook
<1>8. CASE TypeOf[m] = "OUTRIGHT"
  BY <1>8 DEF StatusIn, RuleBook
<1>9. CASE TypeOf[m] \notin {"1X2", "DOUBLE_CHANCE", "DRAW_NO_BET", "OVER_UNDER",
                            "BOTH_TEAMS_TO_SCORE", "ASIAN_HANDICAP", "OUTRIGHT"}
  BY <1>9 DEF StatusIn, RuleBook
<1> QED
  BY <1>2, <1>3, <1>4, <1>5, <1>6, <1>7, <1>8, <1>9

(* An outcome is one of the statuses, and its factor at most one. *)
LEMMA OutcomeTypes ==
  ASSUME NEW m \in Markets, NEW s \in Offered[m], NEW r \in Rulings
  PROVE  /\ OutcomeIn(m, s, r).status \in Statuses
         /\ OutcomeIn(m, s, r).factor[1] \in 1 .. OutcomeIn(m, s, r).factor[2]
<1>1. StatusIn(m, s, r) \in Statuses
  BY DEF StatusIn, ThreeWay, DoubleChance, DrawNoBet, OverUnder, BothScore, Handicap,
         WonIf, Statuses
<1>2. /\ Factor(r)[1] \in 1 .. Factor(r)[2]
      /\ <<1, 1>>[1] \in 1 .. <<1, 1>>[2]
  BY RulingTypes DEF Factor
<1>3. OutcomeIn(m, s, r).status \in Statuses
  BY <1>1 DEF OutcomeIn, Statuses
<1>4. OutcomeIn(m, s, r).factor \in {Factor(r), <<1, 1>>}
  BY DEF OutcomeIn
<1> QED
  BY <1>2, <1>3, <1>4

(* A winner of an outright is paid its share of the places: with its       *)
(* factor all winners together get no more than the places there are.      *)
LEMMA SharesOfPlaces ==
  ASSUME NEW m \in Markets, TypeOf[m] = "OUTRIGHT", NEW s \in Offered[m],
         NEW r \in Rulings, OutcomeIn(m, s, r).status = "WON"
  PROVE  Cardinality(r.winners) * OutcomeIn(m, s, r).factor[1]
           <= r.places * OutcomeIn(m, s, r).factor[2]
<1>1. /\ OutcomeIn(m, s, r).status = StatusIn(m, s, r)
      /\ OutcomeIn(m, s, r).factor = IF s.role \in r.winners THEN Factor(r) ELSE <<1, 1>>
  BY DEF OutcomeIn
<1>2. s.role \in r.winners
  BY <1>1 DEF StatusIn, WonIf
<1>3. Cardinality(r.winners) \in Nat /\ r.places \in Nat
  BY RulingTypes
<1>4. CASE Cardinality(r.winners) > r.places
  <2>1. /\ OutcomeIn(m, s, r).factor[1] = r.places
        /\ OutcomeIn(m, s, r).factor[2] = Cardinality(r.winners)
    BY <1>1, <1>2, <1>4 DEF Factor
  <2> QED
    BY <1>3, <2>1
<1>5. CASE ~(Cardinality(r.winners) > r.places)
  <2>1. OutcomeIn(m, s, r).factor[1] = 1 /\ OutcomeIn(m, s, r).factor[2] = 1
    BY <1>1, <1>2, <1>5 DEF Factor
  <2> QED
    BY <1>3, <1>5, <2>1
<1> QED
  BY <1>4, <1>5

-----------------------------------------------------------------------------
(* Polls, results and settlements write scores and stages. *)
LEMMA FeedStep ==
  ASSUME FeedTypes, MaxGoals \in Nat, [ResultsNext]_resultsVars
  PROVE  FeedTypes'
<1> USE DEF settlement
<1>1. /\ match.home \in Nat /\ match.away \in Nat
      /\ match.stage \in {"SCHEDULED", "LIVE", "FINISHED"}
      /\ event.home \in Nat /\ event.away \in Nat
  BY DEF FeedTypes
<1>2. CASE KickOff \/ FullTime
  BY <1>2 DEF KickOff, FullTime, FeedTypes
<1>3. CASE Goal
  <2>1. match.home + 1 \in Nat /\ match.away + 1 \in Nat
    BY <1>1
  <2> QED
    BY <1>3, <2>1 DEF Goal, FeedTypes
<1>4. ASSUME NEW A \in Answers, ListMarkets(A)
      PROVE  FeedTypes'
  BY <1>4 DEF ListMarkets, FeedTypes
<1>5. ASSUME NEW p \in Polls, AskScore(p)
      PROVE  FeedTypes'
  <2> DEFINE PollRow == [told: BOOLEAN, home: Nat, away: Nat]
  <2>1. poll \in [Polls -> PollRow]
    BY DEF FeedTypes
  <2>2. [told |-> TRUE, home |-> match.home, away |-> match.away] \in PollRow
    BY <1>1
  <2>3. [NotTold EXCEPT !.told = TRUE] \in PollRow
    BY DEF NotTold
  <2>4. PICK row \in PollRow : poll' = [poll EXCEPT ![p] = row]
    BY <1>5, <2>2, <2>3 DEF AskScore
  <2>5. poll' \in [Polls -> PollRow]
    <3> HIDE DEF PollRow
    <3> QED
      BY <2>1, <2>4
  <2>6. UNCHANGED <<match, event, settlement, finishing>>
    BY <1>5 DEF AskScore
  <2> QED
    BY <2>5, <2>6 DEF FeedTypes
<1>6. ASSUME NEW p \in Polls, WriteScore(p)
      PROVE  FeedTypes'
  <2>1. poll[p].home \in Nat /\ poll[p].away \in Nat
    BY DEF FeedTypes
  <2>2. NotTold \in [told: BOOLEAN, home: Nat, away: Nat]
    BY DEF NotTold
  <2> QED
    BY <1>6, <2>1, <2>2 DEF WriteScore, FeedTypes
<1>7. CASE AskResult
  BY <1>7 DEF AskResult, FeedTypes
<1>8. CASE FinishEvent
  BY <1>8 DEF FinishEvent, FeedTypes
<1>9. ASSUME NEW r \in Rulings, Settle(r)
      PROVE  FeedTypes'
  <2>1. event' \in [status: {"SCHEDULED", "LIVE", "FINISHED", "CANCELLED"},
                    home: Nat, away: Nat]
    BY <1>9, RulingTypes DEF Settle, StatusAfter
  <2> QED
    BY <1>9, <2>1, RulingTypes DEF Settle, FeedTypes
<1>10. CASE UNCHANGED resultsVars
  BY <1>10 DEF resultsVars, FeedTypes
<1> QED
  BY <1>2, <1>3, <1>4, <1>5, <1>6, <1>7, <1>8, <1>9, <1>10 DEF ResultsNext

(* A settlement evaluates every market that is listed, so none keeps an    *)
(* outcome of an earlier ruling; nothing else touches a settled market.    *)
LEMMA OutcomesStep ==
  ASSUME FeedTypes, OutcomesOfApplied, [ResultsNext]_resultsVars
  PROVE  OutcomesOfApplied'
<1> USE DEF settlement
<1>1. ASSUME UNCHANGED <<outcome, applied>>,
             \A m \in Markets : market'[m] = "SETTLED" => market[m] = "SETTLED"
      PROVE  OutcomesOfApplied'
  <2>1. \A m \in Markets : \A s : OutcomeIn(m, s, applied)' = OutcomeIn(m, s, applied)
    BY <1>1 DEF OutcomeIn, StatusIn, ThreeWay, DoubleChance, DrawNoBet, OverUnder,
                BothScore, Handicap, Margin, Factor
  <2> QED
    BY <1>1, <2>1 DEF OutcomesOfApplied
<1>2. CASE KickOff \/ Goal \/ FullTime \/ AskResult \/ FinishEvent
  BY <1>1, <1>2 DEF KickOff, Goal, FullTime, AskResult, FinishEvent
<1>3. ASSUME NEW A \in Answers, ListMarkets(A)
      PROVE  OutcomesOfApplied'
  BY <1>1, <1>3 DEF ListMarkets
<1>4. ASSUME NEW p \in Polls, AskScore(p) \/ WriteScore(p)
      PROVE  OutcomesOfApplied'
  BY <1>1, <1>4 DEF AskScore, WriteScore
<1>5. ASSUME NEW r \in Rulings, Settle(r)
      PROVE  OutcomesOfApplied'
  <2>1. applied' = r
    BY <1>5 DEF Settle
  <2>2. ASSUME NEW m \in Markets, market'[m] = "SETTLED"
        PROVE  \A s \in Offered[m] : outcome'[m][s] = OutcomeIn(m, s, r)
    <3>1. m \in ToEvaluate
      BY <1>5, <2>2 DEF Settle, ToEvaluate, Listed, FeedTypes
    <3>2. outcome'[m] = [s \in Offered[m] |-> OutcomeIn(m, s, r)]
      BY <1>5, <3>1 DEF Settle
    <3> QED
      BY <3>2
  <2>3. \A m, s : OutcomeIn(m, s, applied)' = OutcomeIn(m, s, applied')
    BY DEF OutcomeIn, StatusIn, ThreeWay, DoubleChance, DrawNoBet, OverUnder,
           BothScore, Handicap, Margin, Factor
  <2> QED
    BY <2>1, <2>2, <2>3 DEF OutcomesOfApplied
<1>6. CASE UNCHANGED resultsVars
  BY <1>1, <1>6 DEF resultsVars
<1> QED
  BY <1>2, <1>3, <1>4, <1>5, <1>6 DEF ResultsNext

(* A result query is answered when the match is over, and matches do not   *)
(* go on after that.                                                       *)
LEMMA FinishStep ==
  ASSUME FeedTypes, ToldWhenOver, FinishedAtFullTime, [ResultsNext]_resultsVars
  PROVE  ToldWhenOver' /\ FinishedAtFullTime'
<1> USE DEF settlement, ToldWhenOver, FinishedAtFullTime
<1>1. CASE KickOff \/ Goal
  BY <1>1 DEF KickOff, Goal
<1>2. CASE FullTime
  BY <1>2 DEF FullTime, FeedTypes
<1>3. ASSUME NEW A \in Answers, ListMarkets(A)
      PROVE  ToldWhenOver' /\ FinishedAtFullTime'
  BY <1>3 DEF ListMarkets
<1>4. ASSUME NEW p \in Polls, AskScore(p) \/ WriteScore(p)
      PROVE  ToldWhenOver' /\ FinishedAtFullTime'
  BY <1>4 DEF AskScore, WriteScore
<1>5. CASE AskResult \/ FinishEvent
  BY <1>5 DEF AskResult, Over, FinishEvent
<1>6. ASSUME NEW r \in Rulings, Settle(r)
      PROVE  ToldWhenOver' /\ FinishedAtFullTime'
  BY <1>6, RulingTypes DEF Settle
<1>7. CASE UNCHANGED resultsVars
  BY <1>7 DEF resultsVars
<1> QED
  BY <1>1, <1>2, <1>3, <1>4, <1>5, <1>6, <1>7 DEF ResultsNext

-----------------------------------------------------------------------------
(* The inductive invariant of events and their settlement. *)
THEOREM ResultsInvariance == ResultsSpec => []ResultsInv
<1>1. ResultsInit => ResultsInv
  <2> SUFFICES ASSUME ResultsInit
               PROVE  ResultsInv
    OBVIOUS
  <2>1. NotTold \in [told: BOOLEAN, home: Nat, away: Nat]
    BY DEF NotTold
  <2>2. FeedTypes
    BY <2>1 DEF ResultsInit, FeedTypes
  <2>3. OutcomesOfApplied /\ ToldWhenOver /\ FinishedAtFullTime
    BY DEF ResultsInit, OutcomesOfApplied, ToldWhenOver, FinishedAtFullTime
  <2> QED
    BY <2>2, <2>3 DEF ResultsInv
<1>2. ResultsInv /\ [ResultsNext]_resultsVars => ResultsInv'
  BY RulingAssumption, FeedStep, OutcomesStep, FinishStep DEF ResultsInv
<1> QED
  BY <1>1, <1>2, PTL DEF ResultsSpec

(* The state stays within its types, and a dead heat never pays more than  *)
(* one place.                                                              *)
THEOREM ResultsTypeCorrect == ResultsSpec => []ResultsTypeOK
<1>1. ResultsInv => ResultsTypeOK
  BY OutcomeTypes DEF ResultsInv, FeedTypes, OutcomesOfApplied, ResultsTypeOK
<1> QED
  BY <1>1, ResultsInvariance, PTL

(* Every plain selection of a settled market has the status the rules of   *)
(* the game give it under the last ruling, through corrections in any      *)
(* order and late polls, for every line and score.                         *)
THEOREM ByRule == ResultsSpec => []SettledByRule
<1>1. ASSUME ResultsInv, NEW m \in Markets, market[m] = "SETTLED",
             NEW s \in Offered[m], Plain(m, s)
      PROVE  outcome[m][s].status = IF applied.status \in Voids THEN "VOID"
                                    ELSE RuleBook(m, s, applied)
  <2>1. applied \in Rulings /\ outcome[m][s] = OutcomeIn(m, s, applied)
    BY <1>1 DEF ResultsInv, OutcomesOfApplied
  <2>2. StatusIn(m, s, applied) = RuleBook(m, s, applied)
    BY <1>1, <2>1, EvaluatorFollowsRules
  <2>3. OutcomeIn(m, s, applied).status = IF applied.status \in Voids THEN "VOID"
                                          ELSE StatusIn(m, s, applied)
    BY DEF OutcomeIn
  <2> QED
    BY <2>1, <2>2, <2>3
<1>2. ResultsInv => SettledByRule
  BY <1>1 DEF SettledByRule
<1> QED
  BY <1>2, ResultsInvariance, PTL

(* However many win an outright, the house pays each place once. *)
THEOREM EachPlaceOnce == ResultsSpec => []PlacesPaidOnce
<1>1. ResultsInv => PlacesPaidOnce
  BY SharesOfPlaces DEF ResultsInv, OutcomesOfApplied, PlacesPaidOnce
<1> QED
  BY <1>1, ResultsInvariance, PTL

(* The feed finishes no event before its match is over. *)
THEOREM AtFullTime == ResultsSpec => []FinishedAtFullTime
<1>1. ResultsInv => FinishedAtFullTime
  BY DEF ResultsInv
<1> QED
  BY <1>1, ResultsInvariance, PTL

(* What the engine is told of a selection: a win shared by more winners    *)
(* than there are places is a dead heat to it.                             *)
Given(o) == IF o.status = "WON" /\ o.factor[1] < o.factor[2]
            THEN "DEAD_HEAT" ELSE o.status

(* The two halves fit together: whatever the evaluator gives a selection   *)
(* for a ruling is an outcome the engine has a settlement for, the leg     *)
(* gets the evaluator's status, and only an outright has dead heats.       *)
THEOREM EvaluatorMeetsEngine ==
  ASSUME NEW m \in Markets, NEW s \in Offered[m], NEW r \in Rulings
  PROVE  /\ Given(OutcomeIn(m, s, r)) \in AllOutcomes
         /\ StatusOf(Given(OutcomeIn(m, s, r))) = OutcomeIn(m, s, r).status
         /\ Given(OutcomeIn(m, s, r)) = "DEAD_HEAT" => TypeOf[m] = "OUTRIGHT"
<1> DEFINE o == OutcomeIn(m, s, r)
<1>1. o.status \in Statuses
  BY OutcomeTypes
<1>2. Given(o) \in {o.status, "DEAD_HEAT"}
  BY DEF Given
<1>3. Given(o) \in AllOutcomes
  BY <1>1, <1>2 DEF Statuses, AllOutcomes, LegStatus
<1>4. StatusOf(Given(o)) = o.status
  BY <1>1 DEF StatusOf, Given, Statuses
<1>5. ASSUME Given(o) = "DEAD_HEAT", TypeOf[m] # "OUTRIGHT"
      PROVE  FALSE
  <2>1. o.factor = <<1, 1>>
    BY <1>5 DEF OutcomeIn
  <2>2. o.factor[1] < o.factor[2]
    BY <1>1, <1>5 DEF Given, Statuses
  <2> QED
    BY <2>1, <2>2
<1> QED
  BY <1>3, <1>4, <1>5

-----------------------------------------------------------------------------
(***************************************************************************)
(* Bets, wallets and ledger.                                               *)
(***************************************************************************)
(* A bet that is open, or does not exist, has no standing payout. *)
OpenBetsUnpaid == \A b \in InStatus({"NONE", "PLACED"}) : payout[b] = 0

(* The standing payouts when the bets B are open. *)
PayoutsBut(B) == [b \in Bets |-> IF b \in B THEN 0 ELSE payout[b]]

(* HeldBacksOpenBets makes the clamp of Release harmless, OpenBetsUnpaid   *)
(* lets a settlement add its payouts to the standing ones, and only a      *)
(* finite ledger has sums.                                                 *)
IInv ==
    /\ TypeOK
    /\ IsFiniteSet(journals)
    /\ OpenBetsUnpaid
    /\ HeldBacksOpenBets
    /\ AvailableIsFundsStakesPayouts

-----------------------------------------------------------------------------
(* The fields of a request have their types. *)
LEMMA RequestType ==
  ASSUME TypeOK, NEW b \in Bets
  PROVE  /\ request[b] \in Requests
         /\ Owner(b) \in Users /\ request[b].user \in Users
         /\ request[b].stake \in Nat /\ request[b].odds \in Nat
         /\ Stakes[b] = request[b].stake
         /\ Legs(b) \subseteq LegIds
<1>1. request[b] \in Requests
  BY DEF TypeOK
<1>2. request[b] \in [user: Users, stake: Nat, odds: Nat, type: SlipTypes,
                      legs: SUBSET LegIds]
  BY <1>1, RequestAssumption
<1> QED
  BY <1>1, <1>2 DEF Owner, Legs, Stakes

(* Every set of bets, and what one user owns of it, is finite. *)
LEMMA OwnedFinite ==
  ASSUME NEW B, B \subseteq Bets, NEW u
  PROVE  /\ IsFiniteSet(B) /\ IsFiniteSet(OwnedBy(B, u))
         /\ OwnedBy(B, u) \subseteq B
<1>1. OwnedBy(B, u) \subseteq B
  BY DEF OwnedBy
<1> QED
  BY <1>1, FiniteAssumption, FS_Subset

(* The stakes of any bets sum up to an amount. *)
LEMMA StakesTotal ==
  ASSUME TypeOK, NEW B, B \subseteq Bets, NEW u
  PROVE  Total(OwnedBy(B, u), Stakes) \in Nat
<1>1. \A b \in OwnedBy(B, u) : Stakes[b] \in Nat
  BY OwnedFinite, RequestType
<1> QED
  BY <1>1, OwnedFinite, CentsFinite

(* The journal a settlement posts for a bet has amounts that are amounts,  *)
(* takes exactly the stake out of the hold and is not a cash-out.          *)
LEMMA JournalOfFacts ==
  ASSUME TypeOK, NEW b \in Bets, NEW e, NEW out, NEW rate \in 0 .. Scale
  PROVE  LET j == JournalOf(b, e, out, rate)
         IN  Amounts(j) /\ j.hold = request[b].stake /\ j.kind # "cashout"
<1>1. VerdictOf(b, LegsAfter(e, out)) \in Verdicts
  BY DEF VerdictOf, Verdict, Verdicts
<1>2. FactorOf(b, e, out) \in 0 .. Scale
  BY MoneyAssumption DEF FactorOf, Scale
<1>3. request[b].stake \in Nat /\ request[b].odds \in Nat
  BY RequestType
<1> QED
  BY <1>1, <1>2, <1>3, SettlementJournalAmounts DEF JournalOf

(* The rows of one journal for each bet of a set: finitely many, and for   *)
(* every user their credits and holds sum up as those of the bets do.      *)
LEMMA RowsFacts ==
  ASSUME TypeOK, NEW B, B \subseteq Bets, NEW jn,
         \A b \in B : Amounts(jn[b])
  PROVE  LET R == {Row(b, jn[b]) : b \in B}
         IN  /\ R \subseteq JournalRow
             /\ IsFiniteSet(R)
             /\ \A u \in Users :
                  /\ Credits(RowsOf(R, u)) =
                       Total(OwnedBy(B, u), [b \in B |-> jn[b].credit])
                  /\ Holds(RowsOf(R, u)) =
                       Total(OwnedBy(B, u), [b \in B |-> jn[b].hold])
<1> DEFINE R == {Row(b, jn[b]) : b \in B}
           rowOf == [b \in B |-> Row(b, jn[b])]
<1>1. \A b \in B : /\ Row(b, jn[b]).bet = b
                   /\ Row(b, jn[b]).credit = jn[b].credit
                   /\ Row(b, jn[b]).hold = jn[b].hold
                   /\ Row(b, jn[b]) \in JournalRow
  BY DEF Row, JournalRow, Amounts
<1>2. IsFiniteSet(R)
  <2>1. rowOf \in Surjection(B, R)
    BY DEF Surjection
  <2> HIDE DEF rowOf, R
  <2> QED
    BY <2>1, OwnedFinite, FS_Surjection
<1>3. ASSUME NEW u \in Users
      PROVE  /\ Credits(RowsOf(R, u)) =
                  Total(OwnedBy(B, u), [b \in B |-> jn[b].credit])
             /\ Holds(RowsOf(R, u)) =
                  Total(OwnedBy(B, u), [b \in B |-> jn[b].hold])
  <2> DEFINE O == OwnedBy(B, u)
             T == RowsOf(R, u)
             f == [b \in O |-> Row(b, jn[b])]
  <2>1. O \subseteq B /\ IsFiniteSet(O)
    BY OwnedFinite
  <2>2. f \in [O -> T]
    BY <1>1, <2>1 DEF RowsOf, OwnedBy
  <2>3. \A x, y \in O : f[x] = f[y] => x = y
    BY <1>1, <2>1
  <2>4. \A t \in T : \E x \in O : f[x] = t
    BY <1>1 DEF RowsOf, OwnedBy
  <2>5. f \in Bijection(O, T)
    BY <2>2, <2>3, <2>4 DEF Bijection, Injection, Surjection, IsInjective
  <2>6. \A b \in O : /\ f[b] \in T
                     /\ jn[b].credit \in Nat /\ jn[b].hold \in Nat
                     /\ f[b].credit = jn[b].credit /\ f[b].hold = jn[b].hold
    BY <1>1, <2>1, <2>2 DEF Amounts
  <2> HIDE DEF f, O, T
  <2>7. Total(T, [j \in T |-> j.credit]) = Total(O, [b \in B |-> jn[b].credit])
    <3> DEFINE a == [b \in B |-> jn[b].credit]
               c == [j \in T |-> j.credit]
    <3>1. \A b \in O : a[b] \in Nat /\ c[f[b]] = a[b]
      BY <2>1, <2>6
    <3> HIDE DEF a, c
    <3>2. Total(T, c) = Total(O, a)
      BY <2>1, <2>5, <3>1, TotalBijection
    <3> QED
      BY <3>2 DEF a, c
  <2>8. Total(T, [j \in T |-> j.hold]) = Total(O, [b \in B |-> jn[b].hold])
    <3> DEFINE a == [b \in B |-> jn[b].hold]
               c == [j \in T |-> j.hold]
    <3>1. \A b \in O : a[b] \in Nat /\ c[f[b]] = a[b]
      BY <2>1, <2>6
    <3> HIDE DEF a, c
    <3>2. Total(T, c) = Total(O, a)
      BY <2>1, <2>5, <3>1, TotalBijection
    <3> QED
      BY <3>2 DEF a, c
  <2> QED
    BY <2>7, <2>8 DEF Credits, Holds, O, T
<1> QED
  BY <1>1, <1>2, <1>3

(* The credits and holds of any set of posted journals are amounts. *)
LEMMA PostedTotals ==
  ASSUME NEW J, IsFiniteSet(J), J \subseteq JournalRow, NEW u
  PROVE  Credits(RowsOf(J, u)) \in Nat /\ Holds(RowsOf(J, u)) \in Nat
<1> DEFINE T == RowsOf(J, u)
<1>1. T \subseteq J /\ IsFiniteSet(T)
  <2>1. T \subseteq J
    BY DEF RowsOf
  <2> QED
    BY <2>1, FS_Subset
<1>2. \A j \in T : j.credit \in Nat /\ j.hold \in Nat
  BY <1>1 DEF JournalRow
<1> HIDE DEF T
<1>3. Total(T, [j \in T |-> j.credit]) \in Nat
  <2> DEFINE c == [j \in T |-> j.credit]
  <2>1. \A j \in T : c[j] \in Nat
    BY <1>2
  <2> HIDE DEF c
  <2>2. Total(T, c) \in Nat
    BY <1>1, <2>1, CentsFinite
  <2> QED
    BY <2>2 DEF c
<1>4. Total(T, [j \in T |-> j.hold]) \in Nat
  <2> DEFINE c == [j \in T |-> j.hold]
  <2>1. \A j \in T : c[j] \in Nat
    BY <1>2
  <2> HIDE DEF c
  <2>2. Total(T, c) \in Nat
    BY <1>1, <2>1, CentsFinite
  <2> QED
    BY <2>2 DEF c
<1> QED
  BY <1>3, <1>4 DEF Credits, Holds, T
-----------------------------------------------------------------------------
(* What a settlement does to the statuses: exactly the decided bets among  *)
(* those it is given close, the others given are open.                     *)
LEMMA SettledStatuses ==
  ASSUME TypeOK, NEW e, NEW out, NEW rate,
         NEW B, B \subseteq InStatus(BetStatus), InStatus({"PLACED"}) \subseteq B,
         NEW avail0, NEW held0, NEW avAcc0, NEW hoAcc0,
         SettleFrom(e, out, rate, B, avail0, held0, avAcc0, hoAcc0)
  PROVE  LET D == Decided(B, LegsAfter(e, out))
         IN  /\ D \subseteq B /\ B \subseteq Bets
             /\ status' \in [Bets -> {"NONE"} \cup BetStatus]
             /\ InStatus({"NONE"})' = InStatus({"NONE"})
             /\ InStatus({"PLACED"})' = B \ D
             /\ Settled' = (InStatus(BetStatus) \ B) \cup D
             /\ InStatus(BetStatus)' = InStatus(BetStatus)
<1> DEFINE newLeg == LegsAfter(e, out)
           D == Decided(B, newLeg)
<1>1. D \subseteq B /\ B \subseteq Bets
  BY DEF Decided, InStatus
<1>2. status' = [b \in Bets |->
                   IF b \in D THEN VerdictOf(b, newLeg)
                   ELSE IF b \in B THEN "PLACED" ELSE status[b]]
  BY DEF SettleFrom
<1>3. \A b \in Bets : VerdictOf(b, newLeg) \in Verdicts
  BY DEF VerdictOf, Verdict, Verdicts
<1>4. /\ "PLACED" \notin Verdicts /\ "NONE" \notin Verdicts
      /\ "NONE" \notin BetStatus /\ "PLACED" \in BetStatus
      /\ Verdicts \subseteq BetStatus \ {"PLACED"}
  BY DEF BetStatus, Verdicts
<1>5. \A b \in Bets : status[b] \in {"NONE"} \cup BetStatus
  BY DEF TypeOK
<1>6. /\ \A b \in B : status[b] \in BetStatus
      /\ \A b \in Bets \ B : status[b] # "PLACED"
  BY DEF InStatus
<1> HIDE DEF D, newLeg
<1>7. status' \in [Bets -> {"NONE"} \cup BetStatus]
  BY <1>1, <1>2, <1>3, <1>4, <1>5
<1>8. InStatus({"NONE"})' = InStatus({"NONE"})
  BY <1>1, <1>2, <1>3, <1>4, <1>5, <1>6 DEF InStatus
<1>9. InStatus({"PLACED"})' = B \ D
  BY <1>1, <1>2, <1>3, <1>4, <1>5, <1>6 DEF InStatus
<1>10. Settled' = (InStatus(BetStatus) \ B) \cup D
  BY <1>1, <1>2, <1>3, <1>4, <1>5, <1>6 DEF InStatus, Settled
<1>11. InStatus(BetStatus)' = InStatus(BetStatus)
  BY <1>1, <1>2, <1>3, <1>4, <1>5, <1>6 DEF InStatus
<1> QED
  BY <1>1, <1>7, <1>8, <1>9, <1>10, <1>11 DEF D, newLeg

(* The types a settlement leaves behind.                                   *)
LEMMA SettledTypes ==
  ASSUME TypeOK, IsFiniteSet(journals),
         NEW e \in Events, NEW out \in [SelectionsOf(e) -> Outcomes],
         NEW rate \in 0 .. Scale, NEW B, B \subseteq Bets,
         NEW avail0 \in [Users -> Int], NEW held0 \in [Users -> Nat],
         NEW avAcc0 \in [Users -> Int], NEW hoAcc0 \in [Users -> Int],
         SettleFrom(e, out, rate, B, avail0, held0, avAcc0, hoAcc0)
  PROVE  /\ payout' \in [Bets -> Nat]
         /\ leg' \in [Bets -> [LegIds -> LegStatus]]
         /\ hold' \in [Bets -> HoldStatus]
         /\ result' \in [Selections -> {"NONE"} \cup Outcomes]
         /\ available' \in [Users -> Int]
         /\ held' \in [Users -> Nat]
         /\ availableAcc' \in [Users -> Int]
         /\ holdAcc' \in [Users -> Int]
         /\ journals' \subseteq JournalRow
         /\ IsFiniteSet(journals')
<1> DEFINE newLeg == LegsAfter(e, out)
           D == Decided(B, newLeg)
           jn == [b \in D |-> JournalOf(b, e, out, rate)]
           pay == [b \in D |-> jn[b].credit]
           F == {c \in D : Fresh(c, jn[c].kind)}
           rows == {Row(b, jn[b]) : b \in F}
<1>1. D \subseteq Bets /\ F \subseteq Bets /\ F \subseteq D
  BY DEF Decided
<1>2. \A b \in D : Amounts(jn[b])
  BY <1>1, JournalOfFacts
<1>3. \A b \in D : pay[b] \in Nat
  BY <1>2 DEF Amounts
<1>4. /\ leg' = newLeg
      /\ result' = [s \in Selections |-> IF EventOf[s] = e THEN out[s] ELSE result[s]]
      /\ payout' = [b \in Bets |->
           IF b \in D THEN pay[b] ELSE IF b \in B THEN 0 ELSE payout[b]]
      /\ hold' = [b \in Bets |->
           IF b \notin D THEN hold[b]
           ELSE IF VerdictOf(b, newLeg) \in {"WON", "HALF_WON"} THEN "COMMITTED"
           ELSE "RELEASED"]
      /\ available' = [u \in Users |-> avail0[u] + Total(OwnedBy(D, u), pay)]
      /\ held' = [u \in Users |-> Release(held0[u], Total(OwnedBy(D, u), Stakes))]
      /\ journals' = journals \cup rows
      /\ availableAcc' = [u \in Users |-> avAcc0[u] + Credits(RowsOf(rows, u))]
      /\ holdAcc' = [u \in Users |-> hoAcc0[u] - Holds(RowsOf(rows, u))]
  BY DEF SettleFrom
<1>5. rows \subseteq JournalRow /\ IsFiniteSet(rows)
  <2>1. \A b \in F : Amounts(jn[b])
    BY <1>1, <1>2
  <2> HIDE DEF F, jn
  <2> QED
    BY <1>1, <2>1, RowsFacts
<1>6. \A u \in Users : /\ Total(OwnedBy(D, u), pay) \in Nat
                       /\ Total(OwnedBy(D, u), Stakes) \in Nat
                       /\ Credits(RowsOf(rows, u)) \in Nat
                       /\ Holds(RowsOf(rows, u)) \in Nat
  <2> HIDE DEF D, pay, rows
  <2> SUFFICES ASSUME NEW u \in Users
               PROVE  /\ Total(OwnedBy(D, u), pay) \in Nat
                      /\ Total(OwnedBy(D, u), Stakes) \in Nat
                      /\ Credits(RowsOf(rows, u)) \in Nat
                      /\ Holds(RowsOf(rows, u)) \in Nat
    OBVIOUS
  <2>1. IsFiniteSet(OwnedBy(D, u)) /\ OwnedBy(D, u) \subseteq D
    BY <1>1, OwnedFinite
  <2>2. Total(OwnedBy(D, u), pay) \in Nat
    BY <1>3, <2>1, CentsFinite
  <2> QED
    BY <1>1, <1>5, <2>2, StakesTotal, PostedTotals
<1>7. payout' \in [Bets -> Nat]
  <2>1. \A b \in Bets : payout[b] \in Nat
    BY DEF TypeOK
  <2> HIDE DEF D, pay
  <2> QED
    BY <1>3, <1>4, <2>1
<1>8. leg' \in [Bets -> [LegIds -> LegStatus]]
  <2>1. \A s \in Selections : EventOf[s] = e => out[s] \in AllOutcomes
    BY FixtureAssumption DEF SelectionsOf
  <2>2. \A s \in Selections : EventOf[s] = e => StatusOf(out[s]) \in LegStatus
    BY <2>1 DEF StatusOf, AllOutcomes, LegStatus
  <2>3. \A b \in Bets : \A l \in LegIds : leg[b][l] \in LegStatus
    BY DEF TypeOK
  <2>4. \A l \in LegIds : SelectionOf(l) \in Selections /\ "LOST" \in LegStatus
    BY DEF LegIds, SelectionOf, LegStatus
  <2>5. \A b \in Bets : newLeg[b] \in [LegIds -> LegStatus]
    BY <2>2, <2>3, <2>4 DEF LegsAfter
  <2>6. newLeg = [b \in Bets |-> newLeg[b]]
    BY DEF LegsAfter
  <2> HIDE DEF newLeg
  <2> QED
    BY <1>4, <2>5, <2>6
<1>9. hold' \in [Bets -> HoldStatus]
  <2>1. \A b \in Bets : hold[b] \in HoldStatus
    BY DEF TypeOK
  <2> HIDE DEF D
  <2> QED
    BY <1>4, <2>1 DEF HoldStatus
<1>10. result' \in [Selections -> {"NONE"} \cup Outcomes]
  <2>1. \A s \in Selections : EventOf[s] = e => out[s] \in Outcomes
    BY DEF SelectionsOf
  <2> QED
    BY <1>4, <2>1 DEF TypeOK
<1>11. journals' \subseteq JournalRow /\ IsFiniteSet(journals')
  <2> HIDE DEF rows
  <2> QED
    BY <1>4, <1>5, FS_Union DEF TypeOK
<1>12. held' \in [Users -> Nat]
  <2>1. \A m, n \in Nat : Release(m, n) \in Nat
    BY DEF Release
  <2> HIDE DEF D
  <2>2. \A u \in Users : Release(held0[u], Total(OwnedBy(D, u), Stakes)) \in Nat
    BY <1>6, <2>1
  <2> QED
    BY <1>4, <2>2
<1>13. /\ available' \in [Users -> Int]
       /\ availableAcc' \in [Users -> Int]
       /\ holdAcc' \in [Users -> Int]
  <2> HIDE DEF D, pay, rows
  <2> QED
    BY <1>4, <1>6
<1> QED
  BY <1>7, <1>8, <1>9, <1>10, <1>11, <1>12, <1>13
(* What closing the bets D, when those of B were open, does to the         *)
(* wallets: the stakes of D leave the hold and their payouts reach the     *)
(* balance; if the wallets told the truth with B open, they still do.      *)
LEMMA ClosedWallets ==
  ASSUME TypeOK, OpenBetsUnpaid, request' = request,
         NEW B, B \subseteq Bets, NEW D, D \subseteq B,
         NEW pay, \A b \in D : pay[b] \in Nat,
         InStatus({"NONE"})' = InStatus({"NONE"}),
         InStatus({"NONE"}) \cap B = {},
         InStatus({"PLACED"})' = B \ D,
         InStatus(BetStatus)' = InStatus(BetStatus),
         payout' = [b \in Bets |->
           IF b \in D THEN pay[b] ELSE IF b \in B THEN 0 ELSE payout[b]],
         NEW avail0 \in [Users -> Int], NEW held0 \in [Users -> Nat],
         \A u \in Users : held0[u] = Total(OwnedBy(B, u), Stakes),
         \A u \in Users :
           avail0[u] = Funds[u] - Total(OwnedBy(InStatus(BetStatus), u), Stakes)
                       + Total(OwnedBy(Bets, u), PayoutsBut(B)),
         \A u \in Users : available'[u] = avail0[u] + Total(OwnedBy(D, u), pay),
         \A u \in Users : held'[u] = Release(held0[u], Total(OwnedBy(D, u), Stakes))
  PROVE  /\ HeldBacksOpenBets'
         /\ AvailableIsFundsStakesPayouts'
         /\ OpenBetsUnpaid'
         /\ \A u \in Users : available'[u] >= avail0[u]
<1> DEFINE pay0 == PayoutsBut(B)
<1>4. /\ Stakes' = Stakes
      /\ \A X, u : OwnedBy(X, u)' = OwnedBy(X', u)
  BY DEF Stakes, OwnedBy, Owner
<1>5. \A b \in Bets : payout[b] \in Nat /\ Stakes[b] \in Nat
  BY RequestType DEF TypeOK
<1>6. ASSUME NEW u \in Users
      PROVE  /\ OwnedBy(D, u) \subseteq OwnedBy(B, u)
             /\ OwnedBy(D, u) \subseteq OwnedBy(Bets, u)
             /\ OwnedBy(B, u) \subseteq Bets
             /\ OwnedBy(B \ D, u) = OwnedBy(B, u) \ OwnedBy(D, u)
             /\ OwnedBy(D, u) \subseteq D
             /\ OwnedBy(Bets, u) \subseteq Bets
             /\ IsFiniteSet(OwnedBy(Bets, u)) /\ IsFiniteSet(OwnedBy(B, u))
             /\ IsFiniteSet(OwnedBy(D, u))
  <2>1. D \subseteq Bets
    OBVIOUS
  <2> QED
    BY <2>1, OwnedFinite DEF OwnedBy
<1>7. OpenBetsUnpaid'
  <2> SUFFICES ASSUME NEW b \in InStatus({"NONE", "PLACED"})'
               PROVE  payout'[b] = 0
    BY DEF OpenBetsUnpaid
  <2>1. b \in Bets /\ (b \in InStatus({"NONE"})' \/ b \in InStatus({"PLACED"})')
    BY DEF InStatus
  <2>2. CASE b \in InStatus({"PLACED"})'
    BY <2>1, <2>2
  <2>3. CASE b \in InStatus({"NONE"})'
    <3>1. b \in InStatus({"NONE"}) /\ b \notin B
      BY <2>3
    <3>2. payout[b] = 0
      BY <3>1 DEF OpenBetsUnpaid, InStatus
    <3> QED
      BY <2>1, <3>1, <3>2
  <2> QED
    BY <2>1, <2>2, <2>3
<1>8. HeldBacksOpenBets'
  <2> SUFFICES ASSUME NEW u \in Users
               PROVE  held'[u] = Total(OwnedBy(B \ D, u), Stakes)
    BY <1>4 DEF HeldBacksOpenBets
  <2> DEFINE all == Total(OwnedBy(B, u), Stakes)
             part == Total(OwnedBy(D, u), Stakes)
  <2>1. \A b \in OwnedBy(B, u) : Stakes[b] \in Nat
    BY <1>5, <1>6
  <2>2. Total(OwnedBy(B, u) \ OwnedBy(D, u), Stakes) = all - part /\ part <= all
    BY <1>6, <2>1, TotalDifference
  <2>3. all \in Nat /\ part \in Nat
    BY <1>6, <2>1, CentsFinite
  <2>4. held'[u] = Release(all, part)
    OBVIOUS
  <2> HIDE DEF all, part
  <2>5. held'[u] = all - part
    BY <2>2, <2>3, <2>4 DEF Release
  <2> QED
    BY <1>6, <2>2, <2>5
<1>9. ASSUME NEW u \in Users
      PROVE  Total(OwnedBy(Bets, u), payout') =
               Total(OwnedBy(Bets, u), pay0) + Total(OwnedBy(D, u), pay)
  <2> DEFINE O == OwnedBy(Bets, u)
             P == OwnedBy(D, u)
  <2>1. \A b \in O : payout'[b] \in Nat
    BY <1>5, <1>6
  <2>2. \A b \in O : pay0[b] \in Nat
    BY <1>5, <1>6 DEF PayoutsBut
  <2>3. \A b \in O \ P : payout'[b] = pay0[b]
    BY <1>6 DEF OwnedBy, PayoutsBut
  <2>4. \A b \in P : payout'[b] = pay[b] /\ pay0[b] = 0
    BY <1>6 DEF PayoutsBut
  <2> HIDE DEF O, P, pay0
  <2>5. IsFiniteSet(O) /\ P \subseteq O
    BY <1>6 DEF O, P
  <2>6. Total(O, payout') = Total(O, pay0) - Total(P, pay0) + Total(P, payout')
    BY <2>1, <2>2, <2>3, <2>5, TotalReplace
  <2>7. Total(P, pay0) = 0
    BY <2>4, TotalZero
  <2>8. Total(P, payout') = Total(P, pay)
    BY <2>4, TotalSameAmounts
  <2>9. Total(O, pay0) \in Nat
    BY <2>2, <2>5, CentsFinite
  <2>10. Total(P, pay) \in Nat
    BY <1>6, CentsFinite DEF P
  <2> QED
    BY <2>6, <2>7, <2>8, <2>9, <2>10 DEF O, P
<1>10. ASSUME NEW u \in Users
       PROVE  /\ Total(OwnedBy(D, u), pay) \in Nat
              /\ Total(OwnedBy(Bets, u), pay0) \in Nat
              /\ Total(OwnedBy(InStatus(BetStatus), u), Stakes) \in Nat
  <2>1. Total(OwnedBy(D, u), pay) \in Nat
    BY <1>6, CentsFinite
  <2>2. \A b \in OwnedBy(Bets, u) : pay0[b] \in Nat
    BY <1>5, <1>6 DEF PayoutsBut
  <2> HIDE DEF pay0
  <2>3. Total(OwnedBy(Bets, u), pay0) \in Nat
    BY <1>6, <2>2, CentsFinite
  <2>4. InStatus(BetStatus) \subseteq Bets
    BY DEF InStatus
  <2> QED
    BY <2>1, <2>3, <2>4, StakesTotal
<1>11. AvailableIsFundsStakesPayouts'
  <2> SUFFICES ASSUME NEW u \in Users
               PROVE  available'[u] =
                        Funds[u] - Total(OwnedBy(InStatus(BetStatus), u), Stakes)
                        + Total(OwnedBy(Bets, u), payout')
    BY <1>4 DEF AvailableIsFundsStakesPayouts
  <2> DEFINE taken == Total(OwnedBy(InStatus(BetStatus), u), Stakes)
             kept  == Total(OwnedBy(Bets, u), pay0)
             won   == Total(OwnedBy(D, u), pay)
  <2>1. avail0[u] = Funds[u] - taken + kept
    OBVIOUS
  <2>2. available'[u] = avail0[u] + won
    OBVIOUS
  <2>3. Total(OwnedBy(Bets, u), payout') = kept + won
    BY <1>9
  <2>4. taken \in Nat /\ kept \in Nat /\ won \in Nat /\ Funds[u] \in Nat
    BY <1>10, MoneyAssumption
  <2> HIDE DEF taken, kept, won
  <2>5. available'[u] = Funds[u] - taken + (kept + won)
    BY <2>1, <2>2, <2>4
  <2> QED
    BY <2>3, <2>5 DEF taken
<1>12. ASSUME NEW u \in Users
       PROVE  available'[u] >= avail0[u]
  <2> DEFINE won == Total(OwnedBy(D, u), pay)
  <2>1. avail0[u] \in Int /\ won \in Nat /\ available'[u] = avail0[u] + won
    BY <1>10
  <2> HIDE DEF won
  <2> QED
    BY <2>1
<1> QED
  BY <1>7, <1>8, <1>11, <1>12
(* A settlement that starts from wallets that tell the truth about the     *)
(* bets it is given ends with the whole invariant.                         *)
LEMMA SettledInvariant ==
  ASSUME TypeOK, IsFiniteSet(journals), OpenBetsUnpaid, request' = request,
         corrections' \in [Events -> 0 .. MaxCorrections], flagged' \subseteq Users,
         NEW e \in Events, NEW out \in [SelectionsOf(e) -> Outcomes],
         NEW rate \in 0 .. Scale,
         NEW B, B \subseteq InStatus(BetStatus), InStatus({"PLACED"}) \subseteq B,
         NEW avail0 \in [Users -> Int], NEW held0 \in [Users -> Nat],
         NEW avAcc0 \in [Users -> Int], NEW hoAcc0 \in [Users -> Int],
         \A u \in Users : held0[u] = Total(OwnedBy(B, u), Stakes),
         \A u \in Users :
           avail0[u] = Funds[u] - Total(OwnedBy(InStatus(BetStatus), u), Stakes)
                       + Total(OwnedBy(Bets, u), PayoutsBut(B)),
         SettleFrom(e, out, rate, B, avail0, held0, avAcc0, hoAcc0)
  PROVE  IInv' /\ \A u \in Users : available'[u] >= avail0[u]
<1> DEFINE D == Decided(B, LegsAfter(e, out))
           pay == [b \in D |-> [c \in D |-> JournalOf(c, e, out, rate)][b].credit]
<1>1. /\ D \subseteq B /\ B \subseteq Bets
      /\ status' \in [Bets -> {"NONE"} \cup BetStatus]
      /\ InStatus({"NONE"})' = InStatus({"NONE"})
      /\ InStatus({"PLACED"})' = B \ D
      /\ InStatus(BetStatus)' = InStatus(BetStatus)
  BY SettledStatuses
<1>2. /\ payout' = [b \in Bets |->
           IF b \in D THEN pay[b] ELSE IF b \in B THEN 0 ELSE payout[b]]
      /\ available' = [u \in Users |-> avail0[u] + Total(OwnedBy(D, u), pay)]
      /\ held' = [u \in Users |-> Release(held0[u], Total(OwnedBy(D, u), Stakes))]
  BY DEF SettleFrom
<1>3. \A b \in D : pay[b] \in Nat
  BY <1>1, JournalOfFacts DEF Amounts
<1>4. InStatus({"NONE"}) \cap B = {}
  BY DEF InStatus, BetStatus, Verdicts
<1>5. TypeOK' /\ IsFiniteSet(journals')
  <2>1. request' \in [Bets -> Requests]
    BY DEF TypeOK
  <2> QED
    BY <1>1, <2>1, SettledTypes DEF TypeOK
<1> HIDE DEF D, pay
<1>6. /\ HeldBacksOpenBets' /\ AvailableIsFundsStakesPayouts'
      /\ OpenBetsUnpaid'
      /\ \A u \in Users : available'[u] >= avail0[u]
  BY <1>1, <1>2, <1>3, <1>4, ClosedWallets
<1> QED
  BY <1>5, <1>6 DEF IInv

-----------------------------------------------------------------------------
(* The invariant holds before the first bet. *)
LEMMA InitInv == Init => IInv
<1> SUFFICES ASSUME Init PROVE IInv
  OBVIOUS
<1>1. TypeOK
  BY MoneyAssumption DEF Init, TypeOK, LegStatus, HoldStatus
<1>2. IsFiniteSet(journals)
  BY FS_EmptySet DEF Init
<1>3. OpenBetsUnpaid
  BY DEF Init, OpenBetsUnpaid, InStatus
<1>4. \A u \in Users : /\ OwnedBy(InStatus({"PLACED"}), u) = {}
                       /\ OwnedBy(InStatus(BetStatus), u) = {}
  BY DEF Init, OwnedBy, InStatus, BetStatus, Verdicts
<1>5. HeldBacksOpenBets
  BY <1>4, TotalEmpty DEF Init, HeldBacksOpenBets
<1>6. AvailableIsFundsStakesPayouts
  <2> SUFFICES ASSUME NEW u \in Users
               PROVE  available[u] = Funds[u] - Total({}, Stakes)
                                     + Total(OwnedBy(Bets, u), payout)
    BY <1>4 DEF AvailableIsFundsStakesPayouts
  <2>1. Total(OwnedBy(Bets, u), payout) = 0
    <3>1. \A b \in OwnedBy(Bets, u) : payout[b] = 0
      BY DEF Init, OwnedBy
    <3> QED
      BY <3>1, TotalZero
  <2>2. available[u] = Funds[u] /\ Funds[u] \in Nat
    BY MoneyAssumption DEF Init
  <2> QED
    BY <2>1, <2>2, TotalEmpty
<1> QED
  BY <1>1, <1>2, <1>3, <1>5, <1>6 DEF IInv

(* A new bet: its stake leaves the balance and joins the hold. *)
LEMMA PlaceBetInv ==
  ASSUME IInv, NEW b \in Bets, PlaceBet(b)
  PROVE  IInv'
<1> DEFINE o == Owner(b)
           stake == request[b].stake
           placed == InStatus({"PLACED"})
           taken == InStatus(BetStatus)
<1>1. o \in Users /\ stake \in Nat /\ stake = Stakes[b] /\ request[b].user = o
  BY RequestType DEF IInv, Owner
<1>2. /\ status[b] = "NONE" /\ status \in [Bets -> {"NONE"} \cup BetStatus]
      /\ status' = [status EXCEPT ![b] = "PLACED"]
      /\ hold' = [hold EXCEPT ![b] = "ACTIVE"]
      /\ available[o] >= stake
      /\ available' = [available EXCEPT ![o] = @ - stake]
      /\ held' = [held EXCEPT ![o] = @ + stake]
      /\ request' = request /\ payout' = payout /\ leg' = leg
      /\ result' = result /\ corrections' = corrections /\ journals' = journals
      /\ availableAcc' = availableAcc /\ holdAcc' = holdAcc /\ flagged' = flagged
  BY DEF IInv, TypeOK, PlaceBet, Owner, ledgerVars
<1>3. /\ placed' = placed \cup {b} /\ b \notin placed
      /\ taken' = taken \cup {b} /\ b \notin taken
      /\ InStatus({"NONE", "PLACED"})' = InStatus({"NONE", "PLACED"})
  BY <1>2 DEF InStatus, BetStatus, Verdicts
<1>4. /\ Stakes' = Stakes
      /\ \A X, u : OwnedBy(X, u)' = OwnedBy(X', u)
  BY <1>2 DEF Stakes, OwnedBy, Owner
<1> HIDE DEF o, stake
<1>5. TypeOK'
  BY <1>1, <1>2 DEF IInv, TypeOK, BetStatus, HoldStatus
<1>6. IsFiniteSet(journals') /\ OpenBetsUnpaid'
  BY <1>2, <1>3 DEF IInv, OpenBetsUnpaid
<1>7. ASSUME NEW X, X \subseteq Bets, b \notin X, NEW u \in Users
      PROVE  Total(OwnedBy(X \cup {b}, u), Stakes) =
               Total(OwnedBy(X, u), Stakes) + (IF u = o THEN stake ELSE 0)
  <2>1. CASE u = o
    <3>1. OwnedBy(X \cup {b}, u) = OwnedBy(X, u) \cup {b} /\ b \notin OwnedBy(X, u)
      BY <1>7, <2>1 DEF OwnedBy, o
    <3>2. \A y \in OwnedBy(X, u) \cup {b} : Stakes[y] \in Nat
      BY <1>7, RequestType, OwnedFinite DEF IInv
    <3>3. IsFiniteSet(OwnedBy(X, u))
      BY <1>7, OwnedFinite
    <3>4. Total(OwnedBy(X, u) \cup {b}, Stakes) = Total(OwnedBy(X, u), Stakes) + Stakes[b]
      BY <3>1, <3>2, <3>3, TotalAdd
    <3> QED
      BY <1>1, <2>1, <3>1, <3>4
  <2>2. CASE u # o
    <3>1. OwnedBy(X \cup {b}, u) = OwnedBy(X, u)
      BY <2>2 DEF OwnedBy, o
    <3>2. Total(OwnedBy(X, u), Stakes) \in Nat
      BY <1>7, StakesTotal DEF IInv
    <3> QED
      BY <2>2, <3>1, <3>2
  <2> QED
    BY <2>1, <2>2
<1>8. placed \subseteq Bets /\ taken \subseteq Bets
  BY DEF InStatus
<1> HIDE DEF placed, taken
<1>9. HeldBacksOpenBets'
  <2> SUFFICES ASSUME NEW u \in Users
               PROVE  held'[u] = Total(OwnedBy(placed \cup {b}, u), Stakes)
    BY <1>3, <1>4 DEF HeldBacksOpenBets, placed
  <2>1. held[u] = Total(OwnedBy(placed, u), Stakes) /\ held[u] \in Nat
    BY DEF IInv, HeldBacksOpenBets, TypeOK, placed
  <2>2. held'[u] = held[u] + (IF u = o THEN stake ELSE 0)
    BY <1>1, <1>2, <2>1 DEF IInv, TypeOK
  <2> QED
    BY <1>3, <1>7, <1>8, <2>1, <2>2
<1>10. AvailableIsFundsStakesPayouts'
  <2> SUFFICES ASSUME NEW u \in Users
               PROVE  available'[u] =
                        Funds[u] - Total(OwnedBy(taken \cup {b}, u), Stakes)
                        + Total(OwnedBy(Bets, u), payout)
    BY <1>2, <1>3, <1>4 DEF AvailableIsFundsStakesPayouts, taken
  <2> DEFINE was == Total(OwnedBy(taken, u), Stakes)
             paid == Total(OwnedBy(Bets, u), payout)
             more == IF u = o THEN stake ELSE 0
  <2>1. available[u] = Funds[u] - was + paid
    BY DEF IInv, AvailableIsFundsStakesPayouts, taken
  <2>2. available'[u] = available[u] - more
    BY <1>1, <1>2 DEF IInv, TypeOK
  <2>3. Total(OwnedBy(taken \cup {b}, u), Stakes) = was + more
    BY <1>3, <1>7, <1>8
  <2>4. was \in Nat /\ more \in Nat /\ Funds[u] \in Nat
    BY <1>1, <1>8, StakesTotal, MoneyAssumption DEF IInv
  <2>5. paid \in Nat
    <3>1. \A c \in OwnedBy(Bets, u) : payout[c] \in Nat
      BY OwnedFinite DEF IInv, TypeOK
    <3> QED
      BY <3>1, OwnedFinite, CentsFinite
  <2> HIDE DEF was, paid, more
  <2>6. available'[u] = Funds[u] - (was + more) + paid
    BY <2>1, <2>2, <2>4, <2>5
  <2> QED
    BY <2>3, <2>6 DEF paid
<1> QED
  BY <1>5, <1>6, <1>9, <1>10 DEF IInv
(* The standing payouts of a user sum up to an amount; those of the open   *)
(* bets do not count.                                                      *)
LEMMA StandingPayouts ==
  ASSUME TypeOK, OpenBetsUnpaid, NEW u
  PROVE  /\ Total(OwnedBy(Bets, u), payout) \in Nat
         /\ Total(OwnedBy(Bets, u), PayoutsBut(InStatus({"PLACED"})))
              = Total(OwnedBy(Bets, u), payout)
<1> DEFINE pay0 == PayoutsBut(InStatus({"PLACED"}))
<1>1. /\ \A b \in OwnedBy(Bets, u) : payout[b] \in Nat
      /\ OwnedBy(Bets, u) \subseteq Bets /\ IsFiniteSet(OwnedBy(Bets, u))
  BY OwnedFinite DEF TypeOK
<1>2. \A b \in OwnedBy(Bets, u) : pay0[b] = payout[b]
  BY <1>1 DEF OpenBetsUnpaid, InStatus, PayoutsBut
<1> HIDE DEF pay0
<1>3. Total(OwnedBy(Bets, u), pay0) = Total(OwnedBy(Bets, u), payout)
  BY <1>2, TotalSameAmounts
<1>4. Total(OwnedBy(Bets, u), payout) \in Nat
  BY <1>1, CentsFinite
<1> QED
  BY <1>3, <1>4 DEF pay0

(* The settlement of an event. *)
LEMMA SettleEventInv ==
  ASSUME IInv, NEW e \in Events, NEW out \in [SelectionsOf(e) -> Outcomes],
         SettleEvent(e, out)
  PROVE  IInv' /\ \A u \in Users : available'[u] >= available[u]
<1> DEFINE B == InStatus({"PLACED"})
<1>1. /\ request' = request
      /\ corrections' \in [Events -> 0 .. MaxCorrections] /\ flagged' \subseteq Users
      /\ SettleFrom(e, out, TaxRate, B, available, held, availableAcc, holdAcc)
  BY DEF SettleEvent, IInv, TypeOK
<1>2. B \subseteq InStatus(BetStatus) /\ InStatus({"PLACED"}) \subseteq B
  BY DEF InStatus, BetStatus
<1>3. /\ available \in [Users -> Int] /\ held \in [Users -> Nat]
      /\ availableAcc \in [Users -> Int] /\ holdAcc \in [Users -> Int]
      /\ TaxRate \in 0 .. Scale
  BY MoneyAssumption DEF IInv, TypeOK
<1>4. \A u \in Users : held[u] = Total(OwnedBy(B, u), Stakes)
  BY DEF IInv, HeldBacksOpenBets
<1>5. \A u \in Users :
        available[u] = Funds[u] - Total(OwnedBy(InStatus(BetStatus), u), Stakes)
                       + Total(OwnedBy(Bets, u), PayoutsBut(B))
  BY StandingPayouts DEF IInv, AvailableIsFundsStakesPayouts
<1> HIDE DEF B
<1> QED
  BY <1>1, <1>2, <1>3, <1>4, <1>5, SettledInvariant DEF IInv, B

(* What a correction starts its settlement from: the reopened bets are     *)
(* open again, backed by the hold, and their payouts taken back.           *)
LEMMA ReopenedWallets ==
  ASSUME IInv, NEW R, R \subseteq Settled,
         NEW B, B = InStatus({"PLACED"}) \cup R, NEW u \in Users
  PROVE  /\ AfterTakingBack(R)[u] \in Int
         /\ Total(OwnedBy(R, u), Stakes) \in Nat
         /\ held[u] + Total(OwnedBy(R, u), Stakes) = Total(OwnedBy(B, u), Stakes)
         /\ AfterTakingBack(R)[u] =
              Funds[u] - Total(OwnedBy(InStatus(BetStatus), u), Stakes)
              + Total(OwnedBy(Bets, u), PayoutsBut(B))
<1> DEFINE P == OwnedBy(InStatus({"PLACED"}), u)
           Q == OwnedBy(R, u)
           O == OwnedBy(Bets, u)
           pay0 == PayoutsBut(B)
<1>1. R \subseteq Bets /\ InStatus({"PLACED"}) \subseteq Bets
  BY DEF Settled, InStatus
<1>2. /\ IsFiniteSet(P) /\ IsFiniteSet(Q) /\ IsFiniteSet(O)
      /\ P \subseteq Bets /\ Q \subseteq R /\ O \subseteq Bets
  BY <1>1, OwnedFinite
<1>3. P \cap Q = {} /\ OwnedBy(B, u) = P \cup Q /\ Q \subseteq O
  BY <1>1 DEF OwnedBy, Settled, InStatus
<1>4. \A b \in Bets : Stakes[b] \in Nat /\ payout[b] \in Nat
  BY RequestType DEF IInv, TypeOK
<1>5. \A b \in O \ Q : pay0[b] = payout[b]
  BY <1>2 DEF IInv, OpenBetsUnpaid, InStatus, OwnedBy, PayoutsBut
<1>6. \A b \in Q : pay0[b] = 0
  BY <1>1, <1>2 DEF PayoutsBut
<1>7. \A b \in O : pay0[b] \in Nat
  BY <1>2, <1>4 DEF PayoutsBut
<1>8. held[u] = Total(P, Stakes)
  BY DEF IInv, HeldBacksOpenBets
<1>9. /\ available[u] = Funds[u] - Total(OwnedBy(InStatus(BetStatus), u), Stakes)
                         + Total(O, payout)
      /\ AfterTakingBack(R)[u] = available[u] - Total(Q, payout)
      /\ available[u] \in Int
  BY DEF IInv, TypeOK, AvailableIsFundsStakesPayouts, AfterTakingBack
<1> HIDE DEF P, Q, O, pay0
<1>10. Total(P \cup Q, Stakes) = Total(P, Stakes) + Total(Q, Stakes)
  BY <1>1, <1>2, <1>3, <1>4, TotalUnion
<1>11. Total(O, pay0) = Total(O, payout) - Total(Q, payout) + Total(Q, pay0)
  BY <1>2, <1>3, <1>4, <1>5, <1>7, TotalReplace
<1>12. Total(Q, pay0) = 0
  BY <1>6, TotalZero
<1>13. /\ Total(O, payout) \in Nat /\ Total(Q, payout) \in Nat
       /\ Total(Q, Stakes) \in Nat
  BY <1>1, <1>2, <1>4, CentsFinite
<1>14. Total(OwnedBy(InStatus(BetStatus), u), Stakes) \in Nat /\ Funds[u] \in Nat
  <2>1. InStatus(BetStatus) \subseteq Bets
    BY DEF InStatus
  <2> QED
    BY <2>1, StakesTotal, MoneyAssumption DEF IInv
<1> DEFINE taken == Total(OwnedBy(InStatus(BetStatus), u), Stakes)
<1> HIDE DEF taken
<1>15. AfterTakingBack(R)[u] = Funds[u] - taken + Total(O, pay0)
  BY <1>9, <1>11, <1>12, <1>13, <1>14 DEF taken
<1>16. AfterTakingBack(R)[u] \in Int
  BY <1>9, <1>13
<1> QED
  BY <1>3, <1>8, <1>10, <1>13, <1>15, <1>16 DEF taken, O, Q, pay0

(* The wallet and the ledger accounts once the reopened bets R are undone. *)
ReopenedHeld(R) == [u \in Users |-> held[u] + Total(OwnedBy(R, u), Stakes)]
ReversedAvailable(R) ==
    [u \in Users |-> availableAcc[u] - Credits(RowsOf(ReversedFor(R), u))]
ReversedHold(R) ==
    [u \in Users |-> holdAcc[u] + Holds(RowsOf(ReversedFor(R), u))]

(* The wallets and accounts of a correction before it settles again. *)
LEMMA ReopenedAccounts ==
  ASSUME IInv, NEW R, R \subseteq Settled
  PROVE  /\ AfterTakingBack(R) \in [Users -> Int]
         /\ ReopenedHeld(R) \in [Users -> Nat]
         /\ ReversedAvailable(R) \in [Users -> Int]
         /\ ReversedHold(R) \in [Users -> Int]
<1> DEFINE J == ReversedFor(R)
<1>1. \A u \in Users : held[u] \in Nat /\ availableAcc[u] \in Int /\ holdAcc[u] \in Int
  BY DEF IInv, TypeOK
<1>2. \A u \in Users :
        AfterTakingBack(R)[u] \in Int /\ Total(OwnedBy(R, u), Stakes) \in Nat
  BY ReopenedWallets
<1>3. J \subseteq journals
  BY DEF ReversedFor
<1>4. /\ AfterTakingBack(R) = [u \in Users |-> AfterTakingBack(R)[u]]
      /\ ReopenedHeld(R) = [u \in Users |-> held[u] + Total(OwnedBy(R, u), Stakes)]
      /\ ReversedAvailable(R) = [u \in Users |-> availableAcc[u] - Credits(RowsOf(J, u))]
      /\ ReversedHold(R) = [u \in Users |-> holdAcc[u] + Holds(RowsOf(J, u))]
  BY DEF AfterTakingBack, ReopenedHeld, ReversedAvailable, ReversedHold
<1> HIDE DEF J
<1>5. IsFiniteSet(J) /\ J \subseteq JournalRow
  BY <1>3, FS_Subset DEF IInv, TypeOK
<1>6. \A u \in Users : Credits(RowsOf(J, u)) \in Nat /\ Holds(RowsOf(J, u)) \in Nat
  BY <1>5, PostedTotals
<1>7. /\ AfterTakingBack(R) \in [Users -> Int]
      /\ ReopenedHeld(R) \in [Users -> Nat]
  BY <1>1, <1>2, <1>4
<1>8. /\ ReversedAvailable(R) \in [Users -> Int]
      /\ ReversedHold(R) \in [Users -> Int]
  BY <1>1, <1>4, <1>6
<1> QED
  BY <1>7, <1>8

(* The correction of an event. *)
LEMMA ResettleEventInv ==
  ASSUME IInv, NEW e \in Events, NEW out \in [SelectionsOf(e) -> Outcomes],
         ResettleEvent(e, out)
  PROVE  /\ IInv'
         /\ \A u \in Users :
              available'[u] >= AfterTakingBack({b \in Settled : Touches(b, e)})[u]
<1> DEFINE R == {b \in Settled : Touches(b, e)}
           B == InStatus({"PLACED"}) \cup R
           avail0 == AfterTakingBack(R)
           held0 == ReopenedHeld(R)
           avAcc0 == ReversedAvailable(R)
           hoAcc0 == ReversedHold(R)
<1>1. /\ request' = request
      /\ corrections[e] < MaxCorrections
      /\ corrections' = [corrections EXCEPT ![e] = @ + 1]
      /\ flagged' = flagged \cup Overdrawn(R, avail0)
      /\ SettleFrom(e, out, DefaultTaxRate, B, avail0, held0, avAcc0, hoAcc0)
  BY DEF ResettleEvent, ReopenedHeld, ReversedAvailable, ReversedHold
<1>2. corrections' \in [Events -> 0 .. MaxCorrections]
  BY <1>1, MoneyAssumption DEF IInv, TypeOK
<1>3. flagged' \subseteq Users
  BY <1>1 DEF IInv, TypeOK, Overdrawn
<1>4. R \subseteq Settled /\ B \subseteq InStatus(BetStatus) /\ InStatus({"PLACED"}) \subseteq B
  BY DEF Settled, InStatus, BetStatus
<1>5. DefaultTaxRate \in 0 .. Scale
  BY DEF DefaultTaxRate, Scale
<1>6. B = InStatus({"PLACED"}) \cup R /\ avail0 = AfterTakingBack(R)
  OBVIOUS
<1>7. \A u \in Users : held0[u] = held[u] + Total(OwnedBy(R, u), Stakes)
  BY DEF ReopenedHeld
<1> HIDE DEF R, B, avail0, held0, avAcc0, hoAcc0
<1>8. ASSUME NEW u \in Users
      PROVE  /\ held0[u] = Total(OwnedBy(B, u), Stakes)
             /\ avail0[u] =
                  Funds[u] - Total(OwnedBy(InStatus(BetStatus), u), Stakes)
                  + Total(OwnedBy(Bets, u), PayoutsBut(B))
  BY <1>4, <1>6, <1>7, ReopenedWallets
<1>9. /\ avail0 \in [Users -> Int] /\ held0 \in [Users -> Nat]
      /\ avAcc0 \in [Users -> Int] /\ hoAcc0 \in [Users -> Int]
  BY <1>4, ReopenedAccounts DEF avail0, held0, avAcc0, hoAcc0
<1>10. TypeOK /\ IsFiniteSet(journals) /\ OpenBetsUnpaid
  BY DEF IInv
<1>11. IInv' /\ \A u \in Users : available'[u] >= avail0[u]
  BY <1>1, <1>2, <1>3, <1>4, <1>5, <1>8, <1>9, <1>10, SettledInvariant
<1> QED
  BY <1>11 DEF avail0, R

(* A cash-out closes one bet for its quote. *)
LEMMA CashoutInv ==
  ASSUME IInv, NEW b \in Bets, Cashout(b)
  PROVE  IInv' /\ \A u \in Users : available'[u] >= available[u]
<1> DEFINE o == Owner(b)
           j == CashoutJournal(request[b].stake, request[b].odds)
           rows == IF Fresh(b, "cashout") THEN {Row(b, j)} ELSE {}
           B == InStatus({"PLACED"})
           D == {b}
           pay == [c \in D |-> j.credit]
<1>1. /\ o \in Users /\ request[b].user = o
      /\ request[b].stake \in Nat /\ request[b].odds \in Nat
      /\ Stakes[b] = request[b].stake
  BY RequestType DEF IInv, Owner
<1>2. Amounts(j)
  BY <1>1, CashoutJournalFacts
<1>3. /\ status[b] = "PLACED" /\ status \in [Bets -> {"NONE"} \cup BetStatus]
      /\ status' = [status EXCEPT ![b] = "CASHED_OUT"]
      /\ payout' = [payout EXCEPT ![b] = j.credit]
      /\ available' = [available EXCEPT ![o] = @ + j.credit]
      /\ held' = [held EXCEPT ![o] = Release(@, request[b].stake)]
      /\ journals' = journals \cup rows
      /\ availableAcc' = [availableAcc EXCEPT ![o] = @ + Credits(rows)]
      /\ holdAcc' = [holdAcc EXCEPT ![o] = @ - Holds(rows)]
      /\ request' = request /\ leg' = leg /\ hold' = hold /\ result' = result
      /\ corrections' = corrections /\ flagged' = flagged
  BY DEF IInv, TypeOK, Cashout, Owner
<1>4. rows \subseteq JournalRow /\ IsFiniteSet(rows)
  <2>1. Row(b, j) \in JournalRow
    BY <1>2 DEF Row, JournalRow, Amounts
  <2> HIDE DEF j
  <2> QED
    BY <2>1, FS_Singleton, FS_EmptySet
<1>5. Credits(rows) \in Nat /\ Holds(rows) \in Nat
  <2>1. rows = RowsOf(rows, o)
    BY DEF Row, RowsOf
  <2> HIDE DEF rows
  <2> QED
    BY <1>4, <2>1, PostedTotals
<1>6. j.credit \in Nat
  BY <1>2 DEF Amounts
<1> HIDE DEF o, j, rows
<1>7. TypeOK' /\ IsFiniteSet(journals')
  <2>1. /\ status' \in [Bets -> {"NONE"} \cup BetStatus]
        /\ payout' \in [Bets -> Nat]
    BY <1>3, <1>6 DEF IInv, TypeOK, BetStatus
  <2>2. available' \in [Users -> Int]
    BY <1>1, <1>3, <1>6 DEF IInv, TypeOK
  <2>3. held' \in [Users -> Nat]
    <3>1. \A m, n \in Nat : Release(m, n) \in Nat
      BY DEF Release
    <3> QED
      BY <1>1, <1>3, <3>1 DEF IInv, TypeOK
  <2>4. availableAcc' \in [Users -> Int] /\ holdAcc' \in [Users -> Int]
    <3> DEFINE cr == Credits(rows)
               ho == Holds(rows)
    <3>1. cr \in Nat /\ ho \in Nat
      BY <1>5
    <3>2. /\ availableAcc' = [availableAcc EXCEPT ![o] = @ + cr]
          /\ holdAcc' = [holdAcc EXCEPT ![o] = @ - ho]
      BY <1>3
    <3> HIDE DEF cr, ho
    <3> QED
      BY <1>1, <3>1, <3>2 DEF IInv, TypeOK
  <2>5. journals' \subseteq JournalRow /\ IsFiniteSet(journals')
    BY <1>3, <1>4, FS_Union DEF IInv, TypeOK
  <2> QED
    BY <1>3, <2>1, <2>2, <2>3, <2>4, <2>5 DEF IInv, TypeOK
<1>8. /\ B \subseteq Bets /\ D \subseteq B
      /\ InStatus({"NONE"})' = InStatus({"NONE"})
      /\ InStatus({"NONE"}) \cap B = {}
      /\ InStatus({"PLACED"})' = B \ D
      /\ InStatus(BetStatus)' = InStatus(BetStatus)
  BY <1>3 DEF InStatus, BetStatus, Verdicts
<1>9. \A c \in D : pay[c] \in Nat
  BY <1>6
<1>10. payout' = [c \in Bets |->
          IF c \in D THEN pay[c] ELSE IF c \in B THEN 0 ELSE payout[c]]
  <2>1. payout = [c \in Bets |-> payout[c]]
    BY DEF IInv, TypeOK
  <2>2. \A c \in B : payout[c] = 0
    BY DEF IInv, OpenBetsUnpaid, InStatus
  <2> HIDE DEF B
  <2> QED
    BY <1>3, <2>1, <2>2
<1>11. ASSUME NEW u \in Users
       PROVE  /\ available'[u] = available[u] + Total(OwnedBy(D, u), pay)
              /\ held'[u] = Release(held[u], Total(OwnedBy(D, u), Stakes))
  <2>1. available[u] \in Int /\ held[u] \in Nat
    BY DEF IInv, TypeOK
  <2>2. CASE u = o
    <3>1. OwnedBy({b}, u) = {b}
      BY <2>2 DEF OwnedBy, o
    <3>2. Total({b}, pay) = j.credit
      <4>1. pay[b] = j.credit
        OBVIOUS
      <4> HIDE DEF pay
      <4> QED
        BY <1>6, <4>1, TotalSingleton
    <3>3. Total({b}, Stakes) = request[b].stake
      BY <1>1, TotalSingleton
    <3> QED
      BY <1>1, <1>3, <2>2, <3>1, <3>2, <3>3 DEF IInv, TypeOK
  <2>3. CASE u # o
    <3>1. OwnedBy({b}, u) = {}
      BY <2>3 DEF OwnedBy, o
    <3>2. Total({}, pay) = 0 /\ Total({}, Stakes) = 0
      BY TotalEmpty
    <3>3. available'[u] = available[u] /\ held'[u] = held[u]
      BY <1>3, <2>3 DEF IInv, TypeOK
    <3>4. Release(held[u], 0) = held[u]
      BY <2>1 DEF Release
    <3> QED
      BY <2>1, <3>1, <3>2, <3>3, <3>4
  <2> QED
    BY <2>2, <2>3
<1>12. \A u \in Users :
         /\ held[u] = Total(OwnedBy(B, u), Stakes)
         /\ available[u] = Funds[u] - Total(OwnedBy(InStatus(BetStatus), u), Stakes)
                           + Total(OwnedBy(Bets, u), PayoutsBut(B))
  BY StandingPayouts DEF IInv, HeldBacksOpenBets, AvailableIsFundsStakesPayouts
<1>13. available \in [Users -> Int] /\ held \in [Users -> Nat]
  BY DEF IInv, TypeOK
<1>14. TypeOK /\ OpenBetsUnpaid /\ request' = request
  BY <1>3 DEF IInv
<1> HIDE DEF B, D, pay
<1>15. /\ HeldBacksOpenBets' /\ AvailableIsFundsStakesPayouts'
       /\ OpenBetsUnpaid'
       /\ \A u \in Users : available'[u] >= available[u]
  BY <1>8, <1>9, <1>10, <1>11, <1>12, <1>13, <1>14, ClosedWallets
<1> QED
  BY <1>7, <1>15 DEF IInv

-----------------------------------------------------------------------------
(* Every step keeps the invariant. *)
LEMMA StepInv == IInv /\ [Next]_vars => IInv'
<1> SUFFICES ASSUME IInv, [Next]_vars PROVE IInv'
  OBVIOUS
<1>1. CASE \E b \in Bets : PlaceBet(b)
  BY <1>1, PlaceBetInv
<1>2. CASE \E b \in Bets : Cashout(b)
  BY <1>2, CashoutInv
<1>3. CASE \E e \in Events : \E out \in [SelectionsOf(e) -> Outcomes] : SettleEvent(e, out)
  BY <1>3, SettleEventInv
<1>4. CASE \E e \in Events : \E out \in [SelectionsOf(e) -> Outcomes] : ResettleEvent(e, out)
  BY <1>4, ResettleEventInv
<1>5. CASE UNCHANGED vars
  <2>1. /\ TypeOK' = TypeOK /\ IsFiniteSet(journals') = IsFiniteSet(journals)
        /\ OpenBetsUnpaid' = OpenBetsUnpaid
    BY <1>5 DEF vars, betVars, walletVars, ledgerVars, TypeOK, OpenBetsUnpaid, InStatus
  <2>2. /\ Stakes' = Stakes /\ \A S : InStatus(S)' = InStatus(S)
        /\ \A X, u : OwnedBy(X, u)' = OwnedBy(X', u)
    BY <1>5 DEF vars, betVars, Stakes, OwnedBy, Owner, InStatus
  <2>3. available' = available /\ held' = held /\ payout' = payout
    BY <1>5 DEF vars, betVars, walletVars
  <2>4. HeldBacksOpenBets'
    BY <2>2, <2>3 DEF IInv, HeldBacksOpenBets
  <2>5. AvailableIsFundsStakesPayouts'
    BY <2>2, <2>3 DEF IInv, AvailableIsFundsStakesPayouts
  <2> QED
    BY <2>1, <2>4, <2>5 DEF IInv
<1> QED
  BY <1>1, <1>2, <1>3, <1>4, <1>5 DEF Next

(* The invariant of the whole core. *)
THEOREM Invariance == Spec => []IInv
BY InitInv, StepInv, PTL DEF Spec

(* Every variable keeps its type: balances that are integers, holds that   *)
(* are never negative, journals of non-negative amounts.                   *)
THEOREM TypeCorrect == Spec => []TypeOK
<1>1. IInv => TypeOK
  BY DEF IInv
<1> QED
  BY <1>1, Invariance, PTL

(* heldCents is at all times the sum of the stakes of the open bets.       *)
THEOREM HeldBacks == Spec => []HeldBacksOpenBets
<1>1. IInv => HeldBacksOpenBets
  BY DEF IInv
<1> QED
  BY <1>1, Invariance, PTL

(* availableCents is at all times the deposits, less the stakes taken,     *)
(* plus the standing payouts.                                              *)
THEOREM AvailableFollows == Spec => []AvailableIsFundsStakesPayouts
<1>1. IInv => AvailableIsFundsStakesPayouts
  BY DEF IInv
<1> QED
  BY <1>1, Invariance, PTL
(* A user whose balance is below zero has an open risk case: a placement   *)
(* never overdraws, a settlement and a cash-out only add, and a correction *)
(* reads the balance after it has taken the payouts back.                  *)
THEOREM NegativeFlagged == Spec => []NegativeOnlyIfFlagged
<1>1. Init => NegativeOnlyIfFlagged
  BY MoneyAssumption DEF Init, NegativeOnlyIfFlagged
<1>2. IInv /\ NegativeOnlyIfFlagged /\ [Next]_vars => NegativeOnlyIfFlagged'
  <2> SUFFICES ASSUME IInv, NegativeOnlyIfFlagged, [Next]_vars,
                      NEW u \in Users, available'[u] < 0
               PROVE  u \in flagged'
    BY DEF NegativeOnlyIfFlagged
  <2>1. available[u] \in Int
    BY DEF IInv, TypeOK
  <2>2. available[u] < 0 => u \in flagged
    BY DEF NegativeOnlyIfFlagged
  <2>3. CASE \E b \in Bets : PlaceBet(b)
    <3>1. PICK b \in Bets : PlaceBet(b)
      BY <2>3
    <3>2. /\ available' = [available EXCEPT ![request[b].user] = @ - request[b].stake]
          /\ available[request[b].user] >= request[b].stake
          /\ flagged' = flagged
      BY <3>1 DEF PlaceBet
    <3>3. request[b].stake \in Nat
      BY RequestType DEF IInv
    <3> QED
      BY <2>1, <2>2, <3>2, <3>3 DEF IInv, TypeOK
  <2>4. CASE \E b \in Bets : Cashout(b)
    <3>1. available'[u] >= available[u] /\ flagged' = flagged
      BY <2>4, CashoutInv DEF Cashout
    <3>2. available'[u] \in Int
      BY <2>4, CashoutInv DEF IInv, TypeOK
    <3> QED
      BY <2>1, <2>2, <3>1, <3>2
  <2>5. CASE \E e \in Events : \E out \in [SelectionsOf(e) -> Outcomes] : SettleEvent(e, out)
    <3>1. available'[u] >= available[u] /\ flagged' = flagged
      BY <2>5, SettleEventInv DEF SettleEvent
    <3>2. available'[u] \in Int
      BY <2>5, SettleEventInv DEF IInv, TypeOK
    <3> QED
      BY <2>1, <2>2, <3>1, <3>2
  <2>6. CASE \E e \in Events : \E out \in [SelectionsOf(e) -> Outcomes] : ResettleEvent(e, out)
    <3>1. PICK e \in Events : \E out \in [SelectionsOf(e) -> Outcomes] : ResettleEvent(e, out)
      BY <2>6
    <3> DEFINE R == {b \in Settled : Touches(b, e)}
    <3>2. /\ available'[u] >= AfterTakingBack(R)[u]
          /\ available'[u] \in Int
      BY <3>1, ResettleEventInv DEF IInv, TypeOK
    <3>3. flagged' = flagged \cup Overdrawn(R, AfterTakingBack(R))
      BY <3>1 DEF ResettleEvent
    <3>4. AfterTakingBack(R)[u] = available[u] - Total(OwnedBy(R, u), payout)
      BY DEF AfterTakingBack
    <3>5. R \subseteq Settled
      OBVIOUS
    <3> HIDE DEF R
    <3>6. AfterTakingBack(R)[u] \in Int
      BY <3>5, ReopenedWallets
    <3>7. CASE OwnedBy(R, u) = {}
      BY <2>1, <2>2, <3>2, <3>3, <3>4, <3>7, TotalEmpty
    <3>8. CASE OwnedBy(R, u) # {}
      BY <3>2, <3>3, <3>6, <3>8 DEF Overdrawn
    <3> QED
      BY <3>7, <3>8
  <2>7. CASE UNCHANGED vars
    BY <2>2, <2>7 DEF vars, walletVars
  <2> QED
    BY <2>3, <2>4, <2>5, <2>6, <2>7 DEF Next
<1> QED
  BY <1>1, <1>2, Invariance, PTL DEF Spec

(* No bet is ever paid more than the potential payout its slip named, or   *)
(* its stake, however it was decided, corrected or cashed out.             *)
PaidWithinPotential ==
    \A b \in Bets : Within(payout[b], request[b].stake, request[b].odds)

(* The bets a settlement decides are paid within their potential, the      *)
(* others what they were, or nothing.                                      *)
LEMMA SettledWithin ==
  ASSUME TypeOK, PaidWithinPotential, request' = request,
         NEW e, NEW out, NEW rate \in 0 .. Scale,
         NEW B, B \subseteq InStatus(BetStatus),
         NEW avail0, NEW held0, NEW avAcc0, NEW hoAcc0,
         SettleFrom(e, out, rate, B, avail0, held0, avAcc0, hoAcc0)
  PROVE  PaidWithinPotential'
<1> SUFFICES ASSUME NEW b \in Bets
             PROVE  Within(payout'[b], request[b].stake, request[b].odds)
  BY DEF PaidWithinPotential
<1> DEFINE D == Decided(B, LegsAfter(e, out))
<1>1. payout'[b] = IF b \in D THEN [c \in D |-> [a \in D |-> JournalOf(a, e, out, rate)][c].credit][b]
                   ELSE IF b \in B THEN 0 ELSE payout[b]
  BY DEF SettleFrom
<1>2. request[b].stake \in Nat /\ request[b].odds \in Nat
  BY RequestType
<1>3. Within(JournalOf(b, e, out, rate).credit, request[b].stake, request[b].odds)
  <2>1. VerdictOf(b, LegsAfter(e, out)) \in Verdicts
    BY DEF VerdictOf, Verdict, Verdicts
  <2>2. FactorOf(b, e, out) \in 0 .. Scale
    BY MoneyAssumption DEF FactorOf, Scale
  <2> QED
    BY <1>2, <2>1, <2>2, JournalPaysWithin DEF JournalOf
<1>4. Within(0, request[b].stake, request[b].odds)
  BY <1>2 DEF Within
<1> HIDE DEF D
<1> QED
  BY <1>1, <1>3, <1>4 DEF PaidWithinPotential

(* The exposure that RiskEngine counts, potential payouts net of stakes,   *)
(* bounds what settlements, corrections and cash-outs in any order pay.    *)
THEOREM ExposureSuffices == Spec => []PaidWithinPotential
<1>1. Init => PaidWithinPotential
  <2> SUFFICES ASSUME Init, NEW b \in Bets
               PROVE  Within(0, request[b].stake, request[b].odds)
    BY DEF Init, PaidWithinPotential
  <2> QED
    BY InitInv, RequestType DEF IInv, Within
<1>2. IInv /\ PaidWithinPotential /\ [Next]_vars => PaidWithinPotential'
  <2> SUFFICES ASSUME IInv, PaidWithinPotential, [Next]_vars PROVE PaidWithinPotential'
    OBVIOUS
  <2>0. TypeOK
    BY DEF IInv
  <2>1. ASSUME NEW b \in Bets, PlaceBet(b) PROVE PaidWithinPotential'
    BY <2>1 DEF PlaceBet, PaidWithinPotential
  <2>2. ASSUME NEW b \in Bets, Cashout(b) PROVE PaidWithinPotential'
    <3>1. /\ request' = request
          /\ payout' = [payout EXCEPT ![b] = CashoutJournal(request[b].stake, request[b].odds).credit]
      BY <2>2 DEF Cashout
    <3>2. request[b].stake \in Nat /\ request[b].odds \in Nat
      BY <2>0, RequestType
    <3>3. Within(CashoutJournal(request[b].stake, request[b].odds).credit,
                 request[b].stake, request[b].odds)
      BY <3>2, JournalPaysWithin
    <3>4. payout \in [Bets -> Nat]
      BY <2>0 DEF TypeOK
    <3> QED
      BY <3>1, <3>3, <3>4 DEF PaidWithinPotential
  <2>3. ASSUME NEW e \in Events, NEW out \in [SelectionsOf(e) -> Outcomes],
               SettleEvent(e, out)
        PROVE  PaidWithinPotential'
    <3>1. /\ request' = request
          /\ SettleFrom(e, out, TaxRate, InStatus({"PLACED"}), available, held,
                        availableAcc, holdAcc)
      BY <2>3 DEF SettleEvent
    <3>2. InStatus({"PLACED"}) \subseteq InStatus(BetStatus)
      BY DEF InStatus, BetStatus
    <3> QED
      BY <2>0, <3>1, <3>2, SettledWithin, MoneyAssumption
  <2>4. ASSUME NEW e \in Events, NEW out \in [SelectionsOf(e) -> Outcomes],
               ResettleEvent(e, out)
        PROVE  PaidWithinPotential'
    <3> DEFINE R == {c \in Settled : Touches(c, e)}
               B == InStatus({"PLACED"}) \cup R
    <3>1. /\ request' = request
          /\ SettleFrom(e, out, DefaultTaxRate, B, AfterTakingBack(R), ReopenedHeld(R),
                        ReversedAvailable(R), ReversedHold(R))
      BY <2>4 DEF ResettleEvent, ReopenedHeld, ReversedAvailable, ReversedHold
    <3>2. B \subseteq InStatus(BetStatus)
      BY DEF InStatus, BetStatus, Settled
    <3>3. DefaultTaxRate \in 0 .. Scale
      BY DEF DefaultTaxRate, Scale
    <3> HIDE DEF B, R
    <3> QED
      BY <2>0, <3>1, <3>2, <3>3, SettledWithin
  <2>5. CASE UNCHANGED vars
    BY <2>5 DEF vars, betVars, PaidWithinPotential
  <2> QED
    BY <2>1, <2>2, <2>3, <2>4, <2>5 DEF Next
<1> QED
  BY <1>1, <1>2, Invariance, PTL DEF Spec

(* When every stake is at least two cents and all odds are at least        *)
(* 1.0000, the ledger accepts the journals of every settlement: no bet     *)
(* can make the settlement of an event fail.                               *)
THEOREM SettlementsPost ==
  ASSUME \A r \in Requests : r.stake >= 2 /\ r.odds >= Scale
  PROVE  Spec => []EverySettlementPosts
<1>1. TypeOK => EverySettlementPosts
  <2> SUFFICES ASSUME TypeOK, NEW e \in Events,
                      NEW out \in [SelectionsOf(e) -> Outcomes],
                      NEW b \in Decided(InStatus({"PLACED"}), LegsAfter(e, out))
               PROVE  Postable(JournalOf(b, e, out, TaxRate))
    BY DEF EverySettlementPosts
  <2>1. b \in Bets
    BY DEF Decided, InStatus
  <2>2. /\ request[b].stake \in Nat /\ request[b].odds \in Nat
        /\ request[b].stake >= 2 /\ request[b].odds >= Scale
    BY <2>1, RequestType
  <2>3. VerdictOf(b, LegsAfter(e, out)) \in Verdicts
    BY DEF VerdictOf, Verdict, Verdicts
  <2>4. FactorOf(b, e, out) \in 0 .. Scale /\ TaxRate \in 0 .. Scale
    BY MoneyAssumption DEF FactorOf, Scale
  <2> QED
    BY <2>2, <2>3, <2>4, SettlementJournalPostable DEF JournalOf
<1> QED
  BY <1>1, TypeCorrect, PTL
-----------------------------------------------------------------------------
(* The wallet implements the abstract book.                                *)

(* The sums and the ownership of the book are those of the wallet.         *)
LEMMA BookTotals ==
  /\ \A S, f : Book!Total(S, f) = Total(S, f)
  /\ \A X \in SUBSET Bets : \A u : Book!Of(X, u) = OwnedBy(X, u)
<1>1. \A S, f : Book!Total(S, f) = Total(S, f)
  <2> SUFFICES ASSUME NEW S, NEW f PROVE Book!Total(S, f) = Total(S, f)
    OBVIOUS
  <2>1. Book!CentsOf(S, f) = CentsOf(S, f)
    BY DEF Book!CentsOf, CentsOf
  <2> QED
    BY <2>1 DEF Book!Total, Total, Cardinality, Book!Cardinality
<1>2. \A X \in SUBSET Bets : \A u : Book!Of(X, u) = OwnedBy(X, u)
  BY DEF Book!Of, OwnedBy
<1> QED
  BY <1>1, <1>2

(* After every step the wallet is what the book says it is. *)
LEMMA BookWallet ==
  ASSUME IInv, IInv', request' = request
  PROVE  Book!WalletFollows
<1> DEFINE open == InStatus({"PLACED"})
           taken == InStatus(BetStatus)
<1>1. open' \subseteq Bets /\ taken' \subseteq Bets /\ open' \cup Settled' = taken'
  BY DEF InStatus, Settled, BetStatus
<1>2. /\ Stakes' = Stakes
      /\ \A X, u : OwnedBy(X, u)' = OwnedBy(X', u)
  BY DEF Stakes, OwnedBy, Owner
<1>3. available' = [u \in Users |-> available'[u]] /\ held' = [u \in Users |-> held'[u]]
  BY DEF IInv, TypeOK
<1>4. \A u \in Users :
        /\ held'[u] = Total(OwnedBy(open', u), Stakes)
        /\ available'[u] = Funds[u] - Total(OwnedBy(taken', u), Stakes)
                          + Total(OwnedBy(Bets, u), payout')
  BY <1>2 DEF IInv, HeldBacksOpenBets, AvailableIsFundsStakesPayouts
<1> HIDE DEF open, taken
<1>5. \A u \in Users :
        /\ Book!Total(Book!Of(open', u), Stakes) = held'[u]
        /\ Book!Balance(taken', payout', u) = available'[u]
  BY <1>1, <1>4, BookTotals DEF Book!Balance
<1> QED
  BY <1>1, <1>3, <1>5 DEF Book!WalletFollows, open
(* What never changes about the bets, in the terms of the book. *)
LEMMA BookFixed ==
  ASSUME request' = request
  PROVE  UNCHANGED <<[b \in Bets |-> Owner(b)], Stakes,
                     [b \in Bets |-> {EventNamed(l) : l \in Legs(b)}]>>
BY DEF Owner, Stakes, Legs

(* A placement opens a bet of the book. *)
LEMMA PlaceBetOpens ==
  ASSUME IInv, NEW b \in Bets, PlaceBet(b)
  PROVE  Book!Open(b)
<1>1. /\ status[b] = "NONE" /\ status \in [Bets -> {"NONE"} \cup BetStatus]
      /\ status' = [status EXCEPT ![b] = "PLACED"]
      /\ available[request[b].user] >= request[b].stake
      /\ payout' = payout /\ corrections' = corrections
  BY DEF PlaceBet, IInv, TypeOK
<1>2. /\ b \notin InStatus({"PLACED"}) /\ b \notin Settled
      /\ InStatus({"PLACED"})' = InStatus({"PLACED"}) \cup {b}
      /\ Settled' = Settled
  BY <1>1 DEF InStatus, Settled, BetStatus, Verdicts
<1>3. available[[c \in Bets |-> Owner(c)][b]] >= Stakes[b]
  BY <1>1 DEF Owner, Stakes
<1> QED
  BY <1>1, <1>2, <1>3 DEF Book!Open

(* A cash-out closes one bet of the book. *)
LEMMA CashoutCloses ==
  ASSUME IInv, NEW b \in Bets, Cashout(b)
  PROVE  Book!Close
<1>1. /\ status[b] = "PLACED" /\ status \in [Bets -> {"NONE"} \cup BetStatus]
      /\ status' = [status EXCEPT ![b] = "CASHED_OUT"]
      /\ \A c \in Bets \ {b} : payout'[c] = payout[c]
      /\ corrections' = corrections
  BY DEF Cashout, IInv, TypeOK
<1>2. /\ b \in InStatus({"PLACED"})
      /\ InStatus({"PLACED"})' = InStatus({"PLACED"}) \ {b}
      /\ Settled' = Settled \cup {b}
  BY <1>1 DEF InStatus, Settled, BetStatus, Verdicts
<1> QED
  BY <1>1, <1>2 DEF Book!Close

(* A settlement closes the decided bets. *)
LEMMA SettleEventCloses ==
  ASSUME IInv, NEW e \in Events, NEW out, SettleEvent(e, out)
  PROVE  Book!Close
<1> DEFINE B == InStatus({"PLACED"})
           D == Decided(B, LegsAfter(e, out))
           pay == [b \in D |-> [c \in D |-> JournalOf(c, e, out, TaxRate)][b].credit]
<1>1. /\ SettleFrom(e, out, TaxRate, B, available, held, availableAcc, holdAcc)
      /\ corrections' = corrections
  BY DEF SettleEvent
<1>2. /\ B \subseteq InStatus(BetStatus) /\ InStatus({"PLACED"}) \subseteq B
      /\ TypeOK
  BY DEF InStatus, BetStatus, IInv
<1>3. /\ D \subseteq B
      /\ InStatus({"PLACED"})' = B \ D
      /\ Settled' = (InStatus(BetStatus) \ B) \cup D
  <2> HIDE DEF B
  <2> QED
    BY <1>1, <1>2, SettledStatuses
<1>4. payout' = [b \in Bets |->
         IF b \in D THEN pay[b] ELSE IF b \in B THEN 0 ELSE payout[b]]
  BY <1>1 DEF SettleFrom
<1>5. \A b \in B : payout[b] = 0
  BY DEF IInv, OpenBetsUnpaid, InStatus
<1>6. InStatus(BetStatus) \ B = Settled
  BY DEF InStatus, Settled, BetStatus, Verdicts
<1> HIDE DEF D, pay, B
<1>7. \A b \in Bets \ D : payout'[b] = payout[b]
  BY <1>4, <1>5
<1>8. InStatus({"PLACED"}) \ (B \ D) = D /\ B \ D \subseteq InStatus({"PLACED"})
  BY <1>3 DEF B
<1> QED
  BY <1>1, <1>3, <1>6, <1>7, <1>8 DEF Book!Close

(* A correction of the wallet is a correction of the book. *)
LEMMA ResettleEventCorrects ==
  ASSUME IInv, NEW e \in Events, NEW out, ResettleEvent(e, out)
  PROVE  Book!Correct(e)
<1> DEFINE R == {b \in Settled : Touches(b, e)}
           B == InStatus({"PLACED"}) \cup R
           D == Decided(B, LegsAfter(e, out))
           pay == [b \in D |-> [c \in D |-> JournalOf(c, e, out, DefaultTaxRate)][b].credit]
<1>1. \E avail0, held0, avAcc0, hoAcc0 :
        SettleFrom(e, out, DefaultTaxRate, B, avail0, held0, avAcc0, hoAcc0)
  BY DEF ResettleEvent
<1>2. corrections' = [corrections EXCEPT ![e] = @ + 1]
  BY DEF ResettleEvent
<1>3. /\ B \subseteq InStatus(BetStatus) /\ InStatus({"PLACED"}) \subseteq B
      /\ TypeOK
  BY DEF InStatus, BetStatus, IInv, Settled
<1>4. /\ D \subseteq B
      /\ InStatus({"PLACED"})' = B \ D
      /\ Settled' = (InStatus(BetStatus) \ B) \cup D
  <2> HIDE DEF B
  <2> QED
    BY <1>1, <1>3, SettledStatuses
<1>5. payout' = [b \in Bets |->
         IF b \in D THEN pay[b] ELSE IF b \in B THEN 0 ELSE payout[b]]
  BY <1>1 DEF SettleFrom
<1>6. InStatus(BetStatus) \ B = Settled \ R
  BY DEF InStatus, Settled, BetStatus, Verdicts
<1>7. R = {b \in Settled : e \in [c \in Bets |-> {EventNamed(l) : l \in Legs(c)}][b]}
  BY DEF Touches, Settled, InStatus
<1>8. B = InStatus({"PLACED"}) \cup R /\ B \subseteq Bets
  BY DEF InStatus, Settled
<1> HIDE DEF R, D, pay, B
<1>9. /\ \A b \in B \ D : payout'[b] = 0
      /\ \A b \in Bets \ B : payout'[b] = payout[b]
  BY <1>4, <1>5, <1>8
<1>10. B \ (B \ D) = D
  BY <1>4
<1> QED
  BY <1>2, <1>4, <1>6, <1>7, <1>8, <1>9, <1>10 DEF Book!Correct

(* Every behaviour of the betting core is a behaviour of the book: the     *)
(* initial states map to initial states, a placement to Open, a settlement *)
(* and a cash-out to Close, a correction to Correct.                       *)
THEOREM Refinement == Spec => ImplementsBetBook
<1>1. Init => Book!Init
  <2> SUFFICES ASSUME Init PROVE Book!Init
    OBVIOUS
  <2>1. InStatus({"PLACED"}) = {} /\ Settled = {}
    BY DEF Init, InStatus, Settled, BetStatus, Verdicts
  <2> QED
    BY <2>1 DEF Init, Book!Init
<1>2. IInv /\ IInv' /\ [Next]_vars => [Book!Next]_(Book!bookVars)
  <2> SUFFICES ASSUME IInv, IInv', [Next]_vars
               PROVE  [Book!Next]_(Book!bookVars)
    OBVIOUS
  <2>1. CASE \E b \in Bets : PlaceBet(b)
    <3>1. request' = request
      BY <2>1 DEF PlaceBet
    <3> QED
      BY <2>1, <3>1, PlaceBetOpens, BookWallet, BookFixed DEF Book!Next
  <2>2. CASE \E b \in Bets : Cashout(b)
    <3>1. request' = request
      BY <2>2 DEF Cashout
    <3> QED
      BY <2>2, <3>1, CashoutCloses, BookWallet, BookFixed DEF Book!Next
  <2>3. CASE \E e \in Events : \E out \in [SelectionsOf(e) -> Outcomes] : SettleEvent(e, out)
    <3>1. request' = request
      BY <2>3 DEF SettleEvent
    <3> QED
      BY <2>3, <3>1, SettleEventCloses, BookWallet, BookFixed DEF Book!Next
  <2>4. CASE \E e \in Events : \E out \in [SelectionsOf(e) -> Outcomes] : ResettleEvent(e, out)
    <3>1. request' = request
      BY <2>4 DEF ResettleEvent
    <3> QED
      BY <2>4, <3>1, ResettleEventCorrects, BookWallet, BookFixed DEF Book!Next
  <2>5. CASE UNCHANGED vars
    <3>1. /\ request' = request /\ status' = status /\ payout' = payout
          /\ corrections' = corrections /\ available' = available /\ held' = held
      BY <2>5 DEF vars, betVars, walletVars
    <3>2. InStatus({"PLACED"})' = InStatus({"PLACED"}) /\ Settled' = Settled
      BY <3>1 DEF InStatus, Settled
    <3> QED
      BY <3>1, <3>2, BookFixed DEF Book!bookVars
  <2> QED
    BY <2>1, <2>2, <2>3, <2>4, <2>5 DEF Next
<1> QED
  BY <1>1, <1>2, Invariance, PTL DEF Spec, ImplementsBetBook, Book!Spec
-----------------------------------------------------------------------------
(* The ledger of the users no correction has touched.                      *)

Untouched(b) == \A e \in Events : Touches(b, e) => corrections[e] = 0

(* An open bet no correction has touched has no journal yet, so its        *)
(* settlement posts one.                                                   *)
OpenBetsUnposted ==
    \A b \in InStatus({"NONE", "PLACED"}) :
        Untouched(b) => \A j \in journals : j.bet # b

(* For a user none of whose decided bets has a journal yet, a settlement   *)
(* moves the ledger by as much as the wallet.                              *)
LEMMA SettledLedger ==
  ASSUME TypeOK, NEW e \in Events, NEW out \in [SelectionsOf(e) -> Outcomes],
         NEW rate \in 0 .. Scale, NEW B, B \subseteq Bets,
         NEW avail0 \in [Users -> Int], NEW held0 \in [Users -> Nat],
         NEW avAcc0 \in [Users -> Int], NEW hoAcc0 \in [Users -> Int],
         SettleFrom(e, out, rate, B, avail0, held0, avAcc0, hoAcc0),
         NEW u \in Users,
         held0[u] = Total(OwnedBy(B, u), Stakes),
         avAcc0[u] + hoAcc0[u] = avail0[u] + held0[u],
         \A b \in OwnedBy(B, u) : \A j \in journals : j.bet # b
  PROVE  availableAcc'[u] + holdAcc'[u] = available'[u] + held'[u]
<1> DEFINE D == Decided(B, LegsAfter(e, out))
           jn == [b \in D |-> JournalOf(b, e, out, rate)]
           pay == [b \in D |-> jn[b].credit]
           F == {c \in D : Fresh(c, jn[c].kind)}
           rows == {Row(b, jn[b]) : b \in F}
           credits == [b \in F |-> jn[b].credit]
           holds == [b \in F |-> jn[b].hold]
           O == OwnedBy(D, u)
<1>1. D \subseteq Bets /\ D \subseteq B /\ F \subseteq D
  BY DEF Decided
<1>2. /\ available'[u] = avail0[u] + Total(O, pay)
      /\ held'[u] = Release(held0[u], Total(O, Stakes))
      /\ availableAcc'[u] = avAcc0[u] + Credits(RowsOf(rows, u))
      /\ holdAcc'[u] = hoAcc0[u] - Holds(RowsOf(rows, u))
  BY DEF SettleFrom
<1>3. \A b \in D : Amounts(jn[b]) /\ jn[b].hold = Stakes[b]
  BY <1>1, JournalOfFacts, RequestType
<1>4. OwnedBy(F, u) = O
  BY <1>1 DEF OwnedBy, Fresh
<1>5. O \subseteq D /\ O \subseteq OwnedBy(B, u) /\ O \subseteq F
  BY <1>1, <1>4 DEF OwnedBy
<1>6. IsFiniteSet(OwnedBy(B, u)) /\ IsFiniteSet(O) /\ OwnedBy(B, u) \subseteq Bets
  <2> HIDE DEF D
  <2> QED
    BY <1>1, OwnedFinite
<1>7. /\ Credits(RowsOf(rows, u)) = Total(O, credits)
      /\ Holds(RowsOf(rows, u)) = Total(O, holds)
  <2>1. F \subseteq Bets /\ \A b \in F : Amounts(jn[b])
    BY <1>1, <1>3
  <2> HIDE DEF F, jn, O
  <2>2. /\ Credits(RowsOf(rows, u)) = Total(OwnedBy(F, u), credits)
        /\ Holds(RowsOf(rows, u)) = Total(OwnedBy(F, u), holds)
    BY <2>1, RowsFacts
  <2> QED
    BY <1>4, <2>2
<1>8. \A b \in O : credits[b] = pay[b] /\ holds[b] = Stakes[b] /\ pay[b] \in Nat
  BY <1>3, <1>5 DEF Amounts
<1> HIDE DEF D, jn, pay, F, rows, credits, holds, O
<1>9. Total(O, credits) = Total(O, pay) /\ Total(O, holds) = Total(O, Stakes)
  BY <1>8, TotalSameAmounts
<1>10. \A b \in OwnedBy(B, u) : Stakes[b] \in Nat
  BY <1>6, RequestType
<1>11. /\ Total(O, pay) \in Nat /\ Total(O, Stakes) \in Nat
       /\ Total(OwnedBy(B, u), Stakes) \in Nat
       /\ Total(O, Stakes) <= Total(OwnedBy(B, u), Stakes)
  BY <1>5, <1>6, <1>8, <1>10, CentsFinite, TotalDifference
<1>12. held'[u] = held0[u] - Total(O, Stakes)
  BY <1>2, <1>11 DEF Release
<1> QED
  BY <1>2, <1>7, <1>9, <1>11, <1>12

LedgerInv == LedgerMatchesWallet /\ OpenBetsUnposted

(* Whoever is untouched after a step was so before it. *)
LEMMA StillUntouched ==
  ASSUME request' = request,
         InStatus(BetStatus) \subseteq InStatus(BetStatus)',
         \A c \in Events : corrections'[c] = 0 => corrections[c] = 0
  PROVE  /\ \A b \in Bets : Untouched(b)' => Untouched(b)
         /\ \A u \in Users : Uncorrected(u)' => Uncorrected(u)
<1>1. \A b, c : Touches(b, c)' <=> Touches(b, c)
  BY DEF Touches, Legs
<1>2. ASSUME NEW u \in Users
      PROVE  OwnedBy(InStatus(BetStatus), u) \subseteq OwnedBy(InStatus(BetStatus), u)'
  BY DEF OwnedBy, Owner
<1>3. ASSUME NEW b \in Bets, Untouched(b)' PROVE Untouched(b)
  BY <1>1, <1>3 DEF Untouched
<1>4. ASSUME NEW u \in Users, Uncorrected(u)' PROVE Uncorrected(u)
  BY <1>1, <1>2, <1>4 DEF Uncorrected
<1> QED
  BY <1>3, <1>4

(* A settlement posts journals of the bets it decides only. *)
LEMMA PostedBets ==
  ASSUME NEW e, NEW out, NEW rate, NEW B,
         NEW avail0, NEW held0, NEW avAcc0, NEW hoAcc0,
         SettleFrom(e, out, rate, B, avail0, held0, avAcc0, hoAcc0)
  PROVE  \A j \in journals' \ journals : j.bet \in Decided(B, LegsAfter(e, out))
<1> DEFINE D == Decided(B, LegsAfter(e, out))
           jn == [b \in D |-> JournalOf(b, e, out, rate)]
           F == {c \in D : Fresh(c, jn[c].kind)}
           rows == {Row(b, jn[b]) : b \in F}
<1>1. journals' = journals \cup rows
  BY DEF SettleFrom
<1>2. F \subseteq D
  OBVIOUS
<1> HIDE DEF D, jn, F
<1>3. \A b : Row(b, jn[b]).bet = b
  BY DEF Row
<1> QED
  BY <1>1, <1>2, <1>3 DEF D

(* A settlement keeps the ledger of the untouched users in step. *)
LEMMA SettleEventLedger ==
  ASSUME IInv, LedgerInv, NEW e \in Events,
         NEW out \in [SelectionsOf(e) -> Outcomes], SettleEvent(e, out)
  PROVE  LedgerInv'
<1> DEFINE B == InStatus({"PLACED"})
           D == Decided(B, LegsAfter(e, out))
<1>1. /\ request' = request /\ corrections' = corrections
      /\ SettleFrom(e, out, TaxRate, B, available, held, availableAcc, holdAcc)
  BY DEF SettleEvent
<1>2. /\ B \subseteq InStatus(BetStatus) /\ InStatus({"PLACED"}) \subseteq B
      /\ B \subseteq Bets /\ TypeOK
  BY DEF InStatus, BetStatus, IInv
<1>3. /\ InStatus({"NONE"})' = InStatus({"NONE"})
      /\ InStatus({"PLACED"})' = B \ D
      /\ InStatus(BetStatus)' = InStatus(BetStatus)
      /\ D \subseteq B
  <2> HIDE DEF B
  <2> QED
    BY <1>1, <1>2, SettledStatuses
<1>4. /\ \A b \in Bets : Untouched(b)' => Untouched(b)
      /\ \A u \in Users : Uncorrected(u)' => Uncorrected(u)
  <2> HIDE DEF B, D
  <2>1. \A c \in Events : corrections'[c] = 0 => corrections[c] = 0
    BY <1>1
  <2>2. InStatus(BetStatus) \subseteq InStatus(BetStatus)'
    BY <1>3
  <2>3. request' = request
    BY <1>1
  <2> QED
    BY <2>1, <2>2, <2>3, StillUntouched
<1>5. \A j \in journals' \ journals : j.bet \in D
  BY <1>1, PostedBets
<1>6. OpenBetsUnposted'
  <2> SUFFICES ASSUME NEW b \in Bets, b \in InStatus({"NONE", "PLACED"})',
                      Untouched(b)', NEW j \in journals'
               PROVE  j.bet # b
    BY DEF OpenBetsUnposted, InStatus
  <2>1. b \in InStatus({"NONE"})' \/ b \in InStatus({"PLACED"})'
    BY DEF InStatus
  <2>2. b \notin D /\ b \in InStatus({"NONE", "PLACED"})
    BY <1>3, <2>1 DEF InStatus, BetStatus, Verdicts
  <2>3. Untouched(b)
    BY <1>4
  <2> HIDE DEF D
  <2> QED
    BY <1>5, <2>2, <2>3 DEF LedgerInv, OpenBetsUnposted
<1>7. LedgerMatchesWallet'
  <2> SUFFICES ASSUME NEW u \in Users, Uncorrected(u)'
               PROVE  availableAcc'[u] + holdAcc'[u] = available'[u] + held'[u]
    BY DEF LedgerMatchesWallet
  <2>1. Uncorrected(u)
    BY <1>4
  <2>2. \A b \in OwnedBy(B, u) : \A j \in journals : j.bet # b
    BY <2>1 DEF LedgerInv, OpenBetsUnposted, Uncorrected, Untouched, OwnedBy,
                InStatus, BetStatus
  <2>3. /\ availableAcc[u] + holdAcc[u] = available[u] + held[u]
        /\ held[u] = Total(OwnedBy(B, u), Stakes)
        /\ available \in [Users -> Int] /\ held \in [Users -> Nat]
        /\ availableAcc \in [Users -> Int] /\ holdAcc \in [Users -> Int]
    BY <2>1 DEF LedgerInv, LedgerMatchesWallet, IInv, HeldBacksOpenBets, TypeOK
  <2>4. TaxRate \in 0 .. Scale
    BY MoneyAssumption
  <2> HIDE DEF B, D
  <2> QED
    BY <1>1, <1>2, <2>2, <2>3, <2>4, SettledLedger
<1> QED
  BY <1>6, <1>7 DEF LedgerInv

(* So does a correction: it reopens no bet of an untouched user. *)
LEMMA ResettleEventLedger ==
  ASSUME IInv, LedgerInv, NEW e \in Events,
         NEW out \in [SelectionsOf(e) -> Outcomes], ResettleEvent(e, out)
  PROVE  LedgerInv'
<1> DEFINE R == {b \in Settled : Touches(b, e)}
           B == InStatus({"PLACED"}) \cup R
           D == Decided(B, LegsAfter(e, out))
           avail0 == AfterTakingBack(R)
           held0 == ReopenedHeld(R)
           avAcc0 == ReversedAvailable(R)
           hoAcc0 == ReversedHold(R)
<1>1. /\ request' = request
      /\ corrections' = [corrections EXCEPT ![e] = @ + 1]
      /\ SettleFrom(e, out, DefaultTaxRate, B, avail0, held0, avAcc0, hoAcc0)
  BY DEF ResettleEvent, ReopenedHeld, ReversedAvailable, ReversedHold
<1>2. /\ B \subseteq InStatus(BetStatus) /\ InStatus({"PLACED"}) \subseteq B
      /\ B \subseteq Bets /\ R \subseteq Settled /\ R \subseteq InStatus(BetStatus)
      /\ B \ R \subseteq InStatus({"PLACED"}) /\ R \subseteq Bets
      /\ DefaultTaxRate \in 0 .. Scale /\ TypeOK
  BY DEF InStatus, Settled, BetStatus, IInv, DefaultTaxRate, Scale
<1>3. \A b \in R : Touches(b, e)
  OBVIOUS
<1>4. \A u \in Users : OwnedBy(B, u) = OwnedBy(InStatus({"PLACED"}), u) \cup OwnedBy(R, u)
  BY DEF OwnedBy
<1> HIDE DEF R, B
<1>5. /\ InStatus({"NONE"})' = InStatus({"NONE"})
      /\ InStatus({"PLACED"})' = B \ D
      /\ InStatus(BetStatus)' = InStatus(BetStatus)
      /\ D \subseteq B
  BY <1>1, <1>2, SettledStatuses
<1>6. \A j \in journals' \ journals : j.bet \in D
  BY <1>1, PostedBets
<1> HIDE DEF D
<1>7. /\ corrections' \in [Events -> Nat] /\ corrections'[e] # 0
      /\ \A c \in Events : corrections'[c] = 0 => corrections[c] = 0
  BY <1>1, MoneyAssumption DEF IInv, TypeOK
<1>8. /\ \A b \in Bets : Untouched(b)' => Untouched(b)
      /\ \A u \in Users : Uncorrected(u)' => Uncorrected(u)
  <2>1. InStatus(BetStatus) \subseteq InStatus(BetStatus)'
    BY <1>5
  <2> QED
    BY <1>1, <1>7, <2>1, StillUntouched
<1>9. \A b : Touches(b, e)' <=> Touches(b, e)
  BY <1>1 DEF Touches, Legs
<1>10. OpenBetsUnposted'
  <2> SUFFICES ASSUME NEW b \in Bets, b \in InStatus({"NONE", "PLACED"})',
                      Untouched(b)', NEW j \in journals'
               PROVE  j.bet # b
    BY DEF OpenBetsUnposted, InStatus
  <2>1. ~Touches(b, e)'
    BY <1>7 DEF Untouched
  <2>2. b \notin R
    BY <1>3, <1>9, <2>1
  <2>3. b \in InStatus({"NONE"})' \/ b \in InStatus({"PLACED"})'
    BY DEF InStatus
  <2>4. b \in InStatus({"NONE"}) \/ (b \in InStatus({"PLACED"}) /\ b \notin D)
    BY <1>2, <1>5, <2>2, <2>3
  <2>5. b \notin D /\ b \in InStatus({"NONE", "PLACED"})
    BY <1>2, <1>5, <2>4 DEF InStatus, BetStatus, Verdicts
  <2> QED
    BY <1>6, <1>8, <2>5 DEF LedgerInv, OpenBetsUnposted
<1>11. LedgerMatchesWallet'
  <2> SUFFICES ASSUME NEW u \in Users, Uncorrected(u)'
               PROVE  availableAcc'[u] + holdAcc'[u] = available'[u] + held'[u]
    BY DEF LedgerMatchesWallet
  <2>1. Uncorrected(u)
    BY <1>8
  <2>2. OwnedBy(R, u) = {}
    <3>1. ASSUME NEW b \in R, Owner(b) = u PROVE FALSE
      <4>1. Owner(b)' = u
        BY <1>1, <3>1 DEF Owner
      <4>2. b \in OwnedBy(InStatus(BetStatus), u)'
        BY <1>2, <1>5, <4>1 DEF OwnedBy
      <4>3. Touches(b, e)'
        BY <1>3, <1>9, <3>1
      <4> QED
        BY <1>7, <4>2, <4>3 DEF Uncorrected
    <3> QED
      BY <3>1 DEF OwnedBy
  <2>3. RowsOf(ReversedFor(R), u) = {}
    BY <2>2 DEF RowsOf, ReversedFor, OwnedBy
  <2>4. OwnedBy(B, u) = OwnedBy(InStatus({"PLACED"}), u)
    BY <1>4, <2>2
  <2>5. Credits({}) = 0 /\ Holds({}) = 0 /\ Total({}, payout) = 0 /\ Total({}, Stakes) = 0
    BY TotalEmpty DEF Credits, Holds
  <2>6. /\ available[u] \in Int /\ held[u] \in Nat
        /\ availableAcc[u] \in Int /\ holdAcc[u] \in Int
    BY DEF IInv, TypeOK
  <2>7. /\ avail0[u] = available[u] /\ held0[u] = held[u]
        /\ avAcc0[u] = availableAcc[u] /\ hoAcc0[u] = holdAcc[u]
    BY <2>2, <2>3, <2>5, <2>6
       DEF AfterTakingBack, ReopenedHeld, ReversedAvailable, ReversedHold
  <2>8. /\ avail0 \in [Users -> Int] /\ held0 \in [Users -> Nat]
        /\ avAcc0 \in [Users -> Int] /\ hoAcc0 \in [Users -> Int]
    BY <1>2, ReopenedAccounts
  <2>9. \A b \in OwnedBy(B, u) : \A j \in journals : j.bet # b
    BY <2>1, <2>4 DEF LedgerInv, OpenBetsUnposted, Uncorrected, Untouched, OwnedBy,
                      InStatus, BetStatus
  <2>10. /\ avAcc0[u] + hoAcc0[u] = avail0[u] + held0[u]
         /\ held0[u] = Total(OwnedBy(B, u), Stakes)
    BY <2>1, <2>4, <2>7 DEF LedgerInv, LedgerMatchesWallet, IInv, HeldBacksOpenBets
  <2> HIDE DEF avail0, held0, avAcc0, hoAcc0
  <2> QED
    BY <1>1, <1>2, <2>8, <2>9, <2>10, SettledLedger
<1> QED
  BY <1>10, <1>11 DEF LedgerInv

(* A placement moves the stake within the wallet and posts nothing. *)
LEMMA PlaceBetLedger ==
  ASSUME IInv, LedgerInv, NEW b \in Bets, PlaceBet(b)
  PROVE  LedgerInv'
<1> DEFINE o == Owner(b)
           stake == request[b].stake
<1>1. o \in Users /\ stake \in Nat /\ request[b].user = o
  BY RequestType DEF IInv, Owner
<1>2. /\ status[b] = "NONE"
      /\ status' = [status EXCEPT ![b] = "PLACED"]
      /\ status \in [Bets -> {"NONE"} \cup BetStatus]
      /\ available' = [available EXCEPT ![o] = @ - stake]
      /\ held' = [held EXCEPT ![o] = @ + stake]
      /\ request' = request /\ corrections' = corrections /\ journals' = journals
      /\ availableAcc' = availableAcc /\ holdAcc' = holdAcc
  BY DEF IInv, TypeOK, PlaceBet, Owner, ledgerVars
<1> HIDE DEF o, stake
<1>3. /\ InStatus({"NONE", "PLACED"})' = InStatus({"NONE", "PLACED"})
      /\ InStatus(BetStatus) \subseteq InStatus(BetStatus)'
  BY <1>2 DEF InStatus, BetStatus, Verdicts
<1>4. /\ \A c \in Bets : Untouched(c)' => Untouched(c)
      /\ \A u \in Users : Uncorrected(u)' => Uncorrected(u)
  <2>1. \A c \in Events : corrections'[c] = 0 => corrections[c] = 0
    BY <1>2
  <2> QED
    BY <1>2, <1>3, <2>1, StillUntouched
<1>5. OpenBetsUnposted'
  <2> SUFFICES ASSUME NEW c \in Bets, c \in InStatus({"NONE", "PLACED"})',
                      Untouched(c)', NEW j \in journals'
               PROVE  j.bet # c
    BY DEF OpenBetsUnposted, InStatus
  <2> QED
    BY <1>2, <1>3, <1>4 DEF LedgerInv, OpenBetsUnposted
<1>6. LedgerMatchesWallet'
  <2> SUFFICES ASSUME NEW u \in Users, Uncorrected(u)'
               PROVE  availableAcc'[u] + holdAcc'[u] = available'[u] + held'[u]
    BY DEF LedgerMatchesWallet
  <2>1. availableAcc[u] + holdAcc[u] = available[u] + held[u]
    BY <1>4 DEF LedgerInv, LedgerMatchesWallet
  <2>2. /\ available \in [Users -> Int] /\ held \in [Users -> Nat]
        /\ availableAcc \in [Users -> Int] /\ holdAcc \in [Users -> Int]
    BY DEF IInv, TypeOK
  <2> QED
    BY <1>1, <1>2, <2>1, <2>2
<1> QED
  BY <1>5, <1>6 DEF LedgerInv

(* A cash-out of an untouched bet posts its journal, and the stake it      *)
(* releases is in the hold.                                                *)
LEMMA CashoutLedger ==
  ASSUME IInv, LedgerInv, NEW b \in Bets, Cashout(b)
  PROVE  LedgerInv'
<1> DEFINE o == Owner(b)
           stake == request[b].stake
           j == CashoutJournal(stake, request[b].odds)
           rows == IF Fresh(b, "cashout") THEN {Row(b, j)} ELSE {}
           P == OwnedBy(InStatus({"PLACED"}), o)
<1>1. /\ o \in Users /\ stake \in Nat /\ request[b].odds \in Nat
      /\ request[b].user = o /\ Stakes[b] = stake
  BY RequestType DEF IInv, Owner
<1>2. Amounts(j) /\ j.hold = stake
  BY <1>1, CashoutJournalFacts
<1>3. /\ status[b] = "PLACED" /\ status \in [Bets -> {"NONE"} \cup BetStatus]
      /\ status' = [status EXCEPT ![b] = "CASHED_OUT"]
      /\ available' = [available EXCEPT ![o] = @ + j.credit]
      /\ held' = [held EXCEPT ![o] = Release(@, stake)]
      /\ journals' = journals \cup rows
      /\ availableAcc' = [availableAcc EXCEPT ![o] = @ + Credits(rows)]
      /\ holdAcc' = [holdAcc EXCEPT ![o] = @ - Holds(rows)]
      /\ request' = request /\ corrections' = corrections
  BY DEF IInv, TypeOK, Cashout, Owner
<1>4. \A i \in journals' \ journals : i.bet = b
  <2>1. Row(b, j).bet = b
    BY DEF Row
  <2> HIDE DEF j
  <2> QED
    BY <1>3, <2>1
<1>5. /\ InStatus({"NONE", "PLACED"})' = InStatus({"NONE", "PLACED"}) \ {b}
      /\ InStatus(BetStatus) \subseteq InStatus(BetStatus)'
      /\ b \in P /\ b \in InStatus({"NONE", "PLACED"})
  BY <1>3 DEF InStatus, BetStatus, Verdicts, OwnedBy
<1>6. /\ \A c \in Bets : Untouched(c)' => Untouched(c)
      /\ \A u \in Users : Uncorrected(u)' => Uncorrected(u)
  <2>1. \A c \in Events : corrections'[c] = 0 => corrections[c] = 0
    BY <1>3
  <2> QED
    BY <1>3, <1>5, <2>1, StillUntouched
<1>7. OpenBetsUnposted'
  <2> SUFFICES ASSUME NEW c \in Bets, c \in InStatus({"NONE", "PLACED"})',
                      Untouched(c)', NEW i \in journals'
               PROVE  i.bet # c
    BY DEF OpenBetsUnposted, InStatus
  <2> QED
    BY <1>4, <1>5, <1>6 DEF LedgerInv, OpenBetsUnposted
<1>8. held[o] >= stake
  <2>1. held[o] = Total(P, Stakes)
    BY <1>1 DEF IInv, HeldBacksOpenBets
  <2>2. IsFiniteSet(P) /\ P \subseteq Bets
    <3>1. InStatus({"PLACED"}) \subseteq Bets
      BY DEF InStatus
    <3> QED
      BY <3>1, OwnedFinite
  <2>3. \A c \in P : Stakes[c] \in Nat
    BY <2>2, RequestType DEF IInv
  <2> HIDE DEF P
  <2>4. {b} \subseteq P
    BY <1>5
  <2>5. Total({b}, Stakes) <= Total(P, Stakes)
    BY <2>2, <2>3, <2>4, TotalDifference
  <2>6. Total({b}, Stakes) = stake
    BY <1>1, TotalSingleton
  <2>7. Total(P, Stakes) \in Nat
    BY <2>2, <2>3, CentsFinite
  <2> QED
    BY <1>1, <2>1, <2>5, <2>6, <2>7
<1>9. ASSUME NEW u \in Users, u = o, Uncorrected(u)'
      PROVE  Credits(rows) = j.credit /\ Holds(rows) = stake
  <2>1. Untouched(b)
    BY <1>1, <1>5, <1>6, <1>9 DEF Uncorrected, Untouched, OwnedBy, InStatus, BetStatus
  <2>2. Fresh(b, "cashout")
    BY <1>5, <2>1 DEF LedgerInv, OpenBetsUnposted, Fresh
  <2> DEFINE r == Row(b, j)
             cr == [i \in {r} |-> i.credit]
             ho == [i \in {r} |-> i.hold]
  <2>3. rows = {r}
    BY <2>2
  <2>4. cr[r] = j.credit /\ ho[r] = stake
    BY <1>2 DEF Row
  <2>5. j.credit \in Nat
    BY <1>2 DEF Amounts
  <2>6. Credits({r}) = Total({r}, cr) /\ Holds({r}) = Total({r}, ho)
    BY DEF Credits, Holds
  <2> HIDE DEF r, cr, ho, rows, j, stake
  <2>7. Total({r}, cr) = j.credit /\ Total({r}, ho) = stake
    BY <1>1, <2>4, <2>5, TotalSingleton
  <2> QED
    BY <2>3, <2>6, <2>7
<1>10. LedgerMatchesWallet'
  <2> SUFFICES ASSUME NEW u \in Users, Uncorrected(u)'
               PROVE  availableAcc'[u] + holdAcc'[u] = available'[u] + held'[u]
    BY DEF LedgerMatchesWallet
  <2>1. availableAcc[u] + holdAcc[u] = available[u] + held[u]
    BY <1>6 DEF LedgerInv, LedgerMatchesWallet
  <2>2. /\ available \in [Users -> Int] /\ held \in [Users -> Nat]
        /\ availableAcc \in [Users -> Int] /\ holdAcc \in [Users -> Int]
    BY DEF IInv, TypeOK
  <2>3. j.credit \in Nat
    BY <1>2 DEF Amounts
  <2> HIDE DEF o, stake, j, rows
  <2>4. CASE u = o
    <3>1. Credits(rows) = j.credit /\ Holds(rows) = stake
      BY <1>9, <2>4
    <3>2. Release(held[o], stake) = held[o] - stake
      BY <1>1, <1>8 DEF Release
    <3>3. /\ available'[o] = available[o] + j.credit
          /\ held'[o] = held[o] - stake
          /\ availableAcc'[o] = availableAcc[o] + j.credit
          /\ holdAcc'[o] = holdAcc[o] - stake
      BY <1>1, <1>3, <2>2, <3>1, <3>2
    <3> QED
      BY <1>1, <2>1, <2>2, <2>3, <2>4, <3>3
  <2>5. CASE u # o
    BY <1>3, <2>1, <2>2, <2>5
  <2> QED
    BY <2>4, <2>5
<1> QED
  BY <1>7, <1>10 DEF LedgerInv

(* The ledger owes each user what the wallet shows, as long as no event of *)
(* the user's bets has been corrected: every settlement and cash-out posts *)
(* exactly one journal, because an open bet of such a user has none yet.   *)
THEOREM LedgerFollows == Spec => []LedgerMatchesWallet
<1>1. Init => LedgerInv
  <2> SUFFICES ASSUME Init PROVE LedgerInv
    OBVIOUS
  <2>1. LedgerMatchesWallet
    BY MoneyAssumption DEF Init, LedgerMatchesWallet
  <2>2. OpenBetsUnposted
    BY DEF Init, OpenBetsUnposted
  <2> QED
    BY <2>1, <2>2 DEF LedgerInv
<1>2. IInv /\ LedgerInv /\ [Next]_vars => LedgerInv'
  <2> SUFFICES ASSUME IInv, LedgerInv, [Next]_vars PROVE LedgerInv'
    OBVIOUS
  <2>1. CASE \E b \in Bets : PlaceBet(b)
    BY <2>1, PlaceBetLedger
  <2>2. CASE \E b \in Bets : Cashout(b)
    BY <2>2, CashoutLedger
  <2>3. CASE \E e \in Events : \E out \in [SelectionsOf(e) -> Outcomes] : SettleEvent(e, out)
    BY <2>3, SettleEventLedger
  <2>4. CASE \E e \in Events : \E out \in [SelectionsOf(e) -> Outcomes] : ResettleEvent(e, out)
    BY <2>4, ResettleEventLedger
  <2>5. CASE UNCHANGED vars
    BY <2>5 DEF vars, betVars, walletVars, ledgerVars, LedgerInv, LedgerMatchesWallet,
                OpenBetsUnposted, Uncorrected, Untouched, Touches, Legs, OwnedBy,
                Owner, InStatus
  <2> QED
    BY <2>1, <2>2, <2>3, <2>4, <2>5 DEF Next
<1>3. LedgerInv => LedgerMatchesWallet
  BY DEF LedgerInv
<1> QED
  BY <1>1, <1>2, <1>3, Invariance, PTL DEF Spec
-----------------------------------------------------------------------------
(* The legs of the bets and the official results.                          *)

(* The legs of a bet follow the official results of their selections from  *)
(* its placement on; before it they are pending.  A leg that names another *)
(* event than its selection's is pending until that one is settled, and    *)
(* lost from then on.                                                      *)
LegFollows(b, l, newLeg, res) ==
    IF InItsEvent(l)
    THEN newLeg[b][l] = IF res[SelectionOf(l)] = "NONE" THEN "PENDING"
                        ELSE StatusOf(res[SelectionOf(l)])
    ELSE newLeg[b][l] \in {"PENDING", "LOST"}

LegsFollowResults ==
    \A b \in Bets, l \in LegIds :
        /\ status[b] = "NONE" => leg[b][l] = "PENDING"
        /\ status[b] # "NONE" /\ l \in Legs(b) => LegFollows(b, l, leg, result)

(* No bet is left open once its legs are all decided. *)
OpenBetsPending == \A b \in InStatus({"PLACED"}) : \E l \in Legs(b) : leg[b][l] = "PENDING"

(* The parts of a leg have their types. *)
LEMMA LegParts ==
  ASSUME NEW l \in LegIds
  PROVE  SelectionOf(l) \in Selections /\ EventNamed(l) \in Events
BY DEF LegIds, SelectionOf, EventNamed

(* A settlement writes the official results and the legs together. *)
LEMMA SettledLegs ==
  ASSUME TypeOK, LegsFollowResults, request' = request,
         NEW e \in Events, NEW out \in [SelectionsOf(e) -> Outcomes], NEW rate,
         NEW B, B \subseteq InStatus(BetStatus), InStatus({"PLACED"}) \subseteq B,
         NEW avail0, NEW held0, NEW avAcc0, NEW hoAcc0,
         SettleFrom(e, out, rate, B, avail0, held0, avAcc0, hoAcc0)
  PROVE  LegsFollowResults'
<1>1. /\ leg' = LegsAfter(e, out)
      /\ result' = [s \in Selections |-> IF EventOf[s] = e THEN out[s] ELSE result[s]]
  BY DEF SettleFrom
<1>2. \A b \in Bets : status'[b] = "NONE" <=> status[b] = "NONE"
  <2>1. B \subseteq Bets /\ InStatus({"NONE"})' = InStatus({"NONE"})
    <3>1. B \subseteq Bets
      BY DEF InStatus
    <3> QED
      BY <3>1, SettledStatuses
  <2> QED
    BY <2>1 DEF InStatus
<1>3. SUFFICES ASSUME NEW b \in Bets, NEW l \in LegIds
      PROVE  /\ status'[b] = "NONE" => leg'[b][l] = "PENDING"
             /\ status'[b] # "NONE" /\ l \in Legs(b)' => LegFollows(b, l, leg', result')
  BY DEF LegsFollowResults, LegFollows
<1>4. Legs(b)' = Legs(b)
  BY DEF Legs
<1> DEFINE s == SelectionOf(l)
<1>5. leg'[b][l] = IF /\ status[b] # "NONE" /\ l \in Legs(b)
                      /\ EventNamed(l) = e /\ SelectionsOf(e) # {}
                   THEN IF EventOf[s] = e THEN StatusOf(out[s]) ELSE "LOST"
                   ELSE leg[b][l]
  BY <1>1 DEF LegsAfter
<1>6. s \in Selections
  BY LegParts
<1>7. EventOf[s] = e => /\ out[s] \in Outcomes /\ out[s] # "NONE"
                        /\ SelectionsOf(e) # {}
  BY <1>6, FixtureAssumption DEF SelectionsOf, AllOutcomes, LegStatus
<1>8. result'[s] = IF EventOf[s] = e THEN out[s] ELSE result[s]
  BY <1>1, <1>6
<1>9. status'[b] = "NONE" => leg'[b][l] = "PENDING"
  BY <1>2, <1>5 DEF LegsFollowResults
<1>10. ASSUME status'[b] # "NONE", l \in Legs(b)'
       PROVE  LegFollows(b, l, leg', result')
  <2>1. status[b] # "NONE" /\ l \in Legs(b) /\ LegFollows(b, l, leg, result)
    BY <1>2, <1>4, <1>10 DEF LegsFollowResults
  <2>2. CASE InItsEvent(l)
    <3>1. EventOf[s] = EventNamed(l)
      BY <2>2 DEF InItsEvent
    <3>2. leg[b][l] = IF result[s] = "NONE" THEN "PENDING" ELSE StatusOf(result[s])
      BY <2>1, <2>2 DEF LegFollows
    <3> HIDE DEF s
    <3>3. leg'[b][l] = IF result'[s] = "NONE" THEN "PENDING" ELSE StatusOf(result'[s])
      BY <1>5, <1>7, <1>8, <2>1, <3>1, <3>2
    <3> QED
      BY <2>2, <3>3 DEF LegFollows, s
  <2>3. CASE ~InItsEvent(l)
    <3>1. EventOf[s] # EventNamed(l) /\ leg[b][l] \in {"PENDING", "LOST"}
      BY <2>1, <2>3 DEF InItsEvent, LegFollows
    <3>2. leg'[b][l] \in {"PENDING", "LOST"}
      BY <1>5, <3>1
    <3> QED
      BY <2>3, <3>2 DEF LegFollows
  <2> QED
    BY <2>2, <2>3
<1> QED
  BY <1>9, <1>10

(* The bets a settlement leaves open are those with a leg to be decided. *)
LEMMA SettledPending ==
  ASSUME TypeOK, request' = request,
         NEW e, NEW out, NEW rate,
         NEW B, B \subseteq InStatus(BetStatus), InStatus({"PLACED"}) \subseteq B,
         NEW avail0, NEW held0, NEW avAcc0, NEW hoAcc0,
         SettleFrom(e, out, rate, B, avail0, held0, avAcc0, hoAcc0)
  PROVE  OpenBetsPending'
<1> DEFINE D == Decided(B, LegsAfter(e, out))
<1>1. InStatus({"PLACED"})' = B \ D
  BY SettledStatuses
<1>2. leg' = LegsAfter(e, out)
  BY DEF SettleFrom
<1>3. ASSUME NEW b \in B \ D
      PROVE  \E l \in Legs(b)' : leg'[b][l] = "PENDING"
  <2>1. \E l \in Legs(b) : LegsAfter(e, out)[b][l] = "PENDING"
    BY <1>3 DEF Decided
  <2>2. Legs(b)' = Legs(b)
    BY DEF Legs
  <2> QED
    BY <1>2, <2>1, <2>2
<1> HIDE DEF D
<1> QED
  BY <1>1, <1>3 DEF OpenBetsPending

(* The legs follow the results, and those of an open bet are not all       *)
(* decided.                                                                *)
LEMMA StepLegs ==
  ASSUME IInv, LegsFollowResults, OpenBetsPending, [Next]_vars
  PROVE  LegsFollowResults' /\ OpenBetsPending'
<1>1. CASE \E b \in Bets : PlaceBet(b)
  <2> PICK b \in Bets : PlaceBet(b)
    BY <1>1
  <2>1. /\ status[b] = "NONE" /\ status' = [status EXCEPT ![b] = "PLACED"]
        /\ Legs(b) # {} /\ \A l \in Legs(b) : result[SelectionOf(l)] = "NONE"
        /\ request' = request /\ leg' = leg /\ result' = result
        /\ status \in [Bets -> {"NONE"} \cup BetStatus]
        /\ Legs(b) \subseteq LegIds
    BY RequestType DEF PlaceBet, ValidSlip, Legs, IInv, TypeOK
  <2>2. LegsFollowResults'
    <3>1. \A c \in Bets : c # b => (status'[c] = "NONE" <=> status[c] = "NONE")
      BY <2>1
    <3>2. \A c \in Bets : Legs(c)' = Legs(c)
      BY <2>1 DEF Legs
    <3>3. \A l \in Legs(b) : leg[b][l] = "PENDING" /\ result[SelectionOf(l)] = "NONE"
      BY <2>1 DEF LegsFollowResults
    <3>4. \A l \in Legs(b) : LegFollows(b, l, leg, result)
      BY <3>3 DEF LegFollows
    <3>5. status'[b] # "NONE"
      BY <2>1
    <3> SUFFICES ASSUME NEW c \in Bets, NEW l \in LegIds
                 PROVE  /\ status'[c] = "NONE" => leg[c][l] = "PENDING"
                        /\ status'[c] # "NONE" /\ l \in Legs(c) => LegFollows(c, l, leg, result)
      BY <2>1, <3>2 DEF LegsFollowResults, LegFollows
    <3> QED
      BY <3>1, <3>4, <3>5 DEF LegsFollowResults
  <2>3. \E l \in Legs(b) : leg[b][l] = "PENDING"
    BY <2>1 DEF LegsFollowResults
  <2>4. InStatus({"PLACED"})' \subseteq InStatus({"PLACED"}) \cup {b}
    BY <2>1 DEF InStatus
  <2>5. \A c \in Bets : Legs(c)' = Legs(c)
    BY <2>1 DEF Legs
  <2>6. \A c \in InStatus({"PLACED"})' : c \in Bets /\ \E l \in Legs(c) : leg[c][l] = "PENDING"
    BY <2>3, <2>4 DEF OpenBetsPending, InStatus
  <2>7. OpenBetsPending'
    BY <2>1, <2>5, <2>6 DEF OpenBetsPending
  <2> QED
    BY <2>2, <2>7
<1>2. CASE \E b \in Bets : Cashout(b)
  <2> PICK b \in Bets : Cashout(b)
    BY <1>2
  <2>1. /\ status[b] = "PLACED" /\ status' = [status EXCEPT ![b] = "CASHED_OUT"]
        /\ request' = request /\ leg' = leg /\ result' = result
        /\ status \in [Bets -> {"NONE"} \cup BetStatus]
    BY DEF Cashout, IInv, TypeOK
  <2>2. LegsFollowResults'
    BY <2>1 DEF LegsFollowResults, LegFollows, Legs
  <2>3. OpenBetsPending'
    BY <2>1 DEF OpenBetsPending, InStatus, Legs
  <2> QED
    BY <2>2, <2>3
<1>3. CASE \E e \in Events : \E out \in [SelectionsOf(e) -> Outcomes] : SettleEvent(e, out)
  <2> PICK e \in Events : \E out \in [SelectionsOf(e) -> Outcomes] : SettleEvent(e, out)
    BY <1>3
  <2> PICK out \in [SelectionsOf(e) -> Outcomes] : SettleEvent(e, out)
    OBVIOUS
  <2>1. /\ request' = request
        /\ SettleFrom(e, out, TaxRate, InStatus({"PLACED"}), available, held,
                      availableAcc, holdAcc)
    BY DEF SettleEvent
  <2>2. InStatus({"PLACED"}) \subseteq InStatus(BetStatus) /\ TypeOK
    BY DEF InStatus, BetStatus, IInv
  <2> QED
    BY <2>1, <2>2, SettledLegs, SettledPending
<1>4. CASE \E e \in Events : \E out \in [SelectionsOf(e) -> Outcomes] : ResettleEvent(e, out)
  <2> PICK e \in Events : \E out \in [SelectionsOf(e) -> Outcomes] : ResettleEvent(e, out)
    BY <1>4
  <2> PICK out \in [SelectionsOf(e) -> Outcomes] : ResettleEvent(e, out)
    OBVIOUS
  <2> DEFINE R == {b \in Settled : Touches(b, e)}
             B == InStatus({"PLACED"}) \cup R
  <2>1. /\ request' = request
        /\ SettleFrom(e, out, DefaultTaxRate, B, AfterTakingBack(R), ReopenedHeld(R),
                      ReversedAvailable(R), ReversedHold(R))
    BY DEF ResettleEvent, ReopenedHeld, ReversedAvailable, ReversedHold
  <2>2. /\ B \subseteq InStatus(BetStatus) /\ InStatus({"PLACED"}) \subseteq B
        /\ TypeOK
    BY DEF InStatus, BetStatus, IInv, Settled
  <2> HIDE DEF B, R
  <2> QED
    BY <2>1, <2>2, SettledLegs, SettledPending
<1>5. CASE UNCHANGED vars
  BY <1>5 DEF vars, betVars, LegsFollowResults, LegFollows, OpenBetsPending, InStatus, Legs
<1> QED
  BY <1>1, <1>2, <1>3, <1>4, <1>5 DEF Next

(* No bet is left open once all its legs are decided: a settlement of      *)
(* an event visits every open bet, so an accumulator whose events are      *)
(* settled in any order, with corrections in between that reopen it, is    *)
(* decided with the last of them.                                          *)
THEOREM NoneLeftOpen == Spec => []OpenBetsPending
<1> DEFINE LegsInv == LegsFollowResults /\ OpenBetsPending
<1>1. Init => LegsInv
  BY DEF Init, LegsFollowResults, OpenBetsPending, InStatus
<1>2. IInv /\ LegsInv /\ [Next]_vars => LegsInv'
  BY StepLegs
<1>3. LegsInv => OpenBetsPending
  OBVIOUS
<1> HIDE DEF LegsInv
<1> QED
  BY <1>1, <1>2, <1>3, Invariance, PTL DEF Spec

(* What a settlement pays to a bet it decides. *)
LEMMA SettledPayout ==
  ASSUME TypeOK, OpenBetsPending, LegsFollowResults', request' = request,
         result' \in [Selections -> {"NONE"} \cup Outcomes],
         NEW e \in Events, NEW out \in [SelectionsOf(e) -> Outcomes], NEW rate,
         NEW B, B \subseteq InStatus(BetStatus), InStatus({"PLACED"}) \subseteq B,
         NEW avail0, NEW held0, NEW avAcc0, NEW hoAcc0,
         SettleFrom(e, out, rate, B, avail0, held0, avAcc0, hoAcc0),
         NEW b \in B, status'[b] \in Verdicts,
         b \in InStatus({"PLACED"}) \/ Touches(b, e),
         OnOneEvent(b) \/ ~TiedIn(b, result')
  PROVE  payout'[b] = OfficialPayout(b, result', rate)
<1> DEFINE D == Decided(B, LegsAfter(e, out))
           newLeg == LegsAfter(e, out)
<1>1. /\ leg' = newLeg
      /\ status'[b] = IF b \in D THEN VerdictOf(b, newLeg)
                      ELSE IF b \in B THEN "PLACED" ELSE status[b]
      /\ payout'[b] = IF b \in D THEN [c \in D |-> [a \in D |-> JournalOf(a, e, out, rate)][c].credit][b]
                      ELSE IF b \in B THEN 0 ELSE payout[b]
      /\ b \in Bets
  BY DEF SettleFrom, InStatus
<1>2. b \in D
  BY <1>1 DEF Verdicts
<1>3. payout'[b] = JournalOf(b, e, out, rate).credit
  BY <1>1, <1>2
<1>4. \A l \in Legs(b) : /\ newLeg[b][l] # "PENDING" /\ l \in LegIds
                          /\ SelectionOf(l) \in Selections
  <2>1. \A l \in Legs(b) : newLeg[b][l] # "PENDING" /\ l \in LegIds
    BY <1>1, <1>2, RequestType DEF Decided
  <2> HIDE DEF newLeg
  <2> QED
    BY <2>1, LegParts
<1>5. \A l \in Legs(b) : newLeg[b][l] = OfficialStatus(l, result')
  <2>1. Legs(b)' = Legs(b)
    BY DEF Legs
  <2>2. status'[b] # "NONE"
    BY DEF Verdicts
  <2> HIDE DEF newLeg, D
  <2>3. ASSUME NEW l \in Legs(b) PROVE newLeg[b][l] = OfficialStatus(l, result')
    <3>1. LegFollows(b, l, newLeg, result')
      BY <1>1, <1>4, <2>1, <2>2 DEF LegsFollowResults, LegFollows
    <3> QED
      BY <1>4, <3>1 DEF LegFollows, OfficialStatus
  <2> QED
    BY <2>3
<1>6. {newLeg[b][l] : l \in Legs(b)} = {OfficialStatus(l, result') : l \in Legs(b)}
  BY <1>5
<1>7. \A l \in Legs(b) : EventOf[SelectionOf(l)] = e =>
                            result'[SelectionOf(l)] = out[SelectionOf(l)]
  BY <1>4 DEF SettleFrom
<1>8. \E l \in Legs(b) : EventNamed(l) = e
  <2>1. CASE b \in InStatus({"PLACED"})
    <3>1. PICK l \in Legs(b) : leg[b][l] = "PENDING"
      BY <2>1 DEF OpenBetsPending
    <3>2. l \in LegIds /\ newLeg[b][l] # "PENDING"
      BY <1>4
    <3>3. EventNamed(l) # e => newLeg[b][l] = leg[b][l]
      BY <1>1, <3>2 DEF LegsAfter
    <3> QED
      BY <3>1, <3>2, <3>3
  <2>2. CASE Touches(b, e)
    BY <2>2 DEF Touches
  <2> QED
    BY <2>1, <2>2
<1> DEFINE official == Verdict({OfficialStatus(l, result') : l \in Legs(b)})
           factor == IF TiedIn(b, result') THEN DeadHeat ELSE Scale
<1>9. JournalOf(b, e, out, rate) =
        SettlementJournal(official, request[b].stake, request[b].odds,
                          FactorOf(b, e, out), rate)
  <2> HIDE DEF newLeg
  <2>1. VerdictOf(b, newLeg) = official
    BY <1>6 DEF VerdictOf
  <2> HIDE DEF official
  <2> QED
    BY <2>1 DEF JournalOf, newLeg
<1>10. OfficialPayout(b, result', rate) =
         SettlementJournal(official, request[b].stake, request[b].odds, factor, rate).credit
  BY DEF OfficialPayout
<1>11. CASE \A l \in Legs(b) : InItsEvent(l)
  <2>1. FactorOf(b, e, out) = factor
    <3>1. CASE OnOneEvent(b)
      <4>1. \A l \in Legs(b) : EventOf[SelectionOf(l)] = e
        BY <1>8, <1>11, <3>1 DEF OnOneEvent, InItsEvent
      <4> QED
        BY <1>7, <4>1 DEF FactorOf, TiedIn
    <3>2. CASE ~TiedIn(b, result')
      BY <1>7, <3>2 DEF FactorOf, TiedIn
    <3> QED
      BY <3>1, <3>2
  <2> HIDE DEF official, factor
  <2> QED
    BY <1>3, <1>9, <1>10, <2>1
<1>12. CASE \E l \in Legs(b) : ~InItsEvent(l)
  <2>1. official = "LOST"
    BY <1>12 DEF OfficialStatus, Verdict
  <2> HIDE DEF official, factor
  <2> QED
    BY <1>3, <1>9, <1>10, <2>1 DEF SettlementJournal
<1> QED
  BY <1>11, <1>12

(* A bet is paid by the official results of all its legs, whichever of its *)
(* events was settled last and however often each was corrected, but for   *)
(* the dead heats of an event settled earlier: a settlement writes the     *)
(* legs of all the bets on the event, decided or not, so a leg never lags  *)
(* behind its selection.                                                   *)
THEOREM PaidOfficially == Spec => PaidByOfficialResults
<1> DEFINE LegsInv == LegsFollowResults /\ OpenBetsPending
           Paid(b) == /\ status'[b] \in Verdicts /\ (status[b] = "PLACED" \/ Corrected(b))
                      /\ OnOneEvent(b) \/ ~TiedIn(b, result')
                      => payout'[b] \in {OfficialPayout(b, result', rate) :
                                            rate \in {TaxRate, DefaultTaxRate}}
<1>1. Init => LegsInv
  BY DEF Init, LegsFollowResults, OpenBetsPending, InStatus
<1>2. IInv /\ LegsInv /\ [Next]_vars => LegsInv'
  BY StepLegs
<1>3. ASSUME IInv, IInv', LegsInv, LegsInv', [Next]_vars
      PROVE  [\A b \in Bets : Paid(b)]_vars
  <2> SUFFICES ASSUME Next, NEW b \in Bets, OnOneEvent(b) \/ ~TiedIn(b, result'),
                      status'[b] \in Verdicts, status[b] = "PLACED" \/ Corrected(b)
               PROVE  \E rate \in {TaxRate, DefaultTaxRate} :
                        payout'[b] = OfficialPayout(b, result', rate)
    BY <1>3
  <2>0. result' \in [Selections -> {"NONE"} \cup Outcomes] /\ TypeOK
    BY <1>3 DEF IInv, TypeOK
  <2>1. ASSUME NEW c \in Bets, PlaceBet(c) PROVE FALSE
    <3>1. /\ status' = [status EXCEPT ![c] = "PLACED"] /\ corrections' = corrections
          /\ status \in [Bets -> {"NONE"} \cup BetStatus]
      BY <2>1, <2>0 DEF PlaceBet, TypeOK
    <3> QED
      BY <3>1, <2>1 DEF Corrected, Verdicts, PlaceBet
  <2>2. ASSUME NEW c \in Bets, Cashout(c) PROVE FALSE
    <3>1. /\ status' = [status EXCEPT ![c] = "CASHED_OUT"] /\ corrections' = corrections
          /\ status \in [Bets -> {"NONE"} \cup BetStatus]
      BY <2>2, <2>0 DEF Cashout, TypeOK
    <3> QED
      BY <3>1 DEF Corrected, Verdicts
  <2>3. ASSUME NEW e \in Events, NEW out \in [SelectionsOf(e) -> Outcomes], SettleEvent(e, out)
        PROVE  payout'[b] = OfficialPayout(b, result', TaxRate)
    <3>1. /\ request' = request /\ corrections' = corrections
          /\ SettleFrom(e, out, TaxRate, InStatus({"PLACED"}), available, held,
                        availableAcc, holdAcc)
      BY <2>3 DEF SettleEvent
    <3>2. InStatus({"PLACED"}) \subseteq InStatus(BetStatus)
      BY DEF InStatus, BetStatus
    <3>3. b \in InStatus({"PLACED"})
      BY <3>1 DEF Corrected, InStatus
    <3> QED
      BY <1>3, <2>0, <3>1, <3>2, <3>3, SettledPayout
  <2>4. ASSUME NEW e \in Events, NEW out \in [SelectionsOf(e) -> Outcomes], ResettleEvent(e, out)
        PROVE  payout'[b] = OfficialPayout(b, result', DefaultTaxRate)
    <3> DEFINE R == {c \in Settled : Touches(c, e)}
               B == InStatus({"PLACED"}) \cup R
    <3>1. /\ request' = request /\ corrections' = [corrections EXCEPT ![e] = @ + 1]
          /\ SettleFrom(e, out, DefaultTaxRate, B, AfterTakingBack(R), ReopenedHeld(R),
                        ReversedAvailable(R), ReversedHold(R))
      BY <2>4 DEF ResettleEvent, ReopenedHeld, ReversedAvailable, ReversedHold
    <3>2. B \subseteq InStatus(BetStatus) /\ InStatus({"PLACED"}) \subseteq B
      BY DEF InStatus, BetStatus, Settled
    <3>3. Corrected(b) => Touches(b, e)
      BY <3>1, <2>0 DEF Corrected, TypeOK, Touches
    <3>4. status[b] # "NONE"
      <4>1. B \subseteq Bets
        BY DEF InStatus, Settled
      <4> HIDE DEF B, R
      <4>2. InStatus({"NONE"})' = InStatus({"NONE"})
        BY <2>0, <3>1, <3>2, <4>1, SettledStatuses
      <4> QED
        BY <4>2 DEF InStatus, Verdicts
    <3>5. b \in B /\ (b \in InStatus({"PLACED"}) \/ Touches(b, e))
      BY <2>0, <3>3, <3>4 DEF InStatus, Settled, TypeOK
    <3> HIDE DEF B, R
    <3> QED
      BY <1>3, <2>0, <3>1, <3>2, <3>5, SettledPayout
  <2> QED
    BY <2>1, <2>2, <2>3, <2>4 DEF Next
<1>4. [\A b \in Bets : Paid(b)]_vars <=>
        [\A b \in Bets :
           /\ status'[b] \in Verdicts /\ (status[b] = "PLACED" \/ Corrected(b))
           /\ OnOneEvent(b) \/ ~TiedIn(b, result')
           => payout'[b] \in {OfficialPayout(b, result', rate) :
                                 rate \in {TaxRate, DefaultTaxRate}}]_vars
  OBVIOUS
<1> HIDE DEF LegsInv, Paid
<1> QED
  BY <1>1, <1>2, <1>3, <1>4, Invariance, PTL DEF Spec, PaidByOfficialResults
=============================================================================
