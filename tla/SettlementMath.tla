--------------------------- MODULE SettlementMath ---------------------------
(***************************************************************************)
(* The arithmetic of a settlement: what a stake can return, the tax that   *)
(* is withheld, how the statuses of the legs decide the status of the bet  *)
(* and which ledger journal that status posts.                             *)
(*                                                                         *)
(* Amounts are cents.  Odds, dead-heat factors and tax rates are integers  *)
(* scaled by 10000, the way the code scales its decimals (Math.round of    *)
(* the decimal times 10000) before it multiplies bigints.                  *)
(***************************************************************************)
EXTENDS Integers

Scale == 10000

LegStatus == {"PENDING", "WON", "LOST", "VOID", "HALF_WON", "HALF_LOST"}
Verdicts  == {"WON", "LOST", "VOIDED", "HALF_WON", "HALF_LOST"}

(* Money.multiplyByDecimal: the product, rounded half up. *)
PotentialPayout(stake, odds) == (stake * odds + Scale \div 2) \div Scale

(* A share of an amount as the engine cuts it: bigint division truncates. *)
Share(amount, factor) == (amount * factor) \div Scale

(* TaxCalculator: tax is due on the winnings only, rounded half up. *)
Withheld(stake, gross, rate) ==
    IF gross <= stake \/ rate <= 0
    THEN 0
    ELSE ((gross - stake) * rate + Scale \div 2) \div Scale

(* BonusEngine.settleFreeBet: the stake of a free bet is not the user's,   *)
(* who is paid the profit over it, less the tax; all is cut off.           *)
FreeBetWinnings(stake, odds) ==
    IF stake <= 0 \/ odds <= Scale THEN 0 ELSE Share(stake, odds - Scale)
FreeBetPayout(stake, odds, rate) ==
    FreeBetWinnings(stake, odds) - Share(FreeBetWinnings(stake, odds), rate)

(* The status of a bet whose legs are all settled, S being the set of the  *)
(* statuses of its legs.  The order of the tests is the code's: a mix of   *)
(* WON and VOID legs matches none of them and keeps the default, LOST.     *)
Verdict(S) ==
    IF "LOST" \in S THEN "LOST"
    ELSE IF "HALF_LOST" \in S THEN "HALF_LOST"
    ELSE IF "HALF_WON" \in S THEN "HALF_WON"
    ELSE IF S = {"WON"} THEN "WON"
    ELSE IF S = {"VOID"} THEN "VOIDED"
    ELSE "LOST"

-----------------------------------------------------------------------------
(***************************************************************************)
(* A journal: its kind, which is the variable part of its idempotency key, *)
(* and the amount of each of its lines.  DR lines: the user's hold account *)
(* (hold) and GAMING_PAYOUT (expense).  CR lines: the user's available     *)
(* account (credit), TAX_WITHHOLDING (tax) and GGR_REVENUE (ggr).  A zero  *)
(* amount is a line the code does not push, except in `pushed', the lines  *)
(* the code pushes whatever their amount.                                  *)
(***************************************************************************)
Kinds == {"win", "deadheat", "halfwin", "halfloss", "loss", "void", "cashout"}

Journal(kind, hold, expense, credit, tax, ggr) ==
    [kind |-> kind, hold |-> hold, expense |-> expense,
     credit |-> credit, tax |-> tax, ggr |-> ggr]

Excess(a, b) == IF a > b THEN a - b ELSE 0

WinJournal(stake, odds, rate) ==
    LET gross == PotentialPayout(stake, odds)
        tax   == Withheld(stake, gross, rate)
    IN  Journal("win", stake, Excess(gross, stake), gross - tax, tax, 0)

(* A tie pays the share of the stake that won; the rest is revenue.  The   *)
(* expense is measured against that share, not against the whole stake as  *)
(* in DeadHeatOnStake, which does not balance.                             *)
DeadHeatOnStake(stake, odds, factor, rate) ==
    LET effective == Share(stake, factor)
        gross     == Share(effective, odds)
        tax       == Withheld(effective, gross, rate)
    IN  Journal("deadheat", stake, Excess(gross, stake), gross - tax, tax,
                stake - effective)

DeadHeatJournal(stake, odds, factor, rate) ==
    LET effective == Share(stake, factor)
        gross     == Share(effective, odds)
        tax       == Withheld(effective, gross, rate)
    IN  Journal("deadheat", stake, Excess(gross, effective), gross - tax, tax,
                stake - effective)

HalfWinJournal(stake, odds, rate) ==
    LET half  == stake \div 2
        gross == Share(half, odds) + (stake - half)
        tax   == Withheld(stake, gross, rate)
    IN  Journal("halfwin", stake, Excess(gross, stake), gross - tax, tax, 0)

HalfLossJournal(stake) ==
    LET lost == stake \div 2
    IN  Journal("halfloss", stake, 0, stake - lost, 0, lost)

LossJournal(stake) == Journal("loss", stake, 0, 0, 0, stake)
VoidJournal(stake) == Journal("void", stake, 0, stake, 0, 0)

(* The journal a verdict posts; factor = Scale means no dead heat. *)
SettlementJournal(verdict, stake, odds, factor, rate) ==
    CASE verdict = "WON" -> IF factor < Scale
                            THEN DeadHeatJournal(stake, odds, factor, rate)
                            ELSE WinJournal(stake, odds, rate)
      [] verdict = "HALF_WON"  -> HalfWinJournal(stake, odds, rate)
      [] verdict = "HALF_LOST" -> HalfLossJournal(stake)
      [] verdict = "LOST"      -> LossJournal(stake)
      [] verdict = "VOIDED"    -> VoidJournal(stake)

(* CashoutEngine: 80% of the potential payout, truncated. *)
CashoutQuote(stake, odds) == (PotentialPayout(stake, odds) * 80) \div 100

CashoutJournal(stake, odds) ==
    LET amount == CashoutQuote(stake, odds)
    IN  Journal("cashout", stake, Excess(amount, stake), amount, 0,
                Excess(stake, amount))

-----------------------------------------------------------------------------
(* The lines pushed unconditionally: a zero amount in one of them makes    *)
(* postJournal throw.  HOLD is always among them and is the stake.         *)
Pushed(j) ==
    CASE j.kind \in {"win", "halfwin", "void", "cashout"} -> {j.hold, j.credit}
      [] j.kind = "halfloss" -> {j.hold, j.credit, j.ggr}
      [] j.kind = "loss"     -> {j.hold, j.ggr}
      [] OTHER               -> {j.hold}

Balanced(j) == j.hold + j.expense = j.credit + j.tax + j.ggr

(* What LedgerEngine.postJournal accepts. *)
Postable(j) == Balanced(j) /\ \A amount \in Pushed(j) : amount > 0
=============================================================================
