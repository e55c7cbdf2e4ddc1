------------------------------ MODULE Results -------------------------------
(***************************************************************************)
(* From the pitch to the outcome of a selection: the match as the provider *)
(* of the feed sees it, the polls that copy its score to the event, the    *)
(* result that finishes the event, and SettlementRuleEvaluator, which the  *)
(* settlement and the correction of the event apply to every market.       *)
(*                                                                         *)
(* A poll and a result query wait for the provider, so what they write may *)
(* be older than what the event holds; a settlement is one transaction.    *)
(* Lines and handicaps are counted in quarters of a goal.  A selection is  *)
(* what it stands for (role), how it is named (by its side or by its team, *)
(* as the feeds do) and the handicap written in its name, if any.          *)
(***************************************************************************)
EXTENDS Integers, FiniteSets

CONSTANTS
    Markets,    \* markets the event may get
    TypeOf,     \* Market.marketType
    LineOf,     \* Market.parameters: line or handicap
    Offered,    \* selections of each market
    Answers,    \* sets of markets the odds feed may list in one answer
    Polls,      \* score polls that may be in flight together
    Rulings,    \* results a settlement or a correction may be given
    MaxGoals    \* bound on the goals of a side

Voids     == {"CANCELLED", "POSTPONED", "ABANDONED"}
Statuses  == {"WON", "LOST", "VOID", "HALF_WON", "HALF_LOST"}
Naming    == {"side", "team"}
Selection == [role: STRING, named: Naming, lined: BOOLEAN, line: Int]
Ruling    == [status: Voids \cup {"FINISHED"}, home: Nat, away: Nat,
              winners: SUBSET STRING, places: Nat \ {0}]

ASSUME MarketAssumption ==
    /\ TypeOf \in [Markets -> STRING]
    /\ LineOf \in [Markets -> Int]
    /\ Offered \in [Markets -> SUBSET Selection]
    /\ Answers \subseteq SUBSET Markets
ASSUME RulingAssumption ==
    /\ MaxGoals \in Nat
    /\ Rulings \subseteq Ruling
    /\ \A r \in Rulings : IsFiniteSet(r.winners)

VARIABLES
    match,      \* the provider's match: its score and its stage
    event,      \* EventEntity: status and score
    market,     \* Market.status, "NONE" before the feed lists the market
    outcome,    \* status and dead-heat factor of the selections of a market
    applied,    \* the result the event was last settled by (history)
    poll,       \* what each poll in flight has been told
    finishing   \* a result query has been told that the match is over

resultsVars == <<match, event, market, outcome, applied, poll, finishing>>

-----------------------------------------------------------------------------
(* SettlementRuleEvaluator: one operator per market type, and the result   *)
(* seen from the pitch.  What a name is read as: a team's name is no side. *)
Side(r) == IF r.home > r.away THEN "Home"
           ELSE IF r.away > r.home THEN "Away" ELSE "Draw"
Opposite == [Home |-> "Away", Away |-> "Home"]
Read(s)  == IF s.named = "side" \/ s.role = "Draw" THEN s.role ELSE "Team"

WonIf(condition) == IF condition THEN "WON" ELSE "LOST"

ThreeWay(s, r) ==
    WonIf(\/ Read(s) = Side(r)
          \/ Side(r) # "Draw" /\ Read(s) \notin {"Draw", Opposite[Side(r)]})

Covers(name) == CASE name = "1X" -> {"Home", "Draw"}
                  [] name = "X2" -> {"Away", "Draw"}
                  [] name = "12" -> {"Home", "Away"}
                  [] OTHER -> {}
DoubleChance(s, r) == WonIf(Side(r) \in Covers(Read(s)))

DrawNoBet(s, r) ==
    IF Side(r) = "Draw" THEN "VOID"
    ELSE WonIf((Read(s) = "Home") <=> (Side(r) = "Home"))

OverUnder(s, r, line) ==
    LET total == 4 * (r.home + r.away)
    IN  WonIf(IF s.role = "Over" THEN total > line ELSE total < line)

BothScore(s, r) == WonIf((s.role = "Yes") <=> (r.home > 0 /\ r.away > 0))

(* The margin the stake is settled on.  A handicap in the name is applied  *)
(* from the home side whichever side the selection is; without one the     *)
(* market's handicap is turned round for "Away".  Unsigned forgets to.     *)
Unsigned(s, r, handicap) ==
    LET diff == 4 * (r.home - r.away)
    IN  IF s.lined THEN diff + s.line
        ELSE IF Read(s) = "Away" THEN handicap - diff
        ELSE diff + handicap
Margin(s, r, handicap) ==
    LET diff == 4 * (r.home - r.away)
    IN  IF s.lined THEN diff + s.line
        ELSE IF Read(s) = "Away" THEN -diff - handicap
        ELSE diff + handicap

Handicap(s, r, handicap) ==
    LET margin == Margin(s, r, handicap)
    IN  IF margin > 1 THEN "WON"
        ELSE IF margin = 1 THEN "HALF_WON"
        ELSE IF margin = 0 THEN "VOID"
        ELSE IF margin = -1 THEN "HALF_LOST"
        ELSE "LOST"

(* places / winners when more have won than there are places, else one.    *)
(* The ruling names both, and one place is what the code takes when it     *)
(* does not; the market's parameters, its other source, never name either. *)
(* Whole forgets the tie, Unbounded that there may be places to spare.     *)
Whole(r) == <<1, 1>>
Unbounded(r) == <<r.places, Cardinality(r.winners)>>
Factor(r) ==
    LET tied == Cardinality(r.winners)
    IN  IF tied > r.places THEN <<r.places, tied>> ELSE <<1, 1>>

StatusIn(m, s, r) ==
    CASE TypeOf[m] = "1X2"                 -> ThreeWay(s, r)
      [] TypeOf[m] = "DOUBLE_CHANCE"       -> DoubleChance(s, r)
      [] TypeOf[m] = "DRAW_NO_BET"         -> DrawNoBet(s, r)
      [] TypeOf[m] = "OVER_UNDER"          -> OverUnder(s, r, LineOf[m])
      [] TypeOf[m] = "BOTH_TEAMS_TO_SCORE" -> BothScore(s, r)
      [] TypeOf[m] = "ASIAN_HANDICAP"      -> Handicap(s, r, LineOf[m])
      [] TypeOf[m] = "OUTRIGHT"            -> WonIf(s.role \in r.winners)
      [] OTHER                             -> "VOID"

OutcomeIn(m, s, r) ==
    IF r.status \in Voids
    THEN [status |-> "VOID", factor |-> <<1, 1>>]
    ELSE [status |-> StatusIn(m, s, r),
          factor |-> IF TypeOf[m] = "OUTRIGHT" /\ s.role \in r.winners
                     THEN Factor(r) ELSE <<1, 1>>]

-----------------------------------------------------------------------------
NotTold  == [told |-> FALSE, home |-> 0, away |-> 0]
Unsettled == [status |-> "PENDING", factor |-> <<1, 1>>]
NoRuling == [status |-> "NONE", home |-> 0, away |-> 0, winners |-> {}, places |-> 1]

ResultsInit ==
    /\ match = [stage |-> "SCHEDULED", home |-> 0, away |-> 0]
    /\ event = [status |-> "SCHEDULED", home |-> 0, away |-> 0]
    /\ market = [m \in Markets |-> "NONE"]
    /\ outcome = [m \in Markets |-> [s \in Offered[m] |-> Unsettled]]
    /\ applied = NoRuling
    /\ poll = [p \in Polls |-> NotTold]
    /\ finishing = FALSE

settlement == <<market, outcome, applied>>

-----------------------------------------------------------------------------
(* The match, outside the platform. *)
KickOff ==
    /\ match.stage = "SCHEDULED"
    /\ match' = [match EXCEPT !.stage = "LIVE"]
    /\ UNCHANGED <<event, settlement, poll, finishing>>

Goal ==
    /\ match.stage = "LIVE"
    /\ \/ match.home < MaxGoals /\ match' = [match EXCEPT !.home = @ + 1]
       \/ match.away < MaxGoals /\ match' = [match EXCEPT !.away = @ + 1]
    /\ UNCHANGED <<event, settlement, poll, finishing>>

FullTime ==
    /\ match.stage = "LIVE"
    /\ match' = [match EXCEPT !.stage = "FINISHED"]
    /\ UNCHANGED <<event, settlement, poll, finishing>>

-----------------------------------------------------------------------------
(* syncOdds creates a market, and its selections, the first time the feed  *)
(* lists its type for the event.                                           *)
ListMarkets(A) ==
    /\ \E m \in A : market[m] = "NONE"
    /\ market' = [m \in Markets |-> IF m \in A /\ market[m] = "NONE"
                                    THEN "ACTIVE" ELSE market[m]]
    /\ UNCHANGED <<match, event, outcome, applied, poll, finishing>>

(* syncLiveScores: the provider tells the score, or nil-nil when its       *)
(* answer holds no scores; then updateScore writes it, LIVE whatever the   *)
(* provider says of the stage and whatever the event has become.           *)
AskScore(p) ==
    /\ ~poll[p].told
    /\ \/ poll' = [poll EXCEPT ![p] = [told |-> TRUE, home |-> match.home,
                                                      away |-> match.away]]
       \/ poll' = [poll EXCEPT ![p] = [NotTold EXCEPT !.told = TRUE]]
    /\ UNCHANGED <<match, event, settlement, finishing>>

WriteScore(p) ==
    /\ poll[p].told
    /\ event' = [status |-> "LIVE", home |-> poll[p].home, away |-> poll[p].away]
    /\ poll' = [poll EXCEPT ![p] = NotTold]
    /\ UNCHANGED <<match, settlement, finishing>>

(* syncSettlementResult: getResult answers nothing until the match is      *)
(* over; finishEvent then changes the status and not the score.            *)
AnyStage == TRUE
Over     == match.stage = "FINISHED"

AskResult ==
    /\ ~finishing /\ Over
    /\ finishing' = TRUE
    /\ UNCHANGED <<match, event, settlement, poll>>

FinishEvent ==
    /\ finishing
    /\ event' = [event EXCEPT !.status = "FINISHED"]
    /\ finishing' = FALSE
    /\ UNCHANGED <<match, settlement, poll>>

-----------------------------------------------------------------------------
Listed == {m \in Markets : market[m] # "NONE"}

(* An abandoned match is FINISHED for the event, and void for the bets.    *)
StatusAfter(r) == IF r.status \in {"CANCELLED", "POSTPONED"}
                  THEN "CANCELLED" ELSE "FINISHED"

(* The markets a settlement goes through: all of the event's, settled      *)
(* before or not.  StillOpen would leave the corrected ones as they are.   *)
StillOpen  == {m \in Listed : market[m] = "ACTIVE"}
ToEvaluate == Listed

(* settleEventMarkets, and with it the correction, which reopens the       *)
(* markets and settles them again in the same transaction.                 *)
Settle(r) ==
    /\ outcome' = [m \in Markets |->
            IF m \in ToEvaluate
            THEN [s \in Offered[m] |-> OutcomeIn(m, s, r)]
            ELSE outcome[m]]
    /\ market' = [m \in Markets |-> IF m \in ToEvaluate THEN "SETTLED" ELSE market[m]]
    /\ event' = [status |-> StatusAfter(r), home |-> r.home, away |-> r.away]
    /\ applied' = r
    /\ UNCHANGED <<match, poll, finishing>>

ResultsNext ==
    \/ KickOff \/ Goal \/ FullTime
    \/ \E A \in Answers : ListMarkets(A)
    \/ \E p \in Polls : AskScore(p) \/ WriteScore(p)
    \/ AskResult \/ FinishEvent
    \/ \E r \in Rulings : Settle(r)

ResultsSpec == ResultsInit /\ [][ResultsNext]_resultsVars

-----------------------------------------------------------------------------
(* The state stays within its types: every selection of a settled market   *)
(* has a final status, and a dead heat never pays more than one place.     *)
ResultsTypeOK ==
    /\ match \in [stage: {"SCHEDULED", "LIVE", "FINISHED"}, home: Nat, away: Nat]
    /\ event \in [status: {"SCHEDULED", "LIVE", "FINISHED", "CANCELLED"},
                  home: Nat, away: Nat]
    /\ market \in [Markets -> {"NONE", "ACTIVE", "SETTLED"}]
    /\ applied \in Ruling \cup {NoRuling}
    /\ poll \in [Polls -> [told: BOOLEAN, home: Nat, away: Nat]]
    /\ finishing \in BOOLEAN
    /\ \A m \in Markets : market[m] = "SETTLED" =>
         \A s \in Offered[m] :
           /\ outcome[m][s].status \in Statuses
           /\ outcome[m][s].factor[1] \in 1 .. outcome[m][s].factor[2]

(* What the rules of the game say.  A handicap is read from the side of    *)
(* its selection and, on a quarter line, is two half bets on the lines     *)
(* next to it, each won, lost or given back.                               *)
Sign(n) == IF n > 0 THEN 1 ELSE IF n < 0 THEN -1 ELSE 0
Halves(n) == IF n % 2 = 0 THEN 2 * Sign(n) ELSE Sign(n - 1) + Sign(n + 1)
Returned(halves) == CASE halves = 2  -> "WON"  [] halves = 1  -> "HALF_WON"
                      [] halves = 0  -> "VOID" [] halves = -1 -> "HALF_LOST"
                      [] OTHER       -> "LOST"
Lead(s, r) == IF s.role = "Away" THEN r.away - r.home ELSE r.home - r.away
OwnLine(m, s) == IF s.lined THEN s.line
                 ELSE IF s.role = "Away" THEN -LineOf[m] ELSE LineOf[m]

RuleBook(m, s, r) ==
    CASE TypeOf[m] = "1X2" ->
             WonIf(IF s.role = "Draw" THEN Lead(s, r) = 0 ELSE Lead(s, r) > 0)
      [] TypeOf[m] = "DOUBLE_CHANCE" ->
             WonIf(CASE s.role = "1X" -> r.home >= r.away
                     [] s.role = "X2" -> r.away >= r.home
                     [] OTHER         -> r.home # r.away)
      [] TypeOf[m] = "DRAW_NO_BET" -> Returned(Halves(4 * Lead(s, r)))
      [] TypeOf[m] = "OVER_UNDER" ->
             WonIf(IF s.role = "Over" THEN 4 * (r.home + r.away) > LineOf[m]
                                      ELSE 4 * (r.home + r.away) < LineOf[m])
      [] TypeOf[m] = "BOTH_TEAMS_TO_SCORE" ->
             WonIf(IF s.role = "Yes" THEN r.home * r.away > 0 ELSE r.home * r.away = 0)
      [] TypeOf[m] = "ASIAN_HANDICAP" -> Returned(Halves(4 * Lead(s, r) + OwnLine(m, s)))
      [] TypeOf[m] = "OUTRIGHT" -> WonIf(s.role \in r.winners)
      [] OTHER -> "VOID"

(* The markets the evaluator reads rightly: sides named as sides, double   *)
(* chances by their code, and no handicap in the name of the away side.    *)
Plain(m, s) ==
    /\ TypeOf[m] \in {"1X2", "DRAW_NO_BET"} => s.role \in {"Home", "Away", "Draw"}
    /\ TypeOf[m] = "DRAW_NO_BET" => s.role # "Draw"
    /\ TypeOf[m] = "DOUBLE_CHANCE" => s.role \in {"1X", "X2", "12"}
    /\ s.named = "side"
    /\ s.lined => s.role # "Away"

(* However often the event is settled and corrected, and whatever late     *)
(* polls have written to it since, every plain selection of a settled      *)
(* market has the status the rules give it for one result, or is void with *)
(* all the others; no market keeps a status of an earlier result.          *)
SettledByRule ==
    \A m \in Markets : market[m] = "SETTLED" =>
        \A s \in Offered[m] : Plain(m, s) =>
            outcome[m][s].status = IF applied.status \in Voids THEN "VOID"
                                   ELSE RuleBook(m, s, applied)

(* When more win an outright than it has places, the shares they are paid  *)
(* add up to the places: the house pays each place once.                   *)
PlacesPaidOnce ==
    \A m \in Markets : market[m] = "SETTLED" /\ TypeOf[m] = "OUTRIGHT" =>
        LET paid == {s \in Offered[m] : outcome[m][s].status = "WON"}
        IN  \A s \in paid :
              Cardinality(applied.winners) * outcome[m][s].factor[1]
                <= applied.places * outcome[m][s].factor[2]

(* The feed finishes an event only once its match is over, however long    *)
(* the answer took; before that only a settlement can.                     *)
FinishedAtFullTime ==
    event.status = "FINISHED" /\ applied = NoRuling => match.stage = "FINISHED"
=============================================================================
