------------------------------- MODULE Bonuses ------------------------------
(***************************************************************************)
(* BonusEngine: bonuses and free bets granted, wagered, converted to cash  *)
(* or forfeited.                                                           *)
(*                                                                         *)
(* The bonuses live in a Map of the engine, the money in the database.     *)
(* The engine changes the bonus first and the money in a transaction it    *)
(* then awaits; between the two, and between the bonuses one call goes     *)
(* over, the other calls run.  A transaction may throw (a lost connection, *)
(* a serialization failure): the Map keeps what was written to it.         *)
(***************************************************************************)
EXTENDS Cents, Sequences

CONSTANTS
    Users,
    Bonuses,   \* calls of grantDepositMatchBonus and grantFreeBet
    Checks,    \* calls of checkExpiration
    Wagers,    \* calls of recordWagerForBonus
    NoBonus,
    UserOf,    \* the user each bonus is granted to
    TermsOf,   \* the terms of each bonus
    ScopeOf,   \* the users each check or wager looks at
    StakeOf,   \* the stake of each wager, in cents
    OddsOf     \* the odds of each wager

Calls == Checks \cup Wagers
Terms == [type: {"DEPOSIT_MATCH", "FREE_BET"}, cents: Nat, percentage: Nat,
          max: Nat, multiplier: Nat, minOdds: Nat]

ASSUME BonusAssumption ==
    /\ IsFiniteSet(Bonuses) /\ IsFiniteSet(Wagers) /\ NoBonus \notin Bonuses
    /\ Checks \cap Wagers = {}
    /\ UserOf \in [Bonuses -> Users]
    /\ TermsOf \in [Bonuses -> Terms]
    /\ ScopeOf \in [Calls -> SUBSET Users]
    /\ \A w \in Wagers : \E u \in Users : ScopeOf[w] = {u}
    /\ StakeOf \in [Wagers -> Nat]
    /\ OddsOf \in [Wagers -> Nat]

VARIABLES
    grant,      \* where the grant of each bonus is
    granted,    \* userBonuses, in the order of insertion
    status,     \* UserBonus.status
    wagered,    \* UserBonus.wageredCents
    lapsed,     \* bonuses whose expiresAt has passed
    pc,         \* where each check and wager is
    at,         \* the position in userBonuses its loop has reached
    now,        \* the bonuses that had lapsed when it took the time
    on,         \* the bonus whose transaction it awaits
    bonusCents, \* Wallet.bonusCents
    available,  \* Wallet.availableCents, as far as bonuses made it
    journals,   \* the journals posted, by kind and bonus
    lost        \* bonuses that ended by a transaction that threw

mapVars   == <<grant, granted, status, wagered>>
callVars  == <<pc, at, now, on>>
moneyVars == <<bonusCents, available, journals>>
vars == <<mapVars, lapsed, callVars, moneyVars, lost>>

Ended == {"ROLLED_OVER", "EXPIRED"}
JournalKinds == {"BONUS_GRANT", "BONUS_ROLLOVER", "BONUS_EXPIRATION"}
Awaiting == {"forfeiting", "converting"}

(* What a deposit earns: the percentage, cut off at the maximum if there   *)
(* is one.                                                                 *)
Matched(cents, percentage, max) ==
    LET match == (cents * percentage) \div 100
    IN  IF max > 0 /\ match > max THEN max ELSE match

AmountOf == [b \in Bonuses |->
    IF TermsOf[b].type = "FREE_BET" THEN TermsOf[b].cents
    ELSE Matched(TermsOf[b].cents, TermsOf[b].percentage, TermsOf[b].max)]

(* A free bet is to be wagered once, whatever its terms. *)
Required == [b \in Bonuses |->
    AmountOf[b] * (IF TermsOf[b].type = "FREE_BET" THEN 1 ELSE TermsOf[b].multiplier)]

(* The amounts the engine grants, and those it pays when they are due.     *)
(* AnyAmount admits a grant of nothing, NoFreeBet pays matches only.       *)
AnyAmount(b) == TRUE
Grantable(b) == AmountOf[b] > 0
NoFreeBet(b) == TermsOf[b].type # "FREE_BET"
Payable(b) == AmountOf[b] > 0

TypeOK ==
    /\ grant \in [Bonuses -> {"idle", "credited", "stored"}]
    /\ granted \in Seq(Bonuses)
    /\ status \in [Bonuses -> {"NONE", "ACTIVE"} \cup Ended]
    /\ wagered \in [Bonuses -> Nat]
    /\ lapsed \subseteq Bonuses
    /\ pc \in [Calls -> {"idle", "looking", "recording", "done", "failed",
                        "unconverted"} \cup Awaiting]
    /\ at \in [Calls -> Nat \ {0}]
    /\ now \in [Calls -> SUBSET Bonuses]
    /\ on \in [Calls -> Bonuses \cup {NoBonus}]
    /\ bonusCents \in [Users -> Nat]
    /\ available \in [Users -> Nat]
    /\ journals \subseteq JournalKinds \X {b \in Bonuses : AmountOf[b] > 0}
    /\ lost \subseteq Bonuses

Init ==
    /\ grant = [b \in Bonuses |-> "idle"]
    /\ granted = <<>>
    /\ status = [b \in Bonuses |-> "NONE"]
    /\ wagered = [b \in Bonuses |-> 0]
    /\ lapsed = {}
    /\ pc = [c \in Calls |-> "idle"]
    /\ at = [c \in Calls |-> 1]
    /\ now = [c \in Calls |-> {}]
    /\ on = [c \in Calls |-> NoBonus]
    /\ bonusCents = [u \in Users |-> 0]
    /\ available = [u \in Users |-> 0]
    /\ journals = {}
    /\ lost = {}

-----------------------------------------------------------------------------
(* The transaction of a grant; one that throws changes nothing, and        *)
(* nothing is granted of nothing.                                          *)
Grant(b) ==
    /\ grant[b] = "idle"
    /\ Grantable(b)
    /\ grant' = [grant EXCEPT ![b] = "credited"]
    /\ bonusCents' = [bonusCents EXCEPT ![UserOf[b]] = @ + AmountOf[b]]
    /\ journals' = journals \cup {<<"BONUS_GRANT", b>>}
    /\ UNCHANGED <<granted, status, wagered, lapsed, callVars, available, lost>>

(* The bonus enters the Map when the awaited transaction has resolved. *)
Store(b) ==
    /\ grant[b] = "credited"
    /\ grant' = [grant EXCEPT ![b] = "stored"]
    /\ granted' = Append(granted, b)
    /\ status' = [status EXCEPT ![b] = "ACTIVE"]
    /\ UNCHANGED <<wagered, lapsed, callVars, moneyVars, lost>>

(* The time passes the expiresAt of a bonus. *)
Lapse(b) ==
    /\ grant[b] = "stored" /\ b \notin lapsed
    /\ lapsed' = lapsed \cup {b}
    /\ UNCHANGED <<mapVars, callVars, moneyVars, lost>>

-----------------------------------------------------------------------------
(* checkExpiration takes the time once.  recordWagerForBonus begins with a *)
(* check of its user.                                                      *)
Start(c) ==
    /\ pc[c] = "idle"
    /\ pc' = [pc EXCEPT ![c] = "looking"]
    /\ now' = [now EXCEPT ![c] = lapsed]
    /\ UNCHANGED <<mapVars, lapsed, at, on, moneyVars, lost>>

ActiveFor(c, b) == status[b] = "ACTIVE" /\ UserOf[b] \in ScopeOf[c]

(* The positions of the bonuses the loop has still to expire.  The loop    *)
(* also meets the bonuses stored while it waits.  DueAnyStatus takes those *)
(* for due that another call has ended meanwhile.                          *)
DueAnyStatus(c) ==
    {i \in at[c] .. Len(granted) : UserOf[granted[i]] \in ScopeOf[c] /\ granted[i] \in now[c]}
Due(c) ==
    {i \in at[c] .. Len(granted) : ActiveFor(c, granted[i]) /\ granted[i] \in now[c]}

Least(S) == CHOOSE i \in S : \A j \in S : i <= j

Look(c) ==
    /\ pc[c] = "looking"
    /\ \/ /\ Due(c) = {}
          /\ pc' = [pc EXCEPT ![c] = IF c \in Wagers THEN "recording" ELSE "done"]
          /\ UNCHANGED <<status, at, on>>
       \/ /\ Due(c) # {}
          /\ LET i == Least(Due(c)) IN
             /\ status' = [status EXCEPT ![granted[i]] = "EXPIRED"]
             /\ at' = [at EXCEPT ![c] = i + 1]
             /\ IF Payable(granted[i])
                THEN on' = [on EXCEPT ![c] = granted[i]] /\ pc' = [pc EXCEPT ![c] = "forfeiting"]
                ELSE UNCHANGED <<on, pc>>
    /\ UNCHANGED <<grant, granted, wagered, lapsed, now, moneyVars, lost>>

(* What is left of a wallet's bonus cents: never less than nothing. *)
Less(cents, amount) == IF cents >= amount THEN cents - amount ELSE 0

(* The transaction takes the bonus from the wallet: DR USER_BONUS, CR      *)
(* MARKETING_BONUS.  The loop goes on behind the bonus.                    *)
Forfeit(c) ==
    LET b == on[c] IN
    /\ pc[c] = "forfeiting"
    /\ pc' = [pc EXCEPT ![c] = "looking"]
    /\ on' = [on EXCEPT ![c] = NoBonus]
    /\ bonusCents' = [bonusCents EXCEPT ![UserOf[b]] = Less(@, AmountOf[b])]
    /\ journals' = journals \cup {<<"BONUS_EXPIRATION", b>>}
    /\ UNCHANGED <<mapVars, lapsed, at, now, available, lost>>

-----------------------------------------------------------------------------
(* The first active bonus in the order of the Map takes the whole stake. *)
Candidates(w) == {i \in 1 .. Len(granted) : ActiveFor(w, granted[i])}
First(w) == granted[Least(Candidates(w))]

(* Whether the turnover is reached; EarlyRollover forgets the multiplier.  *)
EarlyRollover(b, cents) == cents >= AmountOf[b]
Rollover(b, cents) == cents >= Required[b]

(* recordWagerForBonus behind its check; NothingToRecord returns before    *)
(* anything is written.                                                    *)
NothingToRecord(w) ==
    Candidates(w) # {} => OddsOf[w] < TermsOf[First(w)].minOdds

SkipWager(w) ==
    /\ pc[w] = "recording"
    /\ NothingToRecord(w)
    /\ pc' = [pc EXCEPT ![w] = "done"]
    /\ UNCHANGED <<mapVars, lapsed, at, now, on, moneyVars, lost>>

RecordWager(w) ==
    LET b == First(w)
        cents == wagered[b] + StakeOf[w] IN
    /\ pc[w] = "recording"
    /\ ~NothingToRecord(w)
    /\ wagered' = [wagered EXCEPT ![b] = cents]
    /\ IF Rollover(b, cents)
       THEN status' = [status EXCEPT ![b] = "ROLLED_OVER"]
       ELSE UNCHANGED status
    /\ IF Rollover(b, cents) /\ Payable(b)
       THEN on' = [on EXCEPT ![w] = b] /\ pc' = [pc EXCEPT ![w] = "converting"]
       ELSE UNCHANGED on /\ pc' = [pc EXCEPT ![w] = "done"]
    /\ UNCHANGED <<grant, granted, lapsed, at, now, moneyVars, lost>>

(* The transaction makes the bonus cash: DR USER_BONUS, CR USER_AVAILABLE. *)
Convert(w) ==
    LET b == on[w]
        u == UserOf[b] IN
    /\ pc[w] = "converting"
    /\ pc' = [pc EXCEPT ![w] = "done"]
    /\ on' = [on EXCEPT ![w] = NoBonus]
    /\ bonusCents' = [bonusCents EXCEPT ![u] = Less(@, AmountOf[b])]
    /\ available' = [available EXCEPT ![u] = @ + AmountOf[b]]
    /\ journals' = journals \cup {<<"BONUS_ROLLOVER", b>>}
    /\ UNCHANGED <<mapVars, lapsed, at, now, lost>>

(* The awaited transaction throws, and so does the call. *)
Lose(c) ==
    /\ pc[c] \in Awaiting
    /\ pc' = [pc EXCEPT ![c] = IF @ = "converting" THEN "unconverted" ELSE "failed"]
    /\ on' = [on EXCEPT ![c] = NoBonus]
    /\ lost' = lost \cup {on[c]}
    /\ UNCHANGED <<mapVars, lapsed, at, now, moneyVars>>

-----------------------------------------------------------------------------
Await(c) == Forfeit(c) \/ (c \in Wagers /\ Convert(c)) \/ Lose(c)
Record(c) == c \in Wagers /\ (SkipWager(c) \/ RecordWager(c))

Next ==
    \/ \E b \in Bonuses : Grant(b) \/ Store(b) \/ Lapse(b)
    \/ \E c \in Calls : Start(c) \/ Look(c) \/ Forfeit(c) \/ Lose(c)
    \/ \E w \in Wagers : SkipWager(w) \/ RecordWager(w) \/ Convert(w)

(* Node runs every continuation it has queued, and a transaction resolves  *)
(* or rejects.  Nothing says that a call is ever made.                     *)
Fairness ==
    /\ \A b \in Bonuses : WF_vars(Store(b))
    /\ \A c \in Calls : WF_vars(Look(c)) /\ WF_vars(Await(c)) /\ WF_vars(Record(c))

Spec == Init /\ [][Next]_vars
FairSpec == Spec /\ Fairness

-----------------------------------------------------------------------------
Posted(kind, u) == {b \in Bonuses : UserOf[b] = u /\ <<kind, b>> \in journals}
Sum(kind, u) == Total(Posted(kind, u), AmountOf)

(* The wallet tells what the ledger does: the bonus cents are the grants   *)
(* less what was converted and forfeited, and the cash is what was         *)
(* converted.  The clamps on the wallet would break this the first time    *)
(* one of them bit.                                                        *)
WalletMatchesLedger ==
    \A u \in Users :
        /\ bonusCents[u] = Sum("BONUS_GRANT", u) - Sum("BONUS_ROLLOVER", u)
                             - Sum("BONUS_EXPIRATION", u)
        /\ available[u] = Sum("BONUS_ROLLOVER", u)

(* A bonus ends once: it is converted or forfeited, never both and never   *)
(* twice, whichever checks and wagers meet over it.  A bonus that ended    *)
(* has its journal, or a call that is about to post it, or its transaction *)
(* threw.                                                                  *)
EndsOnce ==
    /\ \A b \in Bonuses :
         /\ <<"BONUS_ROLLOVER", b>> \in journals => status[b] = "ROLLED_OVER"
         /\ <<"BONUS_EXPIRATION", b>> \in journals => status[b] = "EXPIRED"
         /\ status[b] \in Ended =>
              \/ b \in lost
              \/ \E kind \in JournalKinds \ {"BONUS_GRANT"} : <<kind, b>> \in journals
              \/ \E c \in Calls : on[c] = b
    /\ \A c \in Calls : on[c] # NoBonus =>
         /\ on[c] \notin lost
         /\ \A kind \in JournalKinds \ {"BONUS_GRANT"} : <<kind, on[c]>> \notin journals
         /\ \A c2 \in Calls : on[c2] = on[c] => c2 = c

(* Cash is made of bonuses only by wagers their user has made, at odds the *)
(* terms admit, and a stake counts for one bonus only: all the bonuses     *)
(* converted together required no more than was staked.  No bonus is       *)
(* converted by a wager made after it had lapsed.                          *)
Recorded(u) == {w \in Wagers : ScopeOf[w] = {u} /\ pc[w] \in {"converting", "done", "unconverted"}}
RolledOver(u) == {b \in Bonuses : UserOf[b] = u /\ status[b] = "ROLLED_OVER"}
CashIsWagered ==
    /\ \A u \in Users :
         /\ Total(RolledOver(u), Required) <= Total(Recorded(u), StakeOf)
         /\ \A b \in RolledOver(u) :
              Required[b] <= Total({w \in Recorded(u) : OddsOf[w] >= TermsOf[b].minOdds}, StakeOf)
    /\ \A w \in Wagers : pc[w] = "converting" => on[w] \notin now[w]

(* Whatever ended a bonus moves its money, unless its transaction throws:  *)
(* no call that waits for another one waits for ever.                      *)
EndedIsBooked ==
    \A b \in Bonuses :
        status[b] \in Ended ~>
            (b \in lost \/ \E kind \in JournalKinds \ {"BONUS_GRANT"} : <<kind, b>> \in journals)
=============================================================================
