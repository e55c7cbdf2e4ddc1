------------------------------- MODULE Markets ------------------------------
(***************************************************************************)
(* One market of one event: OddsEngine, FeedIngestionService,              *)
(* StaleFeedDetector, the goals of MatchSimulator, the exposure check of   *)
(* RiskEngine, and BetPlacementService as far as it looks at the market.   *)
(*                                                                         *)
(* Only placements and settlements are transactions.  All the others read, *)
(* wait and write what follows from the reading, and interleave with each  *)
(* other and with the transaction that is running.                         *)
(*                                                                         *)
(* A transaction that throws puts the stores back as they were when it     *)
(* began, whoever has written to them since; a call in flight keeps the    *)
(* replaced stores, and what it writes is lost.                            *)
(***************************************************************************)
EXTENDS Cents, Sequences

CONSTANTS
    Selections,
    Bets,      \* calls of placeBet, on one selection each
    Updates,   \* calls of updateSelectionOdds by the trading desk
    Syncs,     \* calls of syncOdds
    Scans,     \* calls of checkAndSuspendStaleMarkets
    Goals,     \* calls of simulateGoalEvent
    Desks,     \* calls of suspendMarket and resumeMarket by the trading desk
    Checks,    \* calls of validateAndTrackExposure
    Prices,    \* odds the provider gives, in thousandths; nobody checks them
    Opening,   \* the odds every selection opens with, the provider's or the desk's
    OnOf,      \* the selection of each bet, update and check
    OddsOf,    \* the odds of each bet, and the new odds of each update
    StakeOf,   \* the stake of each bet and check, in cents
    PayoutOf,  \* the potential payout of each bet and check, in cents
    GoalPrice, \* the odds of each selection after a goal, all of them above 1.01
    Limit,     \* the exposure limit of a selection, in cents
    MaxCalls,  \* how many of the calls are made in one behaviour
    MaxWrites, \* how often a score or a result is polled
    NoBet

Calls == Updates \cup Syncs \cup Scans \cup Goals \cup Checks \cup Desks

ASSUME MarketAssumption ==
    /\ IsFiniteSet(Bets) /\ NoBet \notin Bets
    /\ Updates \cap (Syncs \cup Scans \cup Goals \cup Checks \cup Desks) = {}
    /\ Syncs \cap (Scans \cup Goals \cup Checks \cup Desks) = {}
    /\ Scans \cap (Goals \cup Checks \cup Desks) = {}
    /\ Goals \cap (Checks \cup Desks) = {} /\ Checks \cap Desks = {}
    /\ Prices \subseteq Nat /\ Opening \in Nat
    /\ OnOf \in [Bets \cup Updates \cup Checks -> Selections]
    /\ OddsOf \in [Bets \cup Updates -> Nat]
    /\ StakeOf \in [Bets \cup Checks -> Nat]
    /\ PayoutOf \in [Bets \cup Checks -> Nat]
    /\ GoalPrice \in [Selections -> {p \in Nat : p >= 1010}]
    /\ Limit \in Nat /\ MaxCalls \in Nat /\ MaxWrites \in Nat

VARIABLES
    market,    \* MarketEntity.status and suspensionReason
    event,     \* EventEntity.status
    price,     \* SelectionEntity.currentOdds
    version,   \* SelectionEntity.version
    decided,   \* whether the selections have got their result
    bet,       \* what has become of each placement
    placing,   \* the placement whose transaction runs
    saved,     \* the stores as they were when it began, while it runs
    pc,        \* where each call is
    got,       \* what each call has read
    todo,      \* the selections each call has still to write
    detached,  \* calls in flight that hold replaced stores
    writes,    \* how often a score or a result has been polled
    hold       \* whether a suspension is in force that the feed must not lift

stores   == <<market, event, price, version, decided>>
betVars  == <<bet, placing, saved>>
callVars == <<pc, got, todo, detached>>
vars == <<stores, betVars, callVars, writes, hold>>

Reasons == {"NONE", "FEED_UNAVAILABLE", "MANUAL", "GOAL_SCORED", "EXPOSURE_LIMIT_EXCEEDED"}
Suspended(reason) == [status |-> "SUSPENDED", reason |-> reason]
Opened == [status |-> "ACTIVE", reason |-> "NONE"]
MarketRow == [status: {"ACTIVE", "SUSPENDED", "SETTLED"}, reason: Reasons]
Reading == [market: MarketRow, version: [Selections -> Nat],
            feed: SUBSET (Selections \X Prices), exposure: Nat]
Stores == [market: MarketRow, event: {"SCHEDULED", "LIVE", "FINISHED"},
           price: [Selections -> Nat], version: [Selections -> Nat],
           decided: BOOLEAN]

Current == [market |-> market, event |-> event, price |-> price,
            version |-> version, decided |-> decided]
NoReading == [market |-> Opened, version |-> [s \in Selections |-> 1],
              feed |-> {}, exposure |-> 0]

TypeOK ==
    /\ Current \in Stores
    /\ \A s \in Selections : version[s] > 0
    /\ bet \in [Bets -> {"none", "begun", "priced", "unfit", "verified", "placed", "refused"}]
    /\ placing \in Bets \cup {NoBet}
    /\ saved \in Seq(Stores) /\ Len(saved) = IF placing = NoBet THEN 0 ELSE 1
    /\ pc \in [Calls -> {"idle", "fetched", "market", "listed", "read", "suspending",
                         "suspended", "scored", "resuming", "counted", "done"}]
    /\ got \in [Calls -> Reading]
    /\ todo \in [Calls -> SUBSET Selections]
    /\ detached \subseteq Calls
    /\ writes \in 0 .. MaxWrites
    /\ hold \in {"none", "firm", "raced"}

(* The market is open, and the feed has just been heard. *)
Init ==
    /\ market = Opened
    /\ event = "SCHEDULED"
    /\ price = [s \in Selections |-> Opening]
    /\ version = [s \in Selections |-> 1]
    /\ decided = FALSE
    /\ bet = [b \in Bets |-> "none"]
    /\ placing = NoBet
    /\ saved = <<>>
    /\ pc = [c \in Calls |-> "idle"]
    /\ got = [c \in Calls |-> NoReading]
    /\ todo = [c \in Calls |-> {}]
    /\ detached = {}
    /\ writes = 0
    /\ hold = "none"
-----------------------------------------------------------------------------
(* Writing to a replaced store changes nothing. *)
Attached(c) == c \notin detached
InFlight == {c \in Calls : pc[c] \in {"fetched", "market", "listed", "read", "suspending",
                                      "resuming", "counted"}}

Begins(c) ==
    pc[c] = "idle" /\ Cardinality({d \in Calls : pc[d] # "idle"}) < MaxCalls
Go(c, where) == pc' = [pc EXCEPT ![c] = where]
Finish(c, where) ==
    /\ Go(c, where)
    /\ got' = [got EXCEPT ![c] = NoReading]
    /\ detached' = detached \ {c}

(* A suspension that the feed must not lift.  It is raced when a call that *)
(* has read the market before may still write what follows from that, or   *)
(* a transaction may still throw and put the store back.                   *)
Raced ==
    \/ placing # NoBet
    \/ \E n \in Scans : pc[n] \in {"listed", "read"} /\ Attached(n)
    \/ \E y \in Syncs : /\ pc[y] \in {"market", "read"} /\ Attached(y)
                       /\ got[y].market = Suspended("FEED_UNAVAILABLE")

Suspend(reason) ==
    /\ market' = Suspended(reason)
    /\ hold' = IF Raced THEN "raced" ELSE "firm"

(* suspendMarket and resumeMarket take the stores, wait for the market and *)
(* write its status whatever it was, the desk's for any reason of theirs.  *)
SuspendBy(c, reason, where) ==
    /\ pc[c] = "suspending"
    /\ IF Attached(c) THEN Suspend(reason) ELSE UNCHANGED <<market, hold>>
    /\ Finish(c, where)
    /\ UNCHANGED <<event, price, version, decided, betVars, todo, writes>>

ResumeBy(c) ==
    /\ pc[c] = "resuming"
    /\ IF Attached(c)
       THEN market' = Opened /\ hold' = "none"
       ELSE UNCHANGED <<market, hold>>
    /\ Finish(c, "done")
    /\ UNCHANGED <<event, price, version, decided, betVars, todo, writes>>

Desk(d) ==
    /\ Begins(d)
    /\ Go(d, "suspending") \/ Go(d, "resuming")
    /\ UNCHANGED <<stores, betVars, got, todo, detached, writes, hold>>

DeskSuspends(d) == SuspendBy(d, "MANUAL", "done")

DeskResumes(d) == ResumeBy(d)

-----------------------------------------------------------------------------
(* A price is written with the version that was read before it, plus one. *)
WritePrice(c, s, p) ==
    IF Attached(c)
    THEN /\ price' = [price EXCEPT ![s] = p]
         /\ version' = [version EXCEPT ![s] = got[c].version[s] + 1]
    ELSE UNCHANGED <<price, version>>

ReadVersion(c) ==
    /\ Go(c, "read")
    /\ got' = [got EXCEPT ![c].version = version]

(* updateSelectionOdds reads the selection and then its market. *)
StartUpdate(u) ==
    /\ Begins(u)
    /\ ReadVersion(u)
    /\ UNCHANGED <<stores, betVars, todo, detached, writes, hold>>

(* Odds below 1.01 are refused, here and nowhere else. *)
Admitted(p) == p >= 1010

EndUpdate(u) ==
    /\ pc[u] = "read"
    /\ IF Admitted(OddsOf[u])
       THEN WritePrice(u, OnOf[u], OddsOf[u])
       ELSE UNCHANGED <<price, version>>
    /\ Finish(u, "done")
    /\ UNCHANGED <<market, event, decided, betVars, todo, writes, hold>>

(* simulateGoalEvent suspends the market, counts the goal, which makes the *)
(* event LIVE, moves the prices one after the other and resumes.           *)
Goal(g) ==
    /\ Begins(g)
    /\ Go(g, "suspending")
    /\ UNCHANGED <<stores, betVars, got, todo, detached, writes, hold>>

GoalSuspends(g) == SuspendBy(g, "GOAL_SCORED", "suspended")

CountGoal(g) ==
    /\ pc[g] = "suspended"
    /\ event' = "LIVE"
    /\ Go(g, "scored")
    /\ todo' = [todo EXCEPT ![g] = Selections]
    /\ UNCHANGED <<market, price, version, decided, betVars, got, detached, writes, hold>>

Following(c) == CHOOSE s \in todo[c] : TRUE

StartGoalPrice(g) ==
    /\ pc[g] = "scored" /\ todo[g] # {}
    /\ ReadVersion(g)
    /\ UNCHANGED <<stores, betVars, todo, detached, writes, hold>>

EndGoalPrice(g) ==
    LET s == Following(g) IN
    /\ pc[g] = "read"
    /\ WritePrice(g, s, GoalPrice[s])
    /\ todo' = [todo EXCEPT ![g] = @ \ {s}]
    /\ Finish(g, "scored")
    /\ UNCHANGED <<market, event, decided, betVars, writes, hold>>

EndGoal(g) ==
    /\ pc[g] = "scored" /\ todo[g] = {}
    /\ Go(g, "resuming")
    /\ UNCHANGED <<stores, betVars, got, todo, detached, writes, hold>>

GoalResumes(g) == ResumeBy(g)

-----------------------------------------------------------------------------
(* syncOdds takes the stores, asks the provider, reads the market, then    *)
(* its selections, writes those whose price has moved and at last the      *)
(* market.                                                                 *)
Fetch(y) ==
    /\ Begins(y)
    /\ \E odds \in [Selections -> Prices] :
         got' = [got EXCEPT ![y].feed = {<<s, odds[s]>> : s \in Selections}]
    /\ Go(y, "fetched")
    /\ UNCHANGED <<stores, betVars, todo, detached, writes, hold>>

ReadMarket(y) ==
    /\ pc[y] = "fetched"
    /\ got' = [got EXCEPT ![y].market = market]
    /\ Go(y, "market")
    /\ UNCHANGED <<stores, betVars, todo, detached, writes, hold>>

ReadSelections(y) ==
    /\ pc[y] = "market"
    /\ got' = [got EXCEPT ![y].version = version]
    /\ todo' = [todo EXCEPT ![y] = {s \in Selections : <<s, price[s]>> \notin got[y].feed}]
    /\ Go(y, "read")
    /\ UNCHANGED <<stores, betVars, detached, writes, hold>>

WriteSelection(y) ==
    LET s == Following(y) IN
    /\ y \in Syncs /\ pc[y] = "read" /\ todo[y] # {}
    /\ \E p \in Prices : <<s, p>> \in got[y].feed /\ WritePrice(y, s, p)
    /\ todo' = [todo EXCEPT ![y] = @ \ {s}]
    /\ UNCHANGED <<market, event, decided, betVars, pc, got, detached, writes, hold>>

(* Fresh odds lift the suspension for a stale feed only, and by the market *)
(* as it was read; LiftsAny lifts every one.                               *)
LiftsAny(row) == row.status = "SUSPENDED"
Lifts(row) == row.status = "SUSPENDED" /\ row.reason = "FEED_UNAVAILABLE"

WriteMarket(y) ==
    /\ pc[y] = "read" /\ todo[y] = {}
    /\ IF Attached(y)
       THEN market' = IF Lifts(got[y].market) THEN Opened ELSE market
       ELSE UNCHANGED market
    /\ Finish(y, "done")
    /\ UNCHANGED <<event, price, version, decided, betVars, todo, writes, hold>>

-----------------------------------------------------------------------------
(* checkAndSuspendStaleMarkets lists the active markets and then looks at  *)
(* the event of each.  Any time may have passed since the market was last  *)
(* updated, more than the threshold or less; a finished event has none.    *)
ListMarkets(n) ==
    /\ Begins(n)
    /\ market.status = "ACTIVE"
    /\ Go(n, "listed")
    /\ UNCHANGED <<stores, betVars, got, todo, detached, writes, hold>>

LookAtEvent(n) ==
    /\ pc[n] = "listed"
    /\ \/ event # "FINISHED" /\ Go(n, "read") /\ UNCHANGED <<got, detached>>
       \/ Finish(n, "done")
    /\ UNCHANGED <<stores, betVars, todo, writes, hold>>

SuspendStale(n) ==
    /\ pc[n] = "read"
    /\ IF Attached(n)
       THEN market' = Suspended("FEED_UNAVAILABLE")
       ELSE UNCHANGED market
    /\ Finish(n, "done")
    /\ UNCHANGED <<event, price, version, decided, betVars, todo, writes, hold>>

(* syncLiveScores and syncSettlementResult end in one write each, and a    *)
(* score makes the event LIVE even when it has finished.                   *)
SyncEvent ==
    /\ writes < MaxWrites /\ writes' = writes + 1
    /\ event' \in {"LIVE", "FINISHED"} /\ event' # event
    /\ UNCHANGED <<market, price, version, decided, betVars, callVars, hold>>

-----------------------------------------------------------------------------
Net(payout, stake) == IF payout > stake THEN payout - stake ELSE 0

(* calculateSelectionExposure: the bets that are PLACED, net of stakes. *)
Exposure(s) ==
    LET B == {b \in Bets : bet[b] = "placed" /\ OnOf[b] = s}
    IN  IF decided THEN 0 ELSE Net(Total(B, PayoutOf), Total(B, StakeOf))

CountExposure(e) ==
    /\ Begins(e)
    /\ got' = [got EXCEPT ![e].exposure = Exposure(OnOf[e])]
    /\ Go(e, "counted")
    /\ UNCHANGED <<stores, betVars, todo, detached, writes, hold>>

ValidateExposure(e) ==
    LET projected == got[e].exposure + Net(PayoutOf[e], StakeOf[e]) IN
    /\ pc[e] = "counted"
    /\ IF projected > Limit /\ Attached(e)
       THEN Suspend("EXPOSURE_LIMIT_EXCEEDED")
       ELSE UNCHANGED <<market, hold>>
    /\ Finish(e, "done")
    /\ UNCHANGED <<event, price, version, decided, betVars, todo, writes>>

-----------------------------------------------------------------------------
BeginBet(b) ==
    /\ bet[b] = "none" /\ placing = NoBet
    /\ bet' = [bet EXCEPT ![b] = "begun"]
    /\ placing' = b
    /\ saved' = <<Current>>
    /\ UNCHANGED <<stores, callVars, writes, hold>>

(* verifySelectionForBetting: the odds asked for are within a thousandth   *)
(* of the price.                                                           *)
Close(p, odds) == p <= odds + 1 /\ odds <= p + 1

ReadSelection(b) ==
    /\ bet[b] = "begun"
    /\ bet' = [bet EXCEPT ![b] =
         IF ~decided /\ Close(price[OnOf[b]], OddsOf[b])
         THEN "priced" ELSE "unfit"]
    /\ UNCHANGED <<stores, placing, saved, callVars, writes, hold>>

VerifyMarket(b) ==
    /\ bet[b] = "priced"
    /\ market.status # "SUSPENDED"
    /\ bet' = [bet EXCEPT ![b] = "verified"]
    /\ UNCHANGED <<stores, placing, saved, callVars, writes, hold>>

(* A commit drops the stores that were saved; AcceptAndKeep does not. *)
AcceptAndKeep(b) ==
    /\ bet[b] = "verified"
    /\ bet' = [bet EXCEPT ![b] = "placed"]
    /\ placing' = NoBet
    /\ UNCHANGED <<stores, saved, callVars, writes, hold>>

AcceptBet(b) ==
    /\ bet[b] = "verified"
    /\ bet' = [bet EXCEPT ![b] = "placed"]
    /\ placing' = NoBet
    /\ saved' = <<>>
    /\ UNCHANGED <<stores, callVars, writes, hold>>

Restore(old) ==
    /\ market' = old.market /\ event' = old.event
    /\ price' = old.price /\ version' = old.version /\ decided' = old.decided

(* The account, the selection, the market or the wallet refuses the bet:   *)
(* the stores become again what they were when the placement began.        *)
RefuseBet(b) ==
    /\ \/ bet[b] \in {"begun", "unfit", "verified"}
       \/ bet[b] = "priced" /\ market.status = "SUSPENDED"
    /\ bet' = [bet EXCEPT ![b] = "refused"]
    /\ placing' = NoBet
    /\ Restore(saved[1])
    /\ saved' = <<>>
    /\ detached' = detached \cup InFlight
    /\ UNCHANGED <<pc, got, todo, writes, hold>>

(* settleEventMarkets, as far as it writes the market, its selections and  *)
(* its event.  The reason of a suspension stays in the row.  It waits for  *)
(* the transaction that runs; SettleAtOnce does not.                       *)
SettleAtOnce ==
    /\ market.status # "SETTLED"
    /\ market' = [market EXCEPT !.status = "SETTLED"]
    /\ event' = "FINISHED"
    /\ decided' = TRUE
    /\ hold' = "none"
    /\ UNCHANGED <<price, version, betVars, callVars, writes>>

Settle ==
    /\ placing = NoBet /\ market.status # "SETTLED"
    /\ market' = [market EXCEPT !.status = "SETTLED"]
    /\ event' = "FINISHED"
    /\ decided' = TRUE
    /\ hold' = "none"
    /\ UNCHANGED <<price, version, betVars, callVars, writes>>

-----------------------------------------------------------------------------
Next ==
    \/ SyncEvent \/ Settle
    \/ \E d \in Desks : Desk(d) \/ DeskSuspends(d) \/ DeskResumes(d)
    \/ \E u \in Updates : StartUpdate(u) \/ EndUpdate(u)
    \/ \E g \in Goals : Goal(g) \/ GoalSuspends(g) \/ CountGoal(g) \/ StartGoalPrice(g)
                        \/ EndGoalPrice(g) \/ EndGoal(g) \/ GoalResumes(g)
    \/ \E y \in Syncs : Fetch(y) \/ ReadMarket(y) \/ ReadSelections(y)
                       \/ WriteSelection(y) \/ WriteMarket(y)
    \/ \E n \in Scans : ListMarkets(n) \/ LookAtEvent(n) \/ SuspendStale(n)
    \/ \E e \in Checks : CountExposure(e) \/ ValidateExposure(e)
    \/ \E b \in Bets : BeginBet(b) \/ ReadSelection(b) \/ VerifyMarket(b)
                      \/ AcceptBet(b) \/ RefuseBet(b)

Spec == Init /\ [][Next]_vars

-----------------------------------------------------------------------------
(* A market suspended by the desk, for a goal or for exposure stays so     *)
(* until somebody resumes it or it is settled: fresh odds do not lift the  *)
(* suspension and the stale scan does not relabel it as one they may lift, *)
(* unless it raced with a reading or a transaction already under way.      *)
FirmHolds ==
    hold = "firm" => market.status = "SUSPENDED" /\ market.reason # "FEED_UNAVAILABLE"

(* No bet is accepted on a selection whose result is already known to the  *)
(* book: the placement reads the selection well before it writes the bet,  *)
(* and a bet written after the settlement of its event is settled by       *)
(* nothing.                                                                *)
AcceptedBeforeResult ==
    [][\A b \in Bets : bet[b] # "placed" /\ bet'[b] = "placed" => ~decided']_vars

-----------------------------------------------------------------------------
(***************************************************************************)
(* What the documents say and the code does not do.                        *)
(***************************************************************************)

(* README.md: all odds carry a version counter, by which stale odds are    *)
(* told from current ones; so a version stands for one price.  Two writers *)
(* that read one version write the next one twice, with two prices.        *)
VersionNamesPrice ==
    [][\A s \in Selections : price'[s] # price[s] => version'[s] # version[s]]_vars
=============================================================================
