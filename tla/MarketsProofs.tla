---------------------------- MODULE MarketsProofs ---------------------------
(***************************************************************************)
(* The invariants and the action property of Markets, for every set of     *)
(* selections and calls and all odds, whatever the provider sends.         *)
(***************************************************************************)
EXTENDS Markets, CentsTheorems

(* The stores a refusal would put back have positive versions as well. *)
SavedInv ==
    placing # NoBet => \A s \in Selections : saved[1].version[s] > 0

(* A goal that is setting prices has one left to set. *)
GoalInv == \A g \in Goals : pc[g] = "read" => todo[g] # {}

Firm(row) == row.status = "SUSPENDED" /\ row.reason # "FEED_UNAVAILABLE"

(* While a suspension is firm the store a refusal would put back has it    *)
(* too, and no call in flight has read the market before it in a way that  *)
(* would make it write another one.                                        *)
FirmInv ==
    hold = "firm" =>
        /\ Firm(market)
        /\ placing # NoBet => Firm(saved[1].market)
        /\ \A n \in Scans : pc[n] \in {"listed", "read"} => n \in detached
        /\ \A y \in Syncs : pc[y] \in {"market", "read"} /\ y \notin detached =>
             got[y].market # Suspended("FEED_UNAVAILABLE")

(* One placement runs at a time. *)
BetInv ==
    \A b \in Bets : bet[b] \in {"begun", "priced", "unfit", "verified"} => placing = b

(* While a placement has read its selection the results are not in: what   *)
(* decides them waits for it.                                              *)
ResultInv == \A b \in Bets : bet[b] \in {"priced", "verified"} => ~decided

IInv == TypeOK /\ SavedInv /\ GoalInv /\ FirmInv /\ BetInv /\ ResultInv

-----------------------------------------------------------------------------
(* TypeOK in parts. *)
Places == {"idle", "fetched", "market", "listed", "read", "suspending", "suspended", "scored",
           "resuming", "counted", "done"}

StoresT ==
    /\ market \in MarketRow /\ event \in {"SCHEDULED", "LIVE", "FINISHED"}
    /\ price \in [Selections -> Nat] /\ version \in [Selections -> Nat] /\ decided \in BOOLEAN
    /\ \A s \in Selections : version[s] > 0

BetT ==
    /\ bet \in [Bets -> {"none", "begun", "priced", "unfit", "verified", "placed", "refused"}]
    /\ placing \in Bets \cup {NoBet}
    /\ saved \in Seq(Stores) /\ Len(saved) = IF placing = NoBet THEN 0 ELSE 1

CallT ==
    /\ pc \in [Calls -> Places] /\ got \in [Calls -> Reading]
    /\ todo \in [Calls -> SUBSET Selections] /\ detached \subseteq Calls

RestT == writes \in 0 .. MaxWrites /\ hold \in {"none", "firm", "raced"}

(* The type invariant is the conjunction of its parts, before and after a  *)
(* step.                                                                   *)
LEMMA Parts ==
  /\ TypeOK <=> StoresT /\ BetT /\ CallT /\ RestT
  /\ TypeOK' <=> StoresT' /\ BetT' /\ CallT' /\ RestT'
<1>1. /\ Current \in Stores <=>
           /\ market \in MarketRow /\ event \in {"SCHEDULED", "LIVE", "FINISHED"}
           /\ price \in [Selections -> Nat] /\ version \in [Selections -> Nat]
           /\ decided \in BOOLEAN
      /\ Current' \in Stores <=>
           /\ market' \in MarketRow /\ event' \in {"SCHEDULED", "LIVE", "FINISHED"}
           /\ price' \in [Selections -> Nat] /\ version' \in [Selections -> Nat]
           /\ decided' \in BOOLEAN
  BY DEF Current, Stores
<1>2. TypeOK <=> StoresT /\ BetT /\ CallT /\ RestT
  BY <1>1 DEF TypeOK, StoresT, BetT, CallT, RestT, Places
<1>3. TypeOK' <=> StoresT' /\ BetT' /\ CallT' /\ RestT'
  BY <1>1 DEF TypeOK, StoresT, BetT, CallT, RestT, Places
<1> QED
  BY <1>2, <1>3

(* A call has one kind, so a step of one kind moves no call of another. *)
LEMMA CallsAreOfOneKind ==
  /\ \A g \in Goals : g \in Calls /\ g \notin Updates \cup Syncs \cup Scans \cup Checks \cup Desks
  /\ \A y \in Syncs : y \in Calls /\ y \notin Updates \cup Goals \cup Scans \cup Checks \cup Desks
  /\ \A n \in Scans : n \in Calls /\ n \notin Updates \cup Goals \cup Syncs \cup Checks \cup Desks
  /\ \A u \in Updates : u \in Calls /\ u \notin Scans \cup Goals \cup Syncs \cup Checks \cup Desks
  /\ \A e \in Checks : e \in Calls /\ e \notin Scans \cup Goals \cup Syncs \cup Updates \cup Desks
  /\ \A d \in Desks : d \in Calls /\ d \notin Scans \cup Goals \cup Syncs \cup Updates \cup Checks
BY MarketAssumption DEF Calls

(* The rows the code writes are rows; the feed lifts one suspension only,  *)
(* its own.                                                                *)
LEMMA Rows ==
  /\ NoReading \in Reading /\ Opened \in MarketRow
  /\ \A reason \in Reasons : Suspended(reason) \in MarketRow
  /\ \A row \in MarketRow : Lifts(row) <=> row = Suspended("FEED_UNAVAILABLE")
BY DEF NoReading, Reading, Opened, MarketRow, Suspended, Reasons, Lifts

(* Moving on changes the place of the one call. *)
LEMMA GoMoves ==
  ASSUME IInv, NEW c \in Calls, NEW where \in Places, Go(c, where)
  PROVE  /\ pc' \in [Calls -> Places] /\ pc'[c] = where
         /\ \A d \in Calls \ {c} : pc'[d] = pc[d]
BY Parts DEF IInv, CallT, Go

(* A call that ends forgets what it read and concerns no other call. *)
LEMMA FinishMoves ==
  ASSUME IInv, NEW c \in Calls, NEW where \in {"scored", "done", "suspended"}, Finish(c, where),
         NEW left \in SUBSET Selections, todo' = [todo EXCEPT ![c] = left]
  PROVE  /\ pc'[c] = where /\ \A d \in Calls \ {c} : pc'[d] = pc[d]
         /\ \A d \in Calls \ {c} : got'[d] = got[d] /\ (d \in detached' <=> d \in detached)
         /\ \A d \in Calls \ {c} : todo'[d] = todo[d]
         /\ CallT'
<1>1. pc' \in [Calls -> Places] /\ pc'[c] = where /\ \A d \in Calls \ {c} : pc'[d] = pc[d]
  BY GoMoves DEF Finish, Places
<1>2. got' = [got EXCEPT ![c] = NoReading] /\ detached' = detached \ {c}
  BY DEF Finish
<1> QED
  BY <1>1, <1>2, Parts, Rows DEF IInv, CallT

(* What a call reads is well typed. *)
LEMMA Readings ==
  ASSUME NEW r \in Reading
  PROVE  /\ \A v \in [Selections -> Nat] : [r EXCEPT !.version = v] \in Reading
         /\ \A row \in MarketRow : [r EXCEPT !.market = row] \in Reading
         /\ \A feed \in SUBSET (Selections \X Prices) : [r EXCEPT !.feed = feed] \in Reading
         /\ \A n \in Nat : [r EXCEPT !.exposure = n] \in Reading
BY DEF Reading

(* A written price keeps prices and versions within their types, whatever  *)
(* version had been read.                                                  *)
LEMMA PriceWritten ==
  ASSUME IInv, NEW c \in Calls, NEW s \in Selections, NEW p \in Nat,
         WritePrice(c, s, p)
  PROVE  /\ price' \in [Selections -> Nat] /\ version' \in [Selections -> Nat]
         /\ \A t \in Selections : version'[t] > 0
<1>1. got[c].version[s] + 1 \in Nat \ {0}
  BY Parts DEF IInv, CallT, Reading
<1> QED
  BY <1>1, Parts DEF IInv, StoresT, WritePrice

(* The exposure is never negative: it is clamped. *)
LEMMA ExposureType ==
  ASSUME IInv, NEW s
  PROVE  Exposure(s) \in Nat
<1> DEFINE B == {b \in Bets : bet[b] = "placed" /\ OnOf[b] = s}
<1>1. IsFiniteSet(B) /\ \A b \in B : PayoutOf[b] \in Nat /\ StakeOf[b] \in Nat
  BY MarketAssumption, FS_Subset
<1>2. Total(B, PayoutOf) \in Nat /\ Total(B, StakeOf) \in Nat
  <2> HIDE DEF B
  <2> QED
    BY <1>1, CentsFinite
<1> QED
  BY <1>2 DEF Exposure, Net

(* A suspension for another reason than the feed's is firm only when no    *)
(* placement and no call that could undo it is under way.                  *)
LEMMA SuspendedFirm ==
  ASSUME IInv, NEW reason \in Reasons \ {"NONE", "FEED_UNAVAILABLE"}, Suspend(reason),
         UNCHANGED placing
  PROVE  /\ market' \in MarketRow /\ hold' \in {"none", "firm", "raced"}
         /\ Firm(market)'
         /\ hold' = "firm" =>
              /\ placing' = NoBet
              /\ \A n \in Scans : pc[n] \in {"listed", "read"} => n \in detached
              /\ \A y \in Syncs : pc[y] \in {"market", "read"} /\ y \notin detached =>
                   got[y].market # Suspended("FEED_UNAVAILABLE")
<1>1. market' = Suspended(reason) /\ hold' = IF Raced THEN "raced" ELSE "firm"
  BY DEF Suspend
<1>2. market' \in MarketRow
  BY <1>1, Rows
<1>3. Firm(market)'
  BY <1>1 DEF Firm, Suspended
<1> QED
  BY <1>1, <1>2, <1>3 DEF Raced, Attached

-----------------------------------------------------------------------------
(* Everything but the results. *)
Core == StoresT /\ BetT /\ CallT /\ RestT /\ SavedInv /\ GoalInv /\ FirmInv /\ BetInv

(* The invariant but for the results. *)
LEMMA HasCore == IInv => Core
BY Parts DEF IInv, Core

(* A step that leaves the bets alone keeps what is said of them. *)
LEMMA BetsKept ==
  ASSUME IInv, UNCHANGED betVars
  PROVE  BetT' /\ SavedInv' /\ BetInv'
BY HasCore DEF Core, BetT, SavedInv, BetInv, betVars

(* A step that leaves the calls alone keeps what is said of them. *)
LEMMA CallsKept ==
  ASSUME IInv, UNCHANGED callVars
  PROVE  CallT' /\ GoalInv'
BY HasCore DEF Core, CallT, GoalInv, callVars

(* A step of a call c that leaves the market as it is. *)
LEMMA FirmKept ==
  ASSUME IInv, NEW c \in Calls, UNCHANGED <<market, hold, betVars>>,
         \A d \in Calls \ {c} :
           pc'[d] = pc[d] /\ got'[d] = got[d] /\ (d \in detached' <=> d \in detached),
         hold = "firm" /\ c \in Scans /\ pc'[c] \in {"listed", "read"} => c \in detached',
         hold = "firm" /\ c \in Syncs /\ pc'[c] \in {"market", "read"} /\ c \notin detached' =>
           got'[c].market # Suspended("FEED_UNAVAILABLE")
  PROVE  FirmInv'
BY CallsAreOfOneKind, HasCore DEF Core, FirmInv, Firm, Suspended, betVars

(* A step that writes the market, and is not a call's reading of it. *)
LEMMA FirmWritten ==
  ASSUME IInv, UNCHANGED <<placing, saved>>, NEW c,
         \A d \in Calls \ {c} :
           pc'[d] = pc[d] /\ got'[d] = got[d] /\ (d \in detached' <=> d \in detached),
         c \in Scans => pc'[c] \notin {"listed", "read"},
         c \in Syncs => pc'[c] \notin {"market", "read"},
         hold' = "firm" =>
           /\ Firm(market)'
           /\ placing' # NoBet => Firm(saved[1].market)
           /\ \A n \in Scans : pc[n] \in {"listed", "read"} => n \in detached
           /\ \A y \in Syncs : pc[y] \in {"market", "read"} /\ y \notin detached =>
                got[y].market # Suspended("FEED_UNAVAILABLE")
  PROVE  FirmInv'
BY CallsAreOfOneKind DEF FirmInv, Firm, Suspended

(* The feed's own write of the event, and what ends the market. *)
LEMMA EndStep ==
  ASSUME IInv, SyncEvent \/ Settle
  PROVE  Core'
<1>1. UNCHANGED betVars /\ UNCHANGED callVars
  BY DEF SyncEvent, Settle
<1>2. BetT' /\ SavedInv' /\ BetInv' /\ CallT' /\ GoalInv'
  BY <1>1, BetsKept, CallsKept
<1>3. UNCHANGED <<placing, saved, pc, got, detached>>
  BY <1>1 DEF betVars, callVars
<1>4. CASE SyncEvent
  <2>1. /\ event' \in {"LIVE", "FINISHED"} /\ UNCHANGED <<market, price, version, decided, hold>>
        /\ writes < MaxWrites /\ writes' = writes + 1
    BY <1>4 DEF SyncEvent
  <2>2. StoresT' /\ RestT'
    BY <2>1, HasCore, MarketAssumption DEF Core, StoresT, RestT
  <2>3. FirmInv'
    BY <1>3, <2>1, HasCore DEF Core, FirmInv, Firm, Suspended
  <2> QED
    BY <1>2, <2>2, <2>3 DEF Core
<1>5. CASE Settle
  <2>1. /\ market' = [market EXCEPT !.status = "SETTLED"] /\ event' = "FINISHED"
        /\ decided' = TRUE /\ hold' = "none" /\ UNCHANGED <<price, version, writes>>
    BY <1>5 DEF Settle
  <2>2. market' \in MarketRow
    BY <2>1, HasCore DEF Core, StoresT, MarketRow
  <2>3. StoresT' /\ RestT' /\ FirmInv'
    BY <2>1, <2>2, HasCore DEF Core, StoresT, RestT, FirmInv
  <2> QED
    BY <1>2, <2>3 DEF Core
<1> QED
  BY <1>4, <1>5

(* A call reads what it needs and goes on. *)
LEMMA ReadStep ==
  ASSUME IInv, NEW c \in Calls, NEW where \in Places, Go(c, where),
         UNCHANGED <<stores, betVars, detached, writes, hold>>,
         NEW r \in Reading, got' = [got EXCEPT ![c] = r],
         NEW left \in SUBSET Selections, todo' = [todo EXCEPT ![c] = left],
         c \in Goals /\ where = "read" => left # {},
         hold = "firm" /\ c \in Scans /\ where \in {"listed", "read"} => c \in detached,
         hold = "firm" /\ c \in Syncs /\ where \in {"market", "read"} /\ c \notin detached =>
           r.market # Suspended("FEED_UNAVAILABLE")
  PROVE  Core'
<1>1. /\ pc' \in [Calls -> Places] /\ pc'[c] = where
      /\ \A d \in Calls \ {c} : pc'[d] = pc[d]
  BY GoMoves
<1>2. /\ got'[c] = r /\ todo'[c] = left
      /\ \A d \in Calls \ {c} : got'[d] = got[d] /\ todo'[d] = todo[d]
      /\ CallT'
  BY <1>1, HasCore DEF Core, CallT
<1>3. GoalInv'
  BY <1>1, <1>2, HasCore, CallsAreOfOneKind DEF Core, GoalInv
<1>4. UNCHANGED <<market, hold, betVars>>
  BY DEF stores
<1>5. FirmInv'
  BY <1>1, <1>2, <1>4, FirmKept
<1>6. StoresT' /\ RestT'
  BY HasCore DEF Core, StoresT, RestT, stores
<1> QED
  BY <1>2, <1>3, <1>5, <1>6, BetsKept DEF Core

(* A suspension by the desk, for a goal or for exposure. *)
LEMMA SuspendStep ==
  ASSUME IInv, NEW c \in Calls, c \notin Scans, c \notin Syncs,
         NEW where \in {"suspended", "done"}, Finish(c, where), UNCHANGED todo,
         NEW reason \in Reasons \ {"NONE", "FEED_UNAVAILABLE"},
         Suspend(reason) \/ UNCHANGED <<market, hold>>,
         UNCHANGED <<event, price, version, decided, betVars, writes>>
  PROVE  Core'
<1>1. /\ todo' = [todo EXCEPT ![c] = todo[c]] /\ todo[c] \in SUBSET Selections
      /\ UNCHANGED <<placing, saved>>
  BY HasCore DEF Core, CallT, betVars
<1>2. /\ \A d \in Calls \ {c} : /\ pc'[d] = pc[d] /\ got'[d] = got[d] /\ todo'[d] = todo[d]
                               /\ (d \in detached' <=> d \in detached)
      /\ CallT' /\ pc'[c] = where
  BY <1>1, FinishMoves
<1>3. GoalInv'
  BY <1>2, HasCore, CallsAreOfOneKind DEF Core, GoalInv
<1>4. CASE Suspend(reason)
  <2>1. StoresT' /\ RestT'
    BY <1>1, <1>4, SuspendedFirm, HasCore DEF Core, StoresT, RestT
  <2>2. FirmInv'
    BY <1>1, <1>2, <1>4, SuspendedFirm, FirmWritten
  <2> QED
    BY <1>2, <1>3, <2>1, <2>2, BetsKept DEF Core
<1>5. CASE UNCHANGED <<market, hold>>
  <2>1. StoresT' /\ RestT'
    BY <1>5, HasCore DEF Core, StoresT, RestT
  <2>2. FirmInv'
    BY <1>2, <1>5, FirmKept
  <2> QED
    BY <1>2, <1>3, <2>1, <2>2, BetsKept DEF Core
<1> QED
  BY <1>4, <1>5

(* A suspension is lifted, whoever had decided it. *)
LEMMA ResumeStep ==
  ASSUME IInv, NEW c \in Calls, c \notin Scans, c \notin Syncs, ResumeBy(c)
  PROVE  Core'
<1>1. /\ Finish(c, "done") /\ UNCHANGED <<event, price, version, decided, betVars, todo, writes>>
      /\ (market' = Opened /\ hold' = "none") \/ UNCHANGED <<market, hold>>
  BY DEF ResumeBy
<1>2. todo' = [todo EXCEPT ![c] = todo[c]] /\ todo[c] \in SUBSET Selections
  BY <1>1, HasCore DEF Core, CallT
<1>3. /\ \A d \in Calls \ {c} : /\ pc'[d] = pc[d] /\ got'[d] = got[d] /\ todo'[d] = todo[d]
                               /\ (d \in detached' <=> d \in detached)
      /\ CallT' /\ pc'[c] = "done"
  BY <1>1, <1>2, FinishMoves
<1>4. GoalInv'
  BY <1>3, HasCore, CallsAreOfOneKind DEF Core, GoalInv
<1>5. StoresT' /\ RestT'
  BY <1>1, Rows, HasCore DEF Core, StoresT, RestT
<1>6. FirmInv'
  <2>1. CASE hold' = "none"
    BY <2>1 DEF FirmInv
  <2>2. CASE UNCHANGED <<market, hold>>
    BY <1>1, <1>3, <2>2, FirmKept
  <2> QED
    BY <1>1, <2>1, <2>2
<1> QED
  BY <1>1, <1>3, <1>4, <1>5, <1>6, BetsKept DEF Core

(* A call of another kind than a sync or a scan goes on and writes nothing. *)
LEMMA GoStep ==
  ASSUME IInv, NEW c \in Calls, c \notin Scans, c \notin Syncs, NEW where \in Places \ {"read"},
         Go(c, where), UNCHANGED <<stores, betVars, got, todo, detached, writes, hold>>
  PROVE  Core'
<1>1. /\ got' = [got EXCEPT ![c] = got[c]] /\ got[c] \in Reading
      /\ todo' = [todo EXCEPT ![c] = todo[c]] /\ todo[c] \in SUBSET Selections
  BY HasCore DEF Core, CallT
<1> QED
  BY <1>1, ReadStep

(* The desk suspends and resumes the market by hand. *)
LEMMA DeskStep ==
  ASSUME IInv, NEW d \in Desks, Desk(d) \/ DeskSuspends(d) \/ DeskResumes(d)
  PROVE  Core'
<1>0. d \in Calls /\ d \notin Scans /\ d \notin Syncs
  BY CallsAreOfOneKind
<1>1. CASE Desk(d)
  <2>1. /\ Go(d, "suspending") \/ Go(d, "resuming")
        /\ UNCHANGED <<stores, betVars, got, todo, detached, writes, hold>>
    BY <1>1 DEF Desk
  <2>2. "suspending" \in Places \ {"read"} /\ "resuming" \in Places \ {"read"}
    BY DEF Places
  <2> QED
    BY <1>0, <2>1, <2>2, GoStep
<1>2. CASE DeskSuspends(d)
  <2>1. /\ Finish(d, "done") /\ UNCHANGED todo
        /\ Suspend("MANUAL") \/ UNCHANGED <<market, hold>>
        /\ UNCHANGED <<event, price, version, decided, betVars, writes>>
    BY <1>2 DEF DeskSuspends, SuspendBy
  <2>2. "MANUAL" \in Reasons \ {"NONE", "FEED_UNAVAILABLE"}
    BY DEF Reasons
  <2> QED
    BY <1>0, <2>1, <2>2, SuspendStep
<1>3. CASE DeskResumes(d)
  BY <1>0, <1>3, ResumeStep DEF DeskResumes
<1> QED
  BY <1>1, <1>2, <1>3

(* An update writes the price the desk gives, with the next version. *)
LEMMA UpdateStep ==
  ASSUME IInv, NEW u \in Updates, StartUpdate(u) \/ EndUpdate(u)
  PROVE  Core'
<1>0. u \in Calls /\ u \notin Goals /\ u \notin Scans /\ u \notin Syncs
  BY CallsAreOfOneKind
<1>1. CASE StartUpdate(u)
  <2>1. /\ Go(u, "read") /\ got' = [got EXCEPT ![u] = [got[u] EXCEPT !.version = version]]
        /\ UNCHANGED <<stores, betVars, detached, writes, hold>> /\ UNCHANGED todo
    BY <1>1 DEF StartUpdate, ReadVersion
  <2>2. [got[u] EXCEPT !.version = version] \in Reading
    BY <1>0, HasCore, Readings DEF Core, CallT, StoresT
  <2>3. todo' = [todo EXCEPT ![u] = todo[u]] /\ todo[u] \in SUBSET Selections
    BY <1>0, <2>1, HasCore DEF Core, CallT
  <2>4. "read" \in Places
    BY DEF Places
  <2> QED
    BY <1>0, <2>1, <2>2, <2>3, <2>4, ReadStep
<1>2. CASE EndUpdate(u)
  <2>1. /\ IF Admitted(OddsOf[u]) THEN WritePrice(u, OnOf[u], OddsOf[u])
           ELSE UNCHANGED <<price, version>>
        /\ Finish(u, "done") /\ UNCHANGED todo
        /\ UNCHANGED <<market, event, decided, betVars, writes, hold>>
    BY <1>2 DEF EndUpdate
  <2>2. OnOf[u] \in Selections /\ OddsOf[u] \in Nat
    BY MarketAssumption
  <2>3. StoresT' /\ RestT'
    BY <1>0, <2>1, <2>2, PriceWritten, HasCore DEF Core, StoresT, RestT
  <2>4. todo' = [todo EXCEPT ![u] = todo[u]] /\ todo[u] \in SUBSET Selections
    BY <1>0, <2>1, HasCore DEF Core, CallT
  <2>5. /\ \A d \in Calls \ {u} : /\ pc'[d] = pc[d] /\ got'[d] = got[d] /\ todo'[d] = todo[d]
                                 /\ (d \in detached' <=> d \in detached)
        /\ CallT'
    BY <1>0, <2>1, <2>4, FinishMoves
  <2>6. GoalInv'
    BY <1>0, <2>5, HasCore, CallsAreOfOneKind DEF Core, GoalInv
  <2>7. FirmInv'
    BY <1>0, <2>1, <2>5, FirmKept
  <2> QED
    BY <2>1, <2>3, <2>5, <2>6, <2>7, BetsKept DEF Core
<1> QED
  BY <1>1, <1>2

(* A goal suspends, sets prices and lifts its own suspension. *)
LEMMA GoalStep ==
  ASSUME IInv, NEW g \in Goals,
         \/ Goal(g) \/ GoalSuspends(g) \/ CountGoal(g) \/ StartGoalPrice(g)
         \/ EndGoalPrice(g) \/ EndGoal(g) \/ GoalResumes(g)
  PROVE  Core'
<1>0. g \in Calls /\ g \notin Scans /\ g \notin Syncs
  BY CallsAreOfOneKind
<1>1. CASE Goal(g) \/ EndGoal(g)
  <2>1. /\ Go(g, "suspending") \/ Go(g, "resuming")
        /\ UNCHANGED <<stores, betVars, got, todo, detached, writes, hold>>
    BY <1>1 DEF Goal, EndGoal
  <2>2. "suspending" \in Places \ {"read"} /\ "resuming" \in Places \ {"read"}
    BY DEF Places
  <2> QED
    BY <1>0, <2>1, <2>2, GoStep
<1>2. CASE CountGoal(g)
  <2>1. /\ event' = "LIVE" /\ Go(g, "scored") /\ todo' = [todo EXCEPT ![g] = Selections]
        /\ UNCHANGED <<market, price, version, decided, betVars, got, detached, writes, hold>>
    BY <1>2 DEF CountGoal
  <2>2. /\ pc' \in [Calls -> Places] /\ pc'[g] = "scored"
        /\ \A d \in Calls \ {g} : pc'[d] = pc[d]
    BY <1>0, <2>1, GoMoves DEF Places
  <2>3. StoresT' /\ RestT'
    BY <2>1, HasCore DEF Core, StoresT, RestT
  <2>4. CallT'
    BY <1>0, <2>1, <2>2, HasCore DEF Core, CallT
  <2>5. GoalInv'
    BY <2>1, <2>2, HasCore, CallsAreOfOneKind DEF Core, CallT, GoalInv
  <2>6. FirmInv'
    BY <1>0, <2>1, <2>2, FirmKept
  <2> QED
    BY <2>1, <2>3, <2>4, <2>5, <2>6, BetsKept DEF Core
<1>3. CASE StartGoalPrice(g)
  <2>1. /\ Go(g, "read") /\ got' = [got EXCEPT ![g] = [got[g] EXCEPT !.version = version]]
        /\ UNCHANGED <<stores, betVars, detached, writes, hold>> /\ UNCHANGED todo /\ todo[g] # {}
    BY <1>3 DEF StartGoalPrice, ReadVersion
  <2>2. [got[g] EXCEPT !.version = version] \in Reading
    BY <1>0, HasCore, Readings DEF Core, CallT, StoresT
  <2>3. todo' = [todo EXCEPT ![g] = todo[g]] /\ todo[g] \in SUBSET Selections
    BY <1>0, <2>1, HasCore DEF Core, CallT
  <2>4. "read" \in Places
    BY DEF Places
  <2> QED
    BY <1>0, <2>1, <2>2, <2>3, <2>4, ReadStep
<1>4. CASE EndGoalPrice(g)
  <2>1. PICK s \in todo[g] : /\ WritePrice(g, s, GoalPrice[s])
                             /\ todo' = [todo EXCEPT ![g] = todo[g] \ {s}]
                             /\ Finish(g, "scored")
                             /\ UNCHANGED <<market, event, decided, betVars, writes, hold>>
    <3>1. Following(g) \in todo[g]
      BY <1>4, HasCore DEF Core, GoalInv, EndGoalPrice, Following
    <3> QED
      BY <1>4, <3>1 DEF EndGoalPrice
  <2>2. s \in Selections /\ todo[g] \ {s} \in SUBSET Selections
    BY <1>0, HasCore DEF Core, CallT
  <2>3. GoalPrice[s] \in Nat
    BY <2>2, MarketAssumption
  <2>4. StoresT' /\ RestT'
    BY <1>0, <2>1, <2>2, <2>3, PriceWritten, HasCore DEF Core, StoresT, RestT
  <2>5. /\ \A d \in Calls \ {g} : /\ pc'[d] = pc[d] /\ got'[d] = got[d] /\ todo'[d] = todo[d]
                                 /\ (d \in detached' <=> d \in detached)
        /\ CallT' /\ pc'[g] = "scored"
    BY <1>0, <2>1, <2>2, FinishMoves
  <2>6. GoalInv'
    BY <1>0, <2>5, HasCore, CallsAreOfOneKind DEF Core, GoalInv
  <2>7. FirmInv'
    BY <1>0, <2>1, <2>5, FirmKept
  <2> QED
    BY <2>1, <2>4, <2>5, <2>6, <2>7, BetsKept DEF Core
<1>5. CASE GoalSuspends(g)
  <2>1. /\ Finish(g, "suspended") /\ UNCHANGED todo
        /\ Suspend("GOAL_SCORED") \/ UNCHANGED <<market, hold>>
        /\ UNCHANGED <<event, price, version, decided, betVars, writes>>
    BY <1>5 DEF GoalSuspends, SuspendBy
  <2>2. "GOAL_SCORED" \in Reasons \ {"NONE", "FEED_UNAVAILABLE"}
    BY DEF Reasons
  <2> QED
    BY <1>0, <2>1, <2>2, SuspendStep
<1>6. CASE GoalResumes(g)
  BY <1>0, <1>6, ResumeStep DEF GoalResumes
<1> QED
  BY <1>1, <1>2, <1>3, <1>4, <1>5, <1>6

(* A sync writes the market by an old reading: what keeps it from lifting  *)
(* a firm suspension is that a reading before it would have made it raced. *)
LEMMA SyncStep ==
  ASSUME IInv, NEW y \in Syncs,
         Fetch(y) \/ ReadMarket(y) \/ ReadSelections(y) \/ WriteSelection(y) \/ WriteMarket(y)
  PROVE  Core'
<1>0. y \in Calls /\ y \notin Scans /\ y \notin Goals /\ got[y] \in Reading
  BY CallsAreOfOneKind, HasCore DEF Core, CallT
<1>1. todo = [todo EXCEPT ![y] = todo[y]] /\ todo[y] \in SUBSET Selections
  BY <1>0, HasCore DEF Core, CallT
<1>2. CASE Fetch(y)
  <2>1. PICK odds \in [Selections -> Prices] :
          got' = [got EXCEPT ![y].feed = {<<s, odds[s]>> : s \in Selections}]
    BY <1>2 DEF Fetch
  <2> DEFINE feed == {<<s, odds[s]>> : s \in Selections}
  <2>2. feed \in SUBSET (Selections \X Prices)
    OBVIOUS
  <2>3. /\ Go(y, "fetched") /\ got' = [got EXCEPT ![y] = [got[y] EXCEPT !.feed = feed]]
        /\ UNCHANGED <<stores, betVars, detached, writes, hold>> /\ UNCHANGED todo
    BY <1>2, <2>1 DEF Fetch
  <2> HIDE DEF feed
  <2>4. [got[y] EXCEPT !.feed = feed] \in Reading /\ "fetched" \in Places
    BY <1>0, <2>2, Readings DEF Places
  <2> QED
    BY <1>0, <1>1, <2>3, <2>4, ReadStep
<1>3. CASE ReadMarket(y)
  <2>1. /\ Go(y, "market") /\ got' = [got EXCEPT ![y] = [got[y] EXCEPT !.market = market]]
        /\ UNCHANGED <<stores, betVars, detached, writes, hold>> /\ UNCHANGED todo
    BY <1>3 DEF ReadMarket
  <2>2. [got[y] EXCEPT !.market = market] \in Reading /\ "market" \in Places
    BY <1>0, HasCore, Readings DEF Core, StoresT, Places
  <2>3. [got[y] EXCEPT !.market = market].market = market
    BY <1>0 DEF Reading
  <2>4. hold = "firm" => market # Suspended("FEED_UNAVAILABLE")
    BY HasCore DEF Core, FirmInv, Firm, Suspended
  <2> QED
    BY <1>0, <1>1, <2>1, <2>2, <2>3, <2>4, ReadStep
<1>4. CASE ReadSelections(y)
  <2> DEFINE left == {s \in Selections : <<s, price[s]>> \notin got[y].feed}
  <2>1. /\ Go(y, "read") /\ got' = [got EXCEPT ![y] = [got[y] EXCEPT !.version = version]]
        /\ UNCHANGED <<stores, betVars, detached, writes, hold>>
        /\ todo' = [todo EXCEPT ![y] = left] /\ left \in SUBSET Selections
        /\ pc[y] = "market"
    BY <1>4 DEF ReadSelections
  <2> HIDE DEF left
  <2>2. [got[y] EXCEPT !.version = version] \in Reading /\ "read" \in Places
    BY <1>0, HasCore, Readings DEF Core, StoresT, Places
  <2>3. [got[y] EXCEPT !.version = version].market = got[y].market
    BY <1>0 DEF Reading
  <2>4. hold = "firm" /\ y \notin detached => got[y].market # Suspended("FEED_UNAVAILABLE")
    BY <2>1, HasCore DEF Core, FirmInv
  <2> QED
    BY <1>0, <2>1, <2>2, <2>3, <2>4, ReadStep
<1>5. CASE WriteSelection(y)
  <2>1. /\ todo[y] # {} /\ UNCHANGED <<market, event, decided, betVars, pc, got, detached, writes, hold>>
        /\ todo' = [todo EXCEPT ![y] = @ \ {Following(y)}]
        /\ \E q \in Prices : WritePrice(y, Following(y), q)
    BY <1>5 DEF WriteSelection
  <2>2. Following(y) \in todo[y]
    BY <2>1 DEF Following
  <2>3. PICK s \in Selections, q \in Nat :
             WritePrice(y, s, q) /\ todo' = [todo EXCEPT ![y] = todo[y] \ {s}]
    <3>1. PICK q \in Prices : WritePrice(y, Following(y), q)
      BY <2>1
    <3>2. q \in Nat /\ Following(y) \in Selections
      BY <1>1, <2>2, MarketAssumption
    <3> QED
      BY <2>1, <3>1, <3>2
  <2>4. StoresT' /\ RestT'
    BY <1>0, <2>1, <2>3, PriceWritten, HasCore DEF Core, StoresT, RestT
  <2>5. CallT'
    BY <1>0, <1>1, <2>1, <2>3, HasCore DEF Core, CallT
  <2>6. GoalInv'
    BY <1>0, <2>1, <2>3, HasCore, CallsAreOfOneKind DEF Core, CallT, GoalInv
  <2>7. FirmInv'
    BY <2>1, HasCore DEF Core, FirmInv, Firm, Suspended, betVars
  <2> QED
    BY <2>1, <2>4, <2>5, <2>6, <2>7, BetsKept DEF Core
<1>6. CASE WriteMarket(y)
  <2>1. /\ pc[y] = "read" /\ Finish(y, "done") /\ UNCHANGED todo
        /\ UNCHANGED <<event, price, version, decided, betVars, writes, hold>>
        /\ market' = market \/ (Attached(y) /\ Lifts(got[y].market) /\ market' = Opened)
    BY <1>6 DEF WriteMarket
  <2>2. /\ \A d \in Calls \ {y} : /\ pc'[d] = pc[d] /\ got'[d] = got[d] /\ todo'[d] = todo[d]
                                 /\ (d \in detached' <=> d \in detached)
        /\ CallT' /\ pc'[y] = "done"
    BY <1>0, <1>1, <2>1, FinishMoves
  <2>3. StoresT' /\ RestT'
    BY <2>1, Rows, HasCore DEF Core, StoresT, RestT
  <2>4. GoalInv'
    BY <1>0, <2>2, HasCore, CallsAreOfOneKind DEF Core, GoalInv
  <2>5. hold = "firm" => market' = market
    <3>1. got[y].market \in MarketRow
      BY <1>0 DEF Reading
    <3> QED
      BY <2>1, <3>1, Rows, HasCore DEF Core, FirmInv, Attached
  <2>6. FirmInv'
    <3>1. CASE market' = market
      BY <1>0, <2>1, <2>2, <3>1, FirmKept
    <3>2. CASE hold # "firm"
      BY <2>1, <3>2 DEF FirmInv
    <3> QED
      BY <2>5, <3>1, <3>2
  <2> QED
    BY <2>1, <2>2, <2>3, <2>4, <2>6, BetsKept DEF Core
<1> QED
  BY <1>2, <1>3, <1>4, <1>5, <1>6

(* A scan suspends only a market it has listed as active. *)
LEMMA ScanStep ==
  ASSUME IInv, NEW n \in Scans, ListMarkets(n) \/ LookAtEvent(n) \/ SuspendStale(n)
  PROVE  Core'
<1>0. n \in Calls /\ n \notin Syncs /\ n \notin Goals /\ got[n] \in Reading
  BY CallsAreOfOneKind, HasCore DEF Core, CallT
<1>1. /\ todo = [todo EXCEPT ![n] = todo[n]] /\ todo[n] \in SUBSET Selections
      /\ got = [got EXCEPT ![n] = got[n]]
  BY <1>0, HasCore DEF Core, CallT
<1>2. CASE ListMarkets(n)
  <2>1. /\ Go(n, "listed") /\ market.status = "ACTIVE" /\ UNCHANGED <<got, todo>>
        /\ UNCHANGED <<stores, betVars, detached, writes, hold>>
    BY <1>2 DEF ListMarkets
  <2>2. hold # "firm"
    BY <2>1, HasCore DEF Core, FirmInv, Firm
  <2>3. "listed" \in Places
    BY DEF Places
  <2> QED
    BY <1>0, <1>1, <2>1, <2>2, <2>3, ReadStep
<1>3. CASE LookAtEvent(n) /\ Go(n, "read") /\ UNCHANGED <<got, detached>>
  <2>1. /\ pc[n] = "listed" /\ UNCHANGED <<got, todo>>
        /\ UNCHANGED <<stores, betVars, detached, writes, hold>>
    BY <1>3 DEF LookAtEvent
  <2>2. hold = "firm" => n \in detached
    BY <2>1, HasCore DEF Core, FirmInv
  <2>3. "read" \in Places
    BY DEF Places
  <2> QED
    BY <1>0, <1>1, <1>3, <2>1, <2>2, <2>3, ReadStep
<1>4. CASE (LookAtEvent(n) /\ Finish(n, "done")) \/ SuspendStale(n)
  <2>1. /\ Finish(n, "done") /\ UNCHANGED todo
        /\ UNCHANGED <<event, price, version, decided, betVars, writes, hold>>
        /\ market' = market
             \/ (pc[n] = "read" /\ Attached(n) /\ market' = Suspended("FEED_UNAVAILABLE"))
    BY <1>4 DEF LookAtEvent, SuspendStale, stores
  <2>2. /\ \A d \in Calls \ {n} : /\ pc'[d] = pc[d] /\ got'[d] = got[d] /\ todo'[d] = todo[d]
                                 /\ (d \in detached' <=> d \in detached)
        /\ CallT' /\ pc'[n] = "done"
    BY <1>0, <1>1, <2>1, FinishMoves
  <2>3. Suspended("FEED_UNAVAILABLE") \in MarketRow
    BY Rows DEF Reasons
  <2>4. StoresT' /\ RestT'
    BY <2>1, <2>3, HasCore DEF Core, StoresT, RestT
  <2>5. GoalInv'
    BY <1>0, <2>2, HasCore, CallsAreOfOneKind DEF Core, GoalInv
  <2>6. hold = "firm" => market' = market
    BY <2>1, HasCore DEF Core, FirmInv, Attached
  <2>7. FirmInv'
    <3>1. CASE market' = market
      BY <1>0, <2>1, <2>2, <3>1, FirmKept
    <3>2. CASE hold # "firm"
      BY <2>1, <3>2 DEF FirmInv
    <3> QED
      BY <2>6, <3>1, <3>2
  <2> QED
    BY <2>1, <2>2, <2>4, <2>5, <2>7, BetsKept DEF Core
<1> QED
  BY <1>2, <1>3, <1>4 DEF LookAtEvent

(* An exposure check may suspend the market. *)
LEMMA CheckStep ==
  ASSUME IInv, NEW e \in Checks, CountExposure(e) \/ ValidateExposure(e)
  PROVE  Core'
<1>0. e \in Calls /\ e \notin Syncs /\ e \notin Goals /\ e \notin Scans /\ got[e] \in Reading
  BY CallsAreOfOneKind, HasCore DEF Core, CallT
<1>1. todo = [todo EXCEPT ![e] = todo[e]] /\ todo[e] \in SUBSET Selections
  BY <1>0, HasCore DEF Core, CallT
<1>2. CASE CountExposure(e)
  <2>1. PICK n \in Nat : got' = [got EXCEPT ![e] = [got[e] EXCEPT !.exposure = n]]
    BY <1>2, ExposureType DEF CountExposure
  <2>2. /\ Go(e, "counted") /\ UNCHANGED todo
        /\ UNCHANGED <<stores, betVars, detached, writes, hold>>
    BY <1>2 DEF CountExposure
  <2>3. [got[e] EXCEPT !.exposure = n] \in Reading /\ "counted" \in Places
    BY <1>0, Readings DEF Places
  <2> QED
    BY <1>0, <1>1, <2>1, <2>2, <2>3, ReadStep
<1>3. CASE ValidateExposure(e)
  <2>1. /\ Finish(e, "done") /\ UNCHANGED todo
        /\ UNCHANGED <<event, price, version, decided, betVars, writes>>
        /\ Suspend("EXPOSURE_LIMIT_EXCEEDED") \/ UNCHANGED <<market, hold>>
    BY <1>3 DEF ValidateExposure
  <2>2. "EXPOSURE_LIMIT_EXCEEDED" \in Reasons \ {"NONE", "FEED_UNAVAILABLE"}
    BY DEF Reasons
  <2> QED
    BY <1>0, <2>1, <2>2, SuspendStep
<1> QED
  BY <1>2, <1>3

(* A placement, with the rollback that puts the saved stores back: the     *)
(* suspension is in those too when it is firm.                             *)
LEMMA BetStep ==
  ASSUME IInv, NEW b \in Bets,
         BeginBet(b) \/ ReadSelection(b) \/ VerifyMarket(b) \/ AcceptBet(b) \/ RefuseBet(b)
  PROVE  Core'
<1>0. /\ bet \in [Bets -> {"none", "begun", "priced", "unfit", "verified", "placed", "refused"}]
      /\ NoBet \notin Bets /\ BetT
  BY MarketAssumption, HasCore DEF Core, BetT
<1>1. CASE BeginBet(b)
  <2>1. /\ placing = NoBet /\ bet' = [bet EXCEPT ![b] = "begun"] /\ placing' = b
        /\ saved' = <<Current>> /\ UNCHANGED <<stores, callVars, writes, hold>>
    BY <1>1 DEF BeginBet
  <2>2. Current \in Stores
    BY DEF IInv, TypeOK
  <2>3. saved' \in Seq(Stores) /\ Len(saved') = 1 /\ saved'[1] = Current
    BY <2>1, <2>2
  <2>4. /\ saved'[1].market = market /\ saved'[1].price = price /\ saved'[1].version = version
    BY <2>3 DEF Current
  <2>5. BetT' /\ BetInv'
    BY <1>0, <2>1, <2>3, HasCore DEF Core, BetT, BetInv
  <2>6. StoresT' /\ RestT' /\ SavedInv'
    BY <2>1, <2>4, HasCore DEF Core, StoresT, RestT, SavedInv, stores
  <2>7. FirmInv'
    BY <2>1, <2>4, HasCore DEF Core, FirmInv, Firm, Suspended, stores, callVars
  <2> QED
    BY <2>1, <2>5, <2>6, <2>7, CallsKept DEF Core
<1>2. CASE ReadSelection(b) \/ VerifyMarket(b)
  <2>1. PICK now \in {"priced", "unfit", "verified"} :
             /\ bet[b] \in {"begun", "priced"} /\ bet' = [bet EXCEPT ![b] = now]
             /\ UNCHANGED <<stores, placing, saved, callVars, writes, hold>>
    BY <1>2 DEF ReadSelection, VerifyMarket
  <2>2. BetT' /\ BetInv'
    BY <1>0, <2>1, HasCore DEF Core, BetT, BetInv
  <2>3. StoresT' /\ RestT' /\ SavedInv'
    BY <2>1, HasCore DEF Core, StoresT, RestT, SavedInv, stores
  <2>4. FirmInv'
    BY <2>1, HasCore DEF Core, FirmInv, Firm, Suspended, stores, callVars
  <2> QED
    BY <2>1, <2>2, <2>3, <2>4, CallsKept DEF Core
<1>3. CASE AcceptBet(b)
  <2>1. /\ bet[b] = "verified" /\ bet' = [bet EXCEPT ![b] = "placed"]
        /\ placing' = NoBet /\ saved' = <<>> /\ UNCHANGED <<stores, callVars, writes, hold>>
    BY <1>3 DEF AcceptBet
  <2>2. placing = b
    BY <2>1, HasCore DEF Core, BetInv
  <2>3. BetT' /\ BetInv'
    BY <1>0, <2>1, <2>2, HasCore DEF Core, BetT, BetInv
  <2>4. StoresT' /\ RestT' /\ SavedInv'
    BY <2>1, HasCore DEF Core, StoresT, RestT, SavedInv, stores
  <2>5. FirmInv'
    BY <2>1, HasCore DEF Core, FirmInv, Firm, Suspended, stores, callVars
  <2> QED
    BY <2>1, <2>3, <2>4, <2>5, CallsKept DEF Core
<1>4. CASE RefuseBet(b)
  <2>1. /\ bet[b] \in {"begun", "priced", "unfit", "verified"} /\ bet' = [bet EXCEPT ![b] = "refused"]
        /\ placing' = NoBet /\ saved' = <<>> /\ detached' = detached \cup InFlight
        /\ UNCHANGED <<pc, got, todo, writes, hold>>
        /\ market' = saved[1].market /\ event' = saved[1].event /\ price' = saved[1].price
        /\ version' = saved[1].version /\ decided' = saved[1].decided
    BY <1>4 DEF RefuseBet, Restore
  <2>2. placing = b
    BY <2>1, HasCore DEF Core, BetInv
  <2>3. saved[1] \in Stores
    BY <1>0, <2>2 DEF BetT
  <2>4. BetT' /\ BetInv'
    BY <1>0, <2>1, <2>2, HasCore DEF Core, BetT, BetInv
  <2>5. StoresT' /\ RestT' /\ SavedInv'
    BY <1>0, <2>1, <2>2, <2>3, HasCore DEF Core, StoresT, RestT, SavedInv, Stores
  <2>6. FirmInv'
    BY <1>0, <2>1, <2>2, HasCore DEF Core, FirmInv, Firm, Suspended
  <2>7. CallT' /\ GoalInv'
    BY <2>1, HasCore DEF Core, CallT, GoalInv, InFlight
  <2> QED
    BY <2>1, <2>4, <2>5, <2>6, <2>7 DEF Core
<1> QED
  BY <1>1, <1>2, <1>3, <1>4

(* The steps together. *)
LEMMA CoreKept ==
  ASSUME IInv, Next
  PROVE  Core'
BY EndStep, DeskStep, UpdateStep, GoalStep, SyncStep, ScanStep, CheckStep, BetStep DEF Next

-----------------------------------------------------------------------------
(* What each step does to the placements and to the results. *)
LEMMA BetMoves ==
  ASSUME IInv, Next
  PROVE  \/ UNCHANGED <<betVars, decided>>
         \/ Settle
         \/ \E b \in Bets : BeginBet(b)
         \/ \E b \in Bets : ReadSelection(b) \/ VerifyMarket(b)
         \/ \E b \in Bets : AcceptBet(b) \/ RefuseBet(b)
BY DEF Next, stores, SyncEvent, Desk, DeskSuspends, DeskResumes, SuspendBy, ResumeBy, StartUpdate,
       EndUpdate, Goal, GoalSuspends, CountGoal, StartGoalPrice, EndGoalPrice, EndGoal, GoalResumes,
       Fetch, ReadMarket, ReadSelections, WriteSelection, WriteMarket, ListMarkets, LookAtEvent,
       SuspendStale, CountExposure, ValidateExposure

(* The results come in when no placement runs, and a refusal that takes    *)
(* them back ends the only placement there is.                             *)
LEMMA ResultStep ==
  ASSUME IInv, Next
  PROVE  ResultInv'
<1>1. /\ bet \in [Bets -> {"none", "begun", "priced", "unfit", "verified", "placed", "refused"}]
      /\ BetInv' /\ NoBet \notin Bets
  BY CoreKept, HasCore, MarketAssumption DEF Core, BetT
<1>2. CASE UNCHANGED <<betVars, decided>>
  BY <1>2 DEF IInv, ResultInv, betVars
<1>3. CASE Settle
  BY <1>1, <1>3 DEF IInv, BetInv, ResultInv, Settle, betVars
<1>4. CASE \E b \in Bets : BeginBet(b)
  BY <1>1, <1>4 DEF IInv, ResultInv, BeginBet, stores
<1>5. CASE \E b \in Bets : ReadSelection(b) \/ VerifyMarket(b)
  <2>1. PICK b \in Bets : ReadSelection(b) \/ VerifyMarket(b)
    BY <1>5
  <2>2. /\ decided' = decided /\ bet' = [bet EXCEPT ![b] = bet'[b]]
        /\ bet'[b] \in {"priced", "verified"} => ~decided
    BY <1>1, <2>1 DEF IInv, ResultInv, ReadSelection, VerifyMarket, stores
  <2> QED
    BY <1>1, <2>2 DEF IInv, ResultInv
<1>6. CASE \E b \in Bets : AcceptBet(b) \/ RefuseBet(b)
  <2>1. placing' = NoBet
    BY <1>6 DEF AcceptBet, RefuseBet
  <2> QED
    BY <1>1, <2>1 DEF BetInv, ResultInv
<1> QED
  BY <1>2, <1>3, <1>4, <1>5, <1>6, BetMoves

-----------------------------------------------------------------------------
(* The invariant holds of the first state. *)
LEMMA InitEstablishes == Init => IInv
<1> SUFFICES ASSUME Init PROVE IInv
  OBVIOUS
<1> USE DEF Init
<1>1. StoresT /\ BetT /\ CallT /\ RestT
  <2>1. Opening \in Nat
    BY MarketAssumption
  <2>2. saved \in Seq(Stores) /\ Len(saved) = 0
    OBVIOUS
  <2>3. StoresT
    <3>1. /\ price \in [Selections -> Nat]
          /\ version \in [Selections -> Nat] /\ \A s \in Selections : version[s] > 0
      BY <2>1
    <3>2. market \in MarketRow /\ event = "SCHEDULED" /\ decided \in BOOLEAN
      BY Rows
    <3> QED
      BY <3>1, <3>2 DEF StoresT
  <2>4. BetT /\ CallT /\ RestT
    BY <2>2, Rows, MarketAssumption DEF BetT, CallT, RestT, Places
  <2> QED
    BY <2>3, <2>4
<1>2. TypeOK
  BY <1>1, Parts
<1>3. SavedInv /\ GoalInv /\ FirmInv /\ BetInv /\ ResultInv
  BY CallsAreOfOneKind DEF SavedInv, GoalInv, FirmInv, BetInv, ResultInv
<1> QED
  BY <1>2, <1>3 DEF IInv

(* The invariant is inductive. *)
LEMMA NextKeeps == IInv /\ [Next]_vars => IInv'
<1> SUFFICES ASSUME IInv, [Next]_vars PROVE IInv'
  OBVIOUS
<1>1. CASE Next
  BY <1>1, CoreKept, ResultStep, Parts DEF Core, IInv
<1>2. CASE UNCHANGED vars
  <2> USE <1>2 DEF vars
  <2>1. UNCHANGED <<stores, betVars, callVars, writes, hold>>
    OBVIOUS
  <2>2. BetT' /\ SavedInv' /\ BetInv' /\ CallT' /\ GoalInv'
    <3>1. UNCHANGED betVars /\ UNCHANGED callVars
      BY <2>1
    <3> QED
      BY <3>1, BetsKept, CallsKept
  <2>3. StoresT' /\ RestT'
    BY <2>1, HasCore DEF Core, StoresT, RestT, stores
  <2>4. FirmInv'
    BY <2>1, HasCore DEF Core, FirmInv, Firm, Suspended, stores, betVars, callVars
  <2>5. ResultInv'
    BY <2>1 DEF IInv, ResultInv, stores, betVars
  <2> QED
    BY <2>2, <2>3, <2>4, <2>5, Parts DEF IInv
<1> QED
  BY <1>1, <1>2 DEF Next

(* The stores, the calls in flight and what they have read fit together.   *)
THEOREM Invariance == Spec => []IInv
BY InitEstablishes, NextKeeps, PTL DEF Spec

(* The rows keep their types: no interleaving of the writers leaves a      *)
(* version that is not positive, or stores in which the status of the      *)
(* market, a reading or a saved copy is none.  Nothing is said of the size *)
(* of the odds: the feed writes what it is sent.                           *)
THEOREM TypeCorrect == Spec => []TypeOK
<1>1. IInv => TypeOK
  BY DEF IInv
<1> QED
  BY <1>1, Invariance, PTL

(* FirmHolds: a suspension by the desk, for a goal or for exposure, that   *)
(* raced with nothing, is not lifted by fresh odds, relabelled by the      *)
(* stale scan or undone by a refused placement.                            *)
THEOREM FirmStays == Spec => []FirmHolds
<1>1. IInv => FirmHolds
  BY DEF IInv, FirmInv, Firm, FirmHolds
<1> QED
  BY <1>1, Invariance, PTL

(* The step that accepts a bet finds the results not in. *)
LEMMA AcceptedStep ==
  ASSUME IInv, [Next]_vars, NEW b \in Bets, bet[b] # "placed", bet'[b] = "placed"
  PROVE  ~decided'
<1>1. Next
  BY DEF vars, betVars
<1>2. bet \in [Bets -> {"none", "begun", "priced", "unfit", "verified", "placed", "refused"}]
  BY DEF IInv, TypeOK
<1>3. AcceptBet(b)
  BY <1>1, <1>2, BetMoves
     DEF betVars, Settle, BeginBet, ReadSelection, VerifyMarket, AcceptBet, RefuseBet
<1> QED
  BY <1>3 DEF AcceptBet, stores, IInv, ResultInv

(* AcceptedBeforeResult: whatever is written between the readings of a     *)
(* placement, the bet it accepts is on a selection the book has no result  *)
(* for, so its settlement is still to come.                                *)
THEOREM AcceptedInTime == Spec => AcceptedBeforeResult
<1>1. IInv /\ [Next]_vars =>
        [\A b \in Bets : bet[b] # "placed" /\ bet'[b] = "placed" => ~decided']_vars
  BY AcceptedStep
<1> QED
  BY <1>1, Invariance, PTL DEF Spec, AcceptedBeforeResult
=============================================================================
