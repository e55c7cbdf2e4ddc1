------------------------------ MODULE Channels ------------------------------
(***************************************************************************)
(* UssdSimulator and SmsBettingParser: what a handset asks for, and the    *)
(* users, wallets, bets and cash-outs that come of it.  Whoever wants to   *)
(* pay in registers with AuthService and signs in; a handset cannot.       *)
(*                                                                         *)
(* A handler reads and writes outside any transaction, with an await after *)
(* each call of the stores, and the networks deliver a message again when  *)
(* they please.  placeBet and executeCashout are transactions, which run   *)
(* one at a time: what they do is done at their end, but a transaction     *)
(* that throws puts the stores back as they were when it began, and a      *)
(* creation in flight keeps the replaced stores and is lost.               *)
(***************************************************************************)
EXTENDS Cents, Sequences

CONSTANTS
    Deliveries, \* the requests and messages that arrive
    Web,        \* the registrations with AuthService
    PhoneOf,    \* the phone number of each of both
    MessageOf,  \* what each delivery says
    HasBetting, \* the deliveries to a channel that was given a betting service
    HasCashout, \* and those to a channel that was given a cash-out engine
    Phones,
    Matches,    \* the match codes that are registered
    PayoutOf,   \* the potential payout of the bet each delivery asks for
    Deposit,    \* how much a deposit brings, in cents
    MaxArrivals, \* how many of the deliveries arrive in one behaviour
    MaxDeposits, MaxTime, NoUser, NoBet

Callers == Deliveries \cup Web

Picks == {"1", "X", "2"}

(* A message names matches with their picks, or one team by an alias: the  *)
(* match it plays in, and "1" or "2" for the side it is.                   *)
ASSUME ChannelAssumption ==
    /\ IsFiniteSet(Deliveries) /\ NoUser \notin Callers /\ NoBet \notin Deliveries
    /\ Web \cap Deliveries = {} /\ PhoneOf \in [Callers -> Phones]
    /\ HasBetting \subseteq Deliveries /\ HasCashout \subseteq Deliveries
    /\ \A d \in Deliveries :
         /\ MessageOf[d].channel \in {"USSD", "SMS"}
         /\ MessageOf[d].kind \in {"screen", "ask", "bet", "cancel"}
         /\ MessageOf[d].stake \in Nat
         /\ MessageOf[d].legs \in Seq(STRING \X STRING)
         /\ MessageOf[d].alias \in BOOLEAN
         /\ MessageOf[d].target \in Deliveries \cup {NoBet}
         /\ PayoutOf[d] \in Nat
    /\ MaxArrivals \in Nat /\ Deposit \in Nat /\ MaxDeposits \in Nat /\ MaxTime \in Nat

VARIABLES
    users,     \* the users, in the order of their creation; each has the
               \* name of the call that made it
    wallets,   \* the users that have a wallet
    available, \* Wallet.availableCents
    held,      \* Wallet.heldCents
    deposited, \* what was deposited, by user
    bets,      \* the bet each delivery has placed
    saved,     \* the users and wallets as they were when a transaction
               \* began, while it runs
    pc,        \* where the handler of each delivery and registration is
    who,       \* the user it has found or made
    asked,     \* when it has asked for its bet
    quote,     \* the cash-out it has been quoted
    reply,     \* what it has answered
    detached,  \* the calls that hold replaced stores
    time       \* Date.now(), when it was last read

moneyVars == <<available, held, deposited>>
storeVars == <<users, wallets, saved, detached>>
callVars  == <<who, asked, quote, reply>>
vars == <<storeVars, moneyVars, bets, pc, callVars, time>>

NoSlip == [status |-> "NONE", user |-> NoUser, key |-> <<>>, stake |-> 0, legs |-> <<>>,
           paid |-> 0]
Pending == [status |-> "NONE", bet |-> NoBet]
Msg(d) == MessageOf[d]

Keys == {<<>>} \cup {<<Msg(d).channel, Msg(d).session, t>> : d \in Deliveries, t \in 0 .. MaxTime}
Slips == [status: {"NONE", "PLACED", "CASHED_OUT", "SETTLED"},
          user: Callers \cup {NoUser}, key: Keys, stake: Nat,
          legs: Seq(Matches \X Picks), paid: Nat]
Places == {"idle", "unknown", "created", "known", "signed", "funded", "placing",
           "open", "quoted", "cashing", "done"}
Replies == [status: {"NONE", "SHOWN", "REJECTED", "ACCEPTED", "PROCESSED"},
            bet: Deliveries \cup {NoBet}]

TypeOK ==
    /\ users \in Seq(Callers)
    /\ \A i, j \in DOMAIN users : i # j => users[i] # users[j]
    /\ wallets \subseteq Callers
    /\ available \in [Callers -> Nat]
    /\ held \in [Callers -> Nat]
    /\ deposited \in [Callers -> Nat]
    /\ bets \in [Deliveries -> Slips]
    /\ \A d \in Deliveries : bets[d].user \in wallets \cup {NoUser}
    /\ saved \in Seq([users: Seq(Callers), wallets: SUBSET Callers]) /\ Len(saved) \in 0 .. 1
    /\ pc \in [Callers -> Places]
    /\ who \in [Deliveries -> Callers \cup {NoUser}]
    /\ asked \in [Deliveries -> 0 .. MaxTime]
    /\ quote \in [Deliveries -> Nat]
    /\ reply \in [Deliveries -> Replies]
    /\ detached \subseteq Callers
    /\ time \in 0 .. MaxTime

Init ==
    /\ users = <<>>
    /\ wallets = {}
    /\ available = [u \in Callers |-> 0]
    /\ held = [u \in Callers |-> 0]
    /\ deposited = [u \in Callers |-> 0]
    /\ bets = [d \in Deliveries |-> NoSlip]
    /\ saved = <<>>
    /\ pc = [c \in Callers |-> "idle"]
    /\ who = [d \in Deliveries |-> NoUser]
    /\ asked = [d \in Deliveries |-> 0]
    /\ quote = [d \in Deliveries |-> 0]
    /\ reply = [d \in Deliveries |-> Pending]
    /\ detached = {}
    /\ time = 0

-----------------------------------------------------------------------------
Go(d, where) == pc' = [pc EXCEPT ![d] = where]
Answer(d, status, bet) ==
    /\ Go(d, "done")
    /\ reply' = [reply EXCEPT ![d] = [status |-> status, bet |-> bet]]

(* executeUssdBet takes any pick it does not know for the home team,       *)
(* handleCodeBet refuses the message.  AsGiven is what neither does.       *)
AsGiven(pick) == pick
UssdPick(pick) == IF pick \in {"X", "2"} THEN pick ELSE "1"

(* An alias leads to a match only: handleTeamBet takes the home team of it *)
(* for the one that was named.                                             *)
Pick(d, pick) ==
    IF Msg(d).channel = "USSD" THEN UssdPick(pick) ELSE IF Msg(d).alias THEN "1" ELSE pick

Selected(d) == [i \in DOMAIN Msg(d).legs |->
    <<Msg(d).legs[i][1], Pick(d, Msg(d).legs[i][2])>>]

(* The stake is positive, the matches are registered and, in a short       *)
(* message, the picks are.                                                 *)
WellFormed(d) ==
    /\ Msg(d).stake > 0
    /\ \A i \in DOMAIN Msg(d).legs :
         /\ Msg(d).legs[i][1] \in Matches
         /\ Msg(d).channel = "SMS" => Msg(d).legs[i][2] \in Picks

(* findFirst finds the oldest user with the phone number, Newest is the    *)
(* other end.                                                              *)
Newest(i, phone) ==
    PhoneOf[users[i]] = phone /\ \A j \in i + 1 .. Len(users) : PhoneOf[users[j]] # phone
Oldest(i, phone) ==
    PhoneOf[users[i]] = phone /\ \A j \in 1 .. i - 1 : PhoneOf[users[j]] # phone
Registered(phone) == \E i \in DOMAIN users : PhoneOf[users[i]] = phone
Made == {users[i] : i \in DOMAIN users}

(* handleRequest and handleSms: a screen needs nothing, a bet is parsed    *)
(* before anything is read, and then the user of the phone is looked for.  *)
Arrive(d) ==
    /\ pc[d] = "idle" /\ Cardinality({e \in Deliveries : pc[e] # "idle"}) < MaxArrivals
    /\ IF Msg(d).kind = "screen" THEN Answer(d, "SHOWN", NoBet) /\ UNCHANGED who
       ELSE IF Msg(d).kind = "bet" /\ ~WellFormed(d)
       THEN Answer(d, "REJECTED", NoBet) /\ UNCHANGED who
       ELSE IF ~Registered(PhoneOf[d]) THEN Go(d, "unknown") /\ UNCHANGED <<who, reply>>
       ELSE /\ \E i \in DOMAIN users :
                 Oldest(i, PhoneOf[d]) /\ who' = [who EXCEPT ![d] = users[i]]
            /\ Go(d, "known")
            /\ UNCHANGED reply
    /\ UNCHANGED <<storeVars, moneyVars, bets, asked, quote, time>>

(* register refuses a phone number that has a user already. *)
Register(w) ==
    /\ pc[w] = "idle"
    /\ Go(w, IF Registered(PhoneOf[w]) THEN "done" ELSE "unknown")
    /\ UNCHANGED <<storeVars, moneyVars, bets, callVars, time>>

(* getOrCreateUserByPhone takes the stores, looks the phone number up and  *)
(* creates the user and then the wallet in them; register creates no       *)
(* wallet.                                                                 *)
Attached(c) == c \notin detached

CreateUser(c) ==
    /\ pc[c] = "unknown"
    /\ users' = IF Attached(c) THEN Append(users, c) ELSE users
    /\ Go(c, IF c \in Web THEN "known" ELSE "created")
    /\ UNCHANGED <<wallets, saved, detached, moneyVars, bets, callVars, time>>

CreateWallet(d) ==
    /\ pc[d] = "created"
    /\ wallets' = IF Attached(d) THEN wallets \cup {d} ELSE wallets
    /\ who' = [who EXCEPT ![d] = d]
    /\ Go(d, "known")
    /\ UNCHANGED <<users, saved, detached, moneyVars, bets, asked, quote, reply, time>>

(* The user signs in, by e-mail if not by phone.  No password fits a user  *)
(* that getOrCreateUserByPhone has made.                                   *)
SignIn(w) ==
    /\ w \in Web /\ pc[w] = "known" /\ w \in Made
    /\ Go(w, "signed")
    /\ UNCHANGED <<storeVars, moneyVars, bets, callVars, time>>

(* A balance, or the last bet. *)
Tell(d) ==
    /\ pc[d] = "known" /\ Msg(d).kind = "ask"
    /\ Answer(d, "PROCESSED", NoBet)
    /\ UNCHANGED <<storeVars, moneyVars, bets, who, asked, quote, time>>

-----------------------------------------------------------------------------
StakeOf(d) == 100 * Msg(d).stake

(* Of two legs in one event placeBet makes no accumulator. *)
Combinable(d) == \A i, j \in DOMAIN Msg(d).legs : i # j => Msg(d).legs[i][1] # Msg(d).legs[j][1]

(* The balance is read and the bet asked for.  A channel without a betting *)
(* service says it is accepted, too; any time may have passed since the    *)
(* clock was last read.                                                    *)
ReadWallet(d) ==
    LET funded == who[d] \in wallets /\ available[who[d]] >= StakeOf(d) IN
    /\ pc[d] = "known" /\ Msg(d).kind = "bet"
    /\ \/ /\ ~funded \/ (d \in HasBetting /\ ~Combinable(d))
          /\ Answer(d, "REJECTED", NoBet) /\ UNCHANGED <<asked, time>>
       \/ /\ funded /\ d \notin HasBetting
          /\ Answer(d, "ACCEPTED", NoBet) /\ UNCHANGED <<asked, time>>
       \/ /\ funded /\ d \in HasBetting /\ Combinable(d)
          /\ Go(d, "funded") /\ UNCHANGED reply
          /\ time' \in time .. MaxTime
          /\ asked' = [asked EXCEPT ![d] = time']
    /\ UNCHANGED <<storeVars, moneyVars, bets, who, quote>>

(* The idempotency key of a bet: the USSD session or the phone number, and *)
(* the time it was asked for.  Untimed leaves out the time.                *)
Untimed(d) == <<Msg(d).channel, Msg(d).session, 0>>
KeyOf(d) == <<Msg(d).channel, Msg(d).session, asked[d]>>

SameKey(d) == {b \in Deliveries : bets[b].status # "NONE" /\ bets[b].key = KeyOf(d)}

(* Transactions run one at a time, and wait for the one that runs. *)
Idle == saved = <<>>
Begin == Idle /\ saved' = <<[users |-> users, wallets |-> wallets]>>
Commit == saved' = <<>>

Rollback ==
    /\ users' = saved[1].users
    /\ wallets' = saved[1].wallets
    /\ saved' = <<>>
    /\ detached' = detached \cup {c \in Callers : pc[c] \in {"unknown", "created"}}

BeginPlacement(d) ==
    /\ pc[d] = "funded"
    /\ Begin /\ Go(d, "placing")
    /\ UNCHANGED <<users, wallets, detached, moneyVars, bets, callVars, time>>

(* What placeBet requires of the user and of the wallet, on its own       *)
(* reading of them.                                                        *)
Affordable(d) == who[d] \in Made /\ available[who[d]] >= StakeOf(d)

Repeat(d) ==
    /\ pc[d] = "placing"
    /\ \E b \in SameKey(d) : Answer(d, "ACCEPTED", b)
    /\ Commit
    /\ UNCHANGED <<users, wallets, detached, moneyVars, bets, who, asked, quote, time>>

Place(d) ==
    LET u == who[d] IN
    /\ pc[d] = "placing" /\ SameKey(d) = {}
    /\ Affordable(d)
    /\ available' = [available EXCEPT ![u] = @ - StakeOf(d)]
    /\ held' = [held EXCEPT ![u] = @ + StakeOf(d)]
    /\ bets' = [bets EXCEPT ![d] = [status |-> "PLACED", user |-> u, key |-> KeyOf(d),
                                    stake |-> StakeOf(d), legs |-> Selected(d), paid |-> 0]]
    /\ Answer(d, "ACCEPTED", d)
    /\ Commit
    /\ UNCHANGED <<users, wallets, detached, deposited, who, asked, quote, time>>

(* The account, the odds or the wallet refuse the bet. *)
Refuse(d) ==
    /\ pc[d] = "placing" /\ SameKey(d) = {}
    /\ Answer(d, "REJECTED", NoBet)
    /\ Rollback
    /\ UNCHANGED <<moneyVars, bets, who, asked, quote, time>>

-----------------------------------------------------------------------------
Open(b) == b # NoBet /\ bets[b].status = "PLACED"

(* handleCancelBet reads the bet, gets a quote and executes it; a channel  *)
(* without a cash-out engine says the request is processed, too.           *)
ReadBet(d) ==
    LET b == Msg(d).target IN
    /\ pc[d] = "known" /\ Msg(d).kind = "cancel"
    /\ IF ~Open(b) \/ bets[b].user # who[d]
       THEN Answer(d, "REJECTED", NoBet)
       ELSE IF d \notin HasCashout THEN Answer(d, "PROCESSED", NoBet)
       ELSE Go(d, "open") /\ UNCHANGED reply
    /\ UNCHANGED <<storeVars, moneyVars, bets, who, asked, quote, time>>

GetQuote(d) ==
    LET b == Msg(d).target IN
    /\ pc[d] = "open"
    /\ IF Open(b)
       THEN /\ Go(d, "quoted")
            /\ quote' = [quote EXCEPT ![d] = (PayoutOf[b] * 80) \div 100]
            /\ UNCHANGED reply
       ELSE Answer(d, "REJECTED", NoBet) /\ UNCHANGED quote
    /\ UNCHANGED <<storeVars, moneyVars, bets, who, asked, time>>

BeginCashout(d) ==
    /\ pc[d] = "quoted"
    /\ Begin /\ Go(d, "cashing")
    /\ UNCHANGED <<users, wallets, detached, moneyVars, bets, callVars, time>>

(* executeCashout looks at the bet again; NotSettled looks only whether it *)
(* has been settled.                                                       *)
NotSettled(b) == bets[b].status # "SETTLED"
MayCashOut(b) == bets[b].status = "PLACED"

Released(u, stake) == IF held[u] >= stake THEN held[u] - stake ELSE 0

ExecuteCashout(d) ==
    LET b == Msg(d).target
        u == bets[b].user
    IN
    /\ pc[d] = "cashing" /\ MayCashOut(b)
    /\ available' = [available EXCEPT ![u] = @ + quote[d]]
    /\ held' = [held EXCEPT ![u] = Released(u, bets[b].stake)]
    /\ bets' = [bets EXCEPT ![b].status = "CASHED_OUT", ![b].paid = quote[d]]
    /\ Answer(d, "PROCESSED", b)
    /\ Commit
    /\ UNCHANGED <<users, wallets, detached, deposited, who, asked, quote, time>>

FailCashout(d) ==
    /\ pc[d] = "cashing" /\ ~MayCashOut(Msg(d).target)
    /\ Answer(d, "REJECTED", NoBet)
    /\ Rollback
    /\ UNCHANGED <<moneyVars, bets, who, asked, quote, time>>

-----------------------------------------------------------------------------
(* A deposit is credited to the user who signed in for it, by the id in    *)
(* the token, which outlives a user that a rollback takes back; the wallet *)
(* is created if there is none.                                            *)
PayIn(w) ==
    /\ Idle /\ pc[w] = "signed" /\ deposited[w] < MaxDeposits * Deposit
    /\ wallets' = wallets \cup {w}
    /\ available' = [available EXCEPT ![w] = @ + Deposit]
    /\ deposited' = [deposited EXCEPT ![w] = @ + Deposit]
    /\ UNCHANGED <<users, saved, detached, held, bets, pc, callVars, time>>

(* The settlement of a bet, won or lost. *)
Settle(b) ==
    LET u == bets[b].user IN
    /\ Idle /\ Open(b)
    /\ \E paid \in {0, PayoutOf[b]} :
         /\ available' = [available EXCEPT ![u] = @ + paid]
         /\ held' = [held EXCEPT ![u] = Released(u, bets[b].stake)]
         /\ bets' = [bets EXCEPT ![b].status = "SETTLED", ![b].paid = paid]
    /\ UNCHANGED <<storeVars, deposited, pc, callVars, time>>

Handle(d) ==
    \/ Arrive(d) \/ CreateWallet(d) \/ Tell(d)
    \/ ReadWallet(d) \/ BeginPlacement(d) \/ Repeat(d) \/ Place(d) \/ Refuse(d)
    \/ ReadBet(d) \/ GetQuote(d) \/ BeginCashout(d) \/ ExecuteCashout(d) \/ FailCashout(d)

Next ==
    \/ \E d \in Deliveries : Handle(d)
    \/ \E w \in Web : Register(w) \/ SignIn(w) \/ PayIn(w)
    \/ \E c \in Callers : CreateUser(c)
    \/ \E b \in Deliveries : Settle(b)

Spec == Init /\ [][Next]_vars

-----------------------------------------------------------------------------
(* The wallet of a user is what was deposited, less the stakes, plus what  *)
(* the bets were paid; what is held are the stakes of the open bets.       *)
WalletsAddUp ==
    \A u \in wallets :
        LET B == {b \in Deliveries : bets[b].user = u}
            stake == [b \in B |-> bets[b].stake]
            paid == [b \in B |-> bets[b].paid]
        IN /\ held[u] = Total({b \in B : Open(b)}, stake)
           /\ available[u] + Total(B, stake) = deposited[u] + Total(B, paid)

(* A bet is of the user that later messages of the same phone find, and so *)
(* can be asked about and cashed out by them: although a first message and *)
(* a registration that race make a user each, the money of the younger is  *)
(* never staked from the phone, and no rollback takes the user of a bet    *)
(* back.                                                                   *)
BetsAreFound ==
    \A b \in Deliveries : bets[b].status # "NONE" =>
        \E i \in DOMAIN users :
            /\ users[i] = bets[b].user /\ PhoneOf[users[i]] = PhoneOf[b]
            /\ \A j \in 1 .. i - 1 : PhoneOf[users[j]] # PhoneOf[b]

(* A message whose bet a betting service has accepted has a bet of its     *)
(* own, with its stake and with every outcome it could name by a pick,     *)
(* unless a message of the same session had asked for one in the same      *)
(* millisecond.  An alias names a team, and only the home team gets what   *)
(* it asked for.                                                           *)
AcceptedAsAsked ==
    \A d \in HasBetting : reply[d].status = "ACCEPTED" =>
        LET b == reply[d].bet IN
        IF b = d
        THEN /\ bets[d].stake = 100 * Msg(d).stake
             /\ Len(bets[d].legs) = Len(Msg(d).legs)
             /\ \A i \in DOMAIN bets[d].legs :
                  Msg(d).legs[i][2] \in (IF Msg(d).alias THEN {"1"} ELSE Picks) =>
                      bets[d].legs[i] = Msg(d).legs[i]
        ELSE bets[b].key = <<Msg(d).channel, Msg(d).session, asked[d]>>

(* A bet is cashed out once, for its own phone, at the quote the message   *)
(* was given, and not when it has been settled.                            *)
CashedOutOnce ==
    \A d \in HasCashout :
        Msg(d).kind = "cancel" /\ reply[d].status = "PROCESSED" =>
            LET b == Msg(d).target IN
            /\ bets[b].status = "CASHED_OUT" /\ bets[b].paid = quote[d]
            /\ PhoneOf[b] = PhoneOf[d]
            /\ \A e \in HasCashout \ {d} : Msg(e).kind = "cancel" /\ Msg(e).target = b =>
                 reply[e].status # "PROCESSED"
=============================================================================
