--------------------------- MODULE ChannelsProofs ---------------------------
(***************************************************************************)
(* The five invariants of Channels, for every set of deliveries and        *)
(* registrations, whatever they say and however they are interleaved with  *)
(* each other and with the rollbacks of transactions.                      *)
(***************************************************************************)
EXTENDS Channels, CentsTheorems, SequenceTheorems

(* The bets of a user with their amounts. *)
Stakes == [b \in Deliveries |-> bets[b].stake]
Paid   == [b \in Deliveries |-> bets[b].paid]
BetsOf(u) == {b \in Deliveries : bets[b].user = u}
OpenOf(u) == {b \in BetsOf(u) : bets[b].status = "PLACED"}

(* The equations of WalletsAddUp hold of every caller, a user or not. *)
MoneyInv ==
    \A u \in Callers :
        /\ held[u] = Total(OpenOf(u), Stakes)
        /\ available[u] + Total(BetsOf(u), Stakes) = deposited[u] + Total(BetsOf(u), Paid)

(* A rollback leaves the wallet of u as it is, and the user of bet b one   *)
(* that the phone is looked up as.                                         *)
KeepsWallet(u) == u \in wallets /\ (saved # <<>> => u \in saved[1].wallets)
Finds(s, b) ==
    \E i \in DOMAIN s :
        /\ s[i] = bets[b].user /\ PhoneOf[s[i]] = PhoneOf[b]
        /\ \A j \in 1 .. i - 1 : PhoneOf[s[j]] # PhoneOf[b]

(* Only who has registered has money. *)
OwnerInv == \A u \in Callers : available[u] > 0 => u \in Web /\ KeepsWallet(u)

(* A bet is of a user who has registered and whom no rollback takes back. *)
BetInv ==
    \A b \in Deliveries : bets[b].status # "NONE" =>
        /\ bets[b].user \in Web /\ KeepsWallet(bets[b].user)
        /\ Finds(users, b) /\ (saved # <<>> => Finds(saved[1].users, b))

(* The users as they were when the transaction began are the first ones.  *)
(* One transaction runs at a time.                                         *)
SavedInv ==
    saved # <<>> =>
        /\ Len(saved[1].users) <= Len(users)
        /\ \A i \in 1 .. Len(saved[1].users) : users[i] = saved[1].users[i]
Running == {d \in Deliveries : pc[d] \in {"placing", "cashing"}}
RunningInv == \A d \in Running : saved # <<>> /\ \A e \in Running : e = d

MadeInv == \A c \in Made : pc[c] \notin {"idle", "unknown"}

(* A delivery has no bet before its handler is done, an open bet is        *)
(* unpaid.                                                                 *)
SlipInv ==
    \A b \in Deliveries :
        /\ bets[b].status = "NONE" => bets[b] = NoSlip
        /\ bets[b].status = "PLACED" => bets[b].paid = 0
        /\ pc[b] # "done" => bets[b].status = "NONE"

(* The user a handler has found has the phone number of the message, and   *)
(* one that has registered is still the one to be found, unless a rollback *)
(* has taken it back.                                                      *)
WhoInv(d) ==
    who[d] # NoUser =>
        /\ who[d] \in Callers /\ PhoneOf[who[d]] = PhoneOf[d]
        /\ pc[who[d]] \notin {"idle", "unknown"}
        /\ who[d] \in Web \cap Made =>
             \E i \in DOMAIN users : users[i] = who[d] /\ Oldest(i, PhoneOf[d])

(* What the handler of d has established when it gets to pc[d]. *)
CallInv(d) ==
    /\ pc[d] \in {"known", "funded", "placing", "open", "quoted", "cashing"} => who[d] # NoUser
    /\ pc[d] \in {"unknown", "created", "known", "funded", "placing"} /\ Msg(d).kind = "bet" =>
         WellFormed(d)
    /\ pc[d] \in {"funded", "placing"} => Msg(d).kind = "bet"
    /\ pc[d] \in {"open", "quoted", "cashing"} =>
         /\ d \in HasCashout /\ Msg(d).kind = "cancel" /\ Msg(d).target \in Deliveries
         /\ bets[Msg(d).target].status # "NONE"
         /\ PhoneOf[Msg(d).target] = PhoneOf[d]

(* What AcceptedAsAsked says of one delivery. *)
AsAsked(d) ==
    LET b == reply[d].bet IN
    IF b = d
    THEN /\ bets[d].stake = 100 * Msg(d).stake
         /\ Len(bets[d].legs) = Len(Msg(d).legs)
         /\ \A i \in DOMAIN bets[d].legs :
              Msg(d).legs[i][2] \in (IF Msg(d).alias THEN {"1"} ELSE Picks) =>
                  bets[d].legs[i] = Msg(d).legs[i]
    ELSE bets[b].key = <<Msg(d).channel, Msg(d).session, asked[d]>>

ReplyInv(d) ==
    /\ pc[d] # "done" => reply[d].status = "NONE"
    /\ d \in HasBetting /\ reply[d].status = "ACCEPTED" =>
         reply[d].bet \in Deliveries /\ bets[reply[d].bet].status # "NONE" /\ AsAsked(d)

CashedOut(d) == d \in HasCashout /\ Msg(d).kind = "cancel" /\ reply[d].status = "PROCESSED"

(* What CashedOutOnce says, and that the bet of a cancellation exists. *)
CashOutInv ==
    \A d \in Deliveries : CashedOut(d) =>
        /\ Msg(d).target \in Deliveries
        /\ bets[Msg(d).target].status = "CASHED_OUT" /\ bets[Msg(d).target].paid = quote[d]
        /\ PhoneOf[Msg(d).target] = PhoneOf[d]
        /\ \A e \in Deliveries \ {d} : Msg(e).target = Msg(d).target => ~CashedOut(e)

(* What the stores and what the handlers keep. *)
StoreInv == OwnerInv /\ BetInv /\ SavedInv /\ MadeInv
IInv ==
    /\ TypeOK /\ MoneyInv /\ StoreInv /\ RunningInv /\ SlipInv /\ CashOutInv
    /\ \A d \in Deliveries : WhoInv(d) /\ CallInv(d) /\ ReplyInv(d)

-----------------------------------------------------------------------------
(* The fields of a message, and the amounts made of them. *)
LEMMA Message ==
  ASSUME NEW d \in Deliveries
  PROVE  /\ Msg(d).stake \in Nat /\ StakeOf(d) \in Nat
         /\ Msg(d).legs \in Seq(STRING \X STRING)
         /\ Msg(d).target \in Deliveries \cup {NoBet}
         /\ Msg(d).channel \in {"USSD", "SMS"}
         /\ Msg(d).kind \in {"screen", "ask", "bet", "cancel"}
         /\ PayoutOf[d] \in Nat
         /\ d \in Callers /\ d # NoUser /\ d # NoBet
BY ChannelAssumption DEF Msg, StakeOf, Callers

(* The legs a handler passes on are legs of registered matches and picks,  *)
(* one for each that was asked for.                                        *)
LEMMA SelectedLegs ==
  ASSUME NEW d \in Deliveries, WellFormed(d)
  PROVE  /\ Selected(d) \in Seq(Matches \X Picks)
         /\ Len(Selected(d)) = Len(Msg(d).legs)
         /\ \A i \in DOMAIN Selected(d) :
              Msg(d).legs[i][2] \in (IF Msg(d).alias THEN {"1"} ELSE Picks) =>
                  Selected(d)[i] = Msg(d).legs[i]
<1> DEFINE legs == Msg(d).legs
           n == Len(legs)
<1>1. /\ legs \in Seq(STRING \X STRING) /\ Msg(d).channel \in {"USSD", "SMS"}
      /\ n \in Nat /\ DOMAIN legs = 1 .. n
  BY Message
<1>2. \A i \in 1 .. n : legs[i] = <<legs[i][1], legs[i][2]>>
  BY <1>1
<1>3. \A i \in 1 .. n : legs[i][1] \in Matches /\ (Msg(d).channel = "SMS" => legs[i][2] \in Picks)
  BY <1>1 DEF WellFormed
<1>4. \A pick : UssdPick(pick) \in Picks /\ (pick \in Picks => UssdPick(pick) = pick)
  BY DEF UssdPick, Picks
<1>5. \A i \in 1 .. n :
        /\ Pick(d, legs[i][2]) \in Picks
        /\ legs[i][2] \in (IF Msg(d).alias THEN {"1"} ELSE Picks) =>
             Pick(d, legs[i][2]) = legs[i][2]
  BY <1>1, <1>3, <1>4 DEF Pick, Picks
<1> DEFINE leg(i) == <<legs[i][1], Pick(d, legs[i][2])>>
<1>6. \A i \in 1 .. n :
        /\ leg(i) \in Matches \X Picks
        /\ legs[i][2] \in (IF Msg(d).alias THEN {"1"} ELSE Picks) => leg(i) = legs[i]
  BY <1>2, <1>3, <1>5
<1>7. Selected(d) = [i \in 1 .. n |-> leg(i)]
  BY <1>1 DEF Selected
<1> HIDE DEF leg, legs, n
<1>8. Selected(d) \in Seq(Matches \X Picks) /\ Len(Selected(d)) = n /\ DOMAIN Selected(d) = 1 .. n
  BY <1>1, <1>6, <1>7
<1> QED
  BY <1>6, <1>7, <1>8 DEF legs, n

(* The bets of a user are finite sets, their stakes and payouts amounts. *)
LEMMA Amounts ==
  ASSUME IInv
  PROVE  /\ \A u : BetsOf(u) \subseteq Deliveries /\ IsFiniteSet(BetsOf(u))
         /\ \A u : OpenOf(u) \subseteq BetsOf(u) /\ IsFiniteSet(OpenOf(u))
         /\ \A b \in Deliveries : Stakes[b] = bets[b].stake /\ Stakes[b] \in Nat
         /\ \A b \in Deliveries : Paid[b] = bets[b].paid /\ Paid[b] \in Nat
<1>1. \A u : BetsOf(u) \subseteq Deliveries /\ OpenOf(u) \subseteq BetsOf(u)
  BY DEF BetsOf, OpenOf
<1>2. \A u : IsFiniteSet(BetsOf(u)) /\ IsFiniteSet(OpenOf(u))
  BY <1>1, ChannelAssumption, FS_Subset
<1>3. \A b \in Deliveries : bets[b] \in Slips
  BY DEF IInv, TypeOK
<1> QED
  BY <1>1, <1>2, <1>3 DEF Stakes, Paid, Slips

(* What is known of the handler of d. *)
LEMMA TheCall ==
  ASSUME IInv, NEW d \in Deliveries
  PROVE  /\ d \in Callers /\ pc[d] \in Places
         /\ who[d] \in Callers \cup {NoUser} /\ quote[d] \in Nat /\ asked[d] \in 0 .. MaxTime
         /\ reply[d] \in Replies
         /\ who = [who EXCEPT ![d] = who[d]] /\ quote = [quote EXCEPT ![d] = quote[d]]
         /\ asked = [asked EXCEPT ![d] = asked[d]] /\ reply = [reply EXCEPT ![d] = reply[d]]
         /\ time \in 0 .. MaxTime
         /\ WhoInv(d) /\ CallInv(d) /\ ReplyInv(d)
BY DEF IInv, TypeOK, Callers

(* What was saved, and the users there are. *)
LEMMA TheStores ==
  ASSUME IInv
  PROVE  /\ users \in Seq(Callers) /\ Len(users) \in Nat /\ DOMAIN users = 1 .. Len(users)
         /\ Made \subseteq Callers
         /\ saved # <<>> =>
              /\ saved[1].users \in Seq(Callers) /\ saved[1].wallets \subseteq Callers
              /\ Len(saved[1].users) \in Nat
              /\ DOMAIN saved[1].users = 1 .. Len(saved[1].users)
<1>1. users \in Seq(Callers)
  BY DEF IInv, TypeOK
<1> DEFINE S == [users: Seq(Callers), wallets: SUBSET Callers]
<1>2. saved \in Seq(S)
  BY DEF IInv, TypeOK
<1>3. ASSUME saved # <<>>
      PROVE  saved[1] \in S
  <2> HIDE DEF S
  <2>1. Len(saved) \in Nat \ {0}
    BY <1>2, <1>3, EmptySeq
  <2> QED
    BY <1>2, <2>1
<1>4. saved # <<>> => saved[1].users \in Seq(Callers) /\ saved[1].wallets \subseteq Callers
  BY <1>3
<1> QED
  BY <1>1, <1>4 DEF Made

(* A step that changes neither users nor wallets nor bets, and gives money *)
(* to nobody, keeps what there is to say of the stores, whether or not a   *)
(* transaction begins or ends with it.                                     *)
LEMMA StoresKept ==
  ASSUME IInv, UNCHANGED <<users, wallets, available, bets>>,
         saved' = saved \/ Commit \/ Begin,
         \A c \in Callers : pc[c] \notin {"idle", "unknown"} => pc'[c] \notin {"idle", "unknown"}
  PROVE  StoreInv' /\ Made' = Made
<1>1. Made' = Made
  BY DEF Made
<1>2. MadeInv'
  BY <1>1, TheStores DEF IInv, StoreInv, MadeInv
<1>3. CASE saved' = saved
  <2>1. OwnerInv'
    BY <1>3 DEF IInv, StoreInv, OwnerInv, KeepsWallet
  <2>2. BetInv'
    BY <1>3 DEF IInv, StoreInv, BetInv, KeepsWallet, Finds
  <2>3. SavedInv'
    BY <1>3 DEF IInv, StoreInv, SavedInv
  <2> QED
    BY <1>1, <1>2, <2>1, <2>2, <2>3 DEF StoreInv
<1>4. CASE Commit
  BY <1>1, <1>2, <1>4
  DEF IInv, StoreInv, OwnerInv, BetInv, SavedInv, KeepsWallet, Finds, Commit
<1>5. CASE Begin
  <2>1. /\ saved = <<>> /\ saved'[1].users = users /\ saved'[1].wallets = wallets
        /\ saved' # <<>>
    BY <1>5 DEF Begin, Idle
  <2>2. OwnerInv'
    BY <2>1 DEF IInv, StoreInv, OwnerInv, KeepsWallet
  <2>3. BetInv'
    BY <2>1 DEF IInv, StoreInv, BetInv, KeepsWallet, Finds
  <2>4. SavedInv'
    BY <2>1, TheStores DEF SavedInv
  <2> QED
    BY <1>1, <1>2, <2>2, <2>3, <2>4 DEF StoreInv
<1> QED
  BY <1>3, <1>4, <1>5

(* A handler that has found a user keeps it while the users are the same. *)
LEMMA WhoKept ==
  ASSUME IInv, NEW e \in Deliveries, who'[e] = who[e], users' = users,
         \A c \in Callers : pc[c] \notin {"idle", "unknown"} => pc'[c] \notin {"idle", "unknown"}
  PROVE  WhoInv(e)'
BY TheCall DEF WhoInv, Made, Oldest

(* A step that leaves the bets and the replies of e as they are. *)
LEMMA RepliesKept ==
  ASSUME IInv, NEW e \in Deliveries,
         pc'[e] = pc[e], reply'[e] = reply[e], asked'[e] = asked[e],
         \A c \in Deliveries :
              /\ bets[c].status # "NONE" => bets'[c].status # "NONE"
              /\ bets[c].status # "NONE" =>
                   /\ bets'[c].key = bets[c].key
                   /\ bets'[c].stake = bets[c].stake /\ bets'[c].legs = bets[c].legs
  PROVE  ReplyInv(e)'
<1>1. CASE e \in HasBetting /\ reply[e].status = "ACCEPTED"
  <2>1. /\ reply[e].bet \in Deliveries /\ bets[reply[e].bet].status # "NONE"
        /\ AsAsked(e)
    BY <1>1, TheCall DEF ReplyInv
  <2>2. AsAsked(e)'
    BY <2>1 DEF AsAsked, Msg
  <2> QED
    BY <2>1, <2>2, TheCall DEF ReplyInv
<1>2. CASE ~(e \in HasBetting /\ reply[e].status = "ACCEPTED")
  BY <1>2, TheCall DEF ReplyInv
<1> QED
  BY <1>1, <1>2

(* A step of a handler that only reads: what is left to show is what the   *)
(* handler itself has established.  With it a transaction may begin, or    *)
(* end that has changed nothing.                                           *)
LEMMA QuietStep ==
  ASSUME IInv, NEW d \in Deliveries, pc[d] # "done",
         UNCHANGED <<users, wallets, detached, moneyVars, bets>>,
         NEW at \in Places \ {"idle"}, pc' = [pc EXCEPT ![d] = at],
         at = "unknown" => pc[d] = "idle",
         \/ /\ saved' = saved
            /\ pc[d] \notin {"placing", "cashing"} /\ at \notin {"placing", "cashing"}
         \/ Commit /\ pc[d] \in {"placing", "cashing"} /\ at = "done"
         \/ Begin /\ at \in {"placing", "cashing"},
         NEW u \in Callers \cup {NoUser}, who' = [who EXCEPT ![d] = u],
         NEW a \in 0 .. MaxTime, asked' = [asked EXCEPT ![d] = a],
         NEW q \in Nat, quote' = [quote EXCEPT ![d] = q],
         NEW r \in Replies, reply' = [reply EXCEPT ![d] = r],
         r.status = "PROCESSED" => ~(Msg(d).kind = "cancel" /\ d \in HasCashout),
         time' \in 0 .. MaxTime,
         WhoInv(d)', CallInv(d)', ReplyInv(d)'
  PROVE  IInv'
<1> USE DEF moneyVars
<1>0. /\ pc'[d] = at /\ \A c \in Callers \ {d} : pc'[c] = pc[c]
      /\ pc' \in [Callers -> Places]
      /\ who'[d] = u /\ \A e \in Deliveries \ {d} : who'[e] = who[e]
      /\ asked'[d] = a /\ \A e \in Deliveries \ {d} : asked'[e] = asked[e]
      /\ quote'[d] = q /\ \A e \in Deliveries \ {d} : quote'[e] = quote[e]
      /\ reply'[d] = r /\ \A e \in Deliveries \ {d} : reply'[e] = reply[e]
  BY TheCall DEF IInv, TypeOK
<1>1. \A c \in Callers : pc[c] \notin {"idle", "unknown"} => pc'[c] \notin {"idle", "unknown"}
  BY <1>0
<1>2. \A e \in Deliveries \ {d} : e \in Callers \ {d}
  BY DEF Callers
<1>3. TypeOK'
  <2>1. /\ saved' \in Seq([users: Seq(Callers), wallets: SUBSET Callers])
        /\ Len(saved') \in 0 .. 1
    <3>1. CASE saved' = saved
      BY <3>1 DEF IInv, TypeOK
    <3>2. CASE Commit
      BY <3>2 DEF Commit
    <3>3. CASE Begin
      <4>1. [users |-> users, wallets |-> wallets] \in [users: Seq(Callers), wallets: SUBSET Callers]
        BY DEF IInv, TypeOK
      <4> QED
        BY <3>3, <4>1 DEF Begin
    <3> QED
      BY <3>1, <3>2, <3>3
  <2> QED
    BY <1>0, <2>1 DEF IInv, TypeOK
<1>4. StoreInv' /\ Made' = Made
  BY <1>1, StoresKept
<1>5. MoneyInv'
  BY DEF IInv, MoneyInv, OpenOf, BetsOf, Stakes, Paid
<1>6. RunningInv'
  <2>1. CASE /\ saved' = saved
             /\ pc[d] \notin {"placing", "cashing"} /\ at \notin {"placing", "cashing"}
    BY <1>0, <1>2, <2>1 DEF IInv, RunningInv, Running
  <2>2. CASE Commit /\ pc[d] \in {"placing", "cashing"} /\ at = "done"
    BY <1>0, <1>2, <2>2 DEF IInv, RunningInv, Running
  <2>3. CASE Begin /\ at \in {"placing", "cashing"}
    BY <1>0, <1>2, <2>3 DEF IInv, RunningInv, Running, Begin, Idle
  <2> QED
    BY <2>1, <2>2, <2>3
<1>7. SlipInv'
  BY <1>0, <1>2 DEF IInv, SlipInv
<1>8. CashOutInv'
  BY <1>0 DEF IInv, CashOutInv, CashedOut, Msg, ReplyInv
<1>9. ASSUME NEW e \in Deliveries, e # d
      PROVE  WhoInv(e)' /\ CallInv(e)' /\ ReplyInv(e)'
  <2>1. WhoInv(e)'
    BY <1>0, <1>1, <1>9, WhoKept
  <2>2. CallInv(e)'
    BY <1>0, <1>2, <1>9, TheCall DEF CallInv, Msg, WellFormed
  <2>3. ReplyInv(e)'
    BY <1>0, <1>2, <1>9, RepliesKept
  <2> QED
    BY <2>1, <2>2, <2>3
<1> QED
  BY <1>3, <1>4, <1>5, <1>6, <1>7, <1>8, <1>9 DEF IInv

-----------------------------------------------------------------------------
(* A handler takes a step that leaves c where it is after the creation of  *)
(* a user or on the way of a registration; the user may be new.            *)
LEMMA PcStep ==
  ASSUME IInv, NEW c \in Callers, NEW at \in {"unknown", "created", "known", "signed", "done"},
         pc' = [pc EXCEPT ![c] = at],
         at = "unknown" => pc[c] \in {"idle", "unknown"},
         c \in Deliveries => pc[c] = "unknown" /\ at = "created",
         users' = users \/ (users' = Append(users, c) /\ pc[c] = "unknown" /\ at # "unknown"),
         UNCHANGED <<wallets, saved, detached, moneyVars, bets, callVars, time>>
  PROVE  IInv'
<1> USE DEF moneyVars, callVars
<1>0. /\ pc'[c] = at /\ \A b \in Callers \ {c} : pc'[b] = pc[b]
      /\ pc' \in [Callers -> Places]
  BY DEF IInv, TypeOK, Places
<1>1. \A b \in Callers : pc[b] \notin {"idle", "unknown"} => pc'[b] \notin {"idle", "unknown"}
  BY <1>0
<1> DEFINE n == Len(users)
           m == Len(users')
<1>2. /\ users' \in Seq(Callers) /\ n \in Nat /\ m \in Nat /\ n <= m
      /\ DOMAIN users = 1 .. n /\ DOMAIN users' = 1 .. m
      /\ \A i \in 1 .. n : i \in 1 .. m /\ users'[i] = users[i]
      /\ \A i \in 1 .. m : i \notin 1 .. n =>
           i = n + 1 /\ users'[i] = c /\ pc[c] = "unknown" /\ at # "unknown"
  BY TheStores
<1> HIDE DEF n, m
<1>3. /\ Made \subseteq Made'
      /\ Made' \subseteq Made \cup {c}
      /\ c \in Made' \ Made => pc[c] = "unknown" /\ at # "unknown"
  BY <1>2 DEF Made
<1>4. TypeOK'
  <2>1. \A i, j \in DOMAIN users' : i # j => users'[i] # users'[j]
    <3>1. \A i \in 1 .. n : users[i] # c \/ pc[c] # "unknown"
      BY <1>2 DEF IInv, StoreInv, MadeInv, Made
    <3>2. \A i, j \in 1 .. n : i # j => users[i] # users[j]
      BY <1>2 DEF IInv, TypeOK
    <3> QED
      BY <1>2, <3>1, <3>2
  <2> QED
    BY <1>0, <1>2, <2>1 DEF IInv, TypeOK
<1>5. ASSUME NEW b \in Deliveries, Finds(users, b)
      PROVE  Finds(users, b)'
  <2>1. PICK i \in 1 .. n :
            /\ users[i] = bets[b].user /\ PhoneOf[users[i]] = PhoneOf[b]
            /\ \A j \in 1 .. i - 1 : PhoneOf[users[j]] # PhoneOf[b]
    BY <1>2, <1>5 DEF Finds
  <2>2. i \in DOMAIN users' /\ users'[i] = users[i] /\ \A j \in 1 .. i - 1 : users'[j] = users[j]
    <3>1. \A j \in 1 .. i - 1 : j \in 1 .. n
      BY <1>2, <2>1
    <3> QED
      BY <1>2, <2>1, <3>1
  <2> QED
    BY <2>1, <2>2 DEF Finds
<1>6. StoreInv'
  <2>1. OwnerInv'
    BY DEF IInv, StoreInv, OwnerInv, KeepsWallet
  <2>2. BetInv'
    <3>1. \A b \in Deliveries : Finds(saved[1].users, b) => Finds(saved[1].users, b)'
      BY DEF Finds
    <3> QED
      BY <1>5, <3>1 DEF IInv, StoreInv, BetInv, KeepsWallet
  <2>3. SavedInv'
    <3>1. CASE saved # <<>>
      <4>1. /\ Len(saved[1].users) \in Nat /\ Len(saved[1].users) <= n
            /\ \A i \in 1 .. Len(saved[1].users) : users[i] = saved[1].users[i]
        BY <3>1, TheStores DEF IInv, StoreInv, SavedInv, n
      <4>2. /\ Len(saved[1].users) <= m
            /\ \A i \in 1 .. Len(saved[1].users) : i \in 1 .. n
        BY <1>2, <4>1
      <4> QED
        BY <1>2, <4>1, <4>2 DEF SavedInv, m
    <3>2. CASE saved = <<>>
      BY <3>2 DEF SavedInv
    <3> QED
      BY <3>1, <3>2
  <2>4. MadeInv'
    BY <1>0, <1>1, <1>3, TheStores DEF IInv, StoreInv, MadeInv
  <2> QED
    BY <2>1, <2>2, <2>3, <2>4 DEF StoreInv
<1>7. MoneyInv'
  BY DEF IInv, MoneyInv, OpenOf, BetsOf, Stakes, Paid
<1>8. \A e \in Deliveries : pc'[e] # pc[e] => e = c /\ pc[e] = "unknown" /\ pc'[e] = "created"
  BY <1>0 DEF Callers
<1>9. RunningInv' /\ SlipInv' /\ CashOutInv'
  <2>1. Running' = Running
    BY <1>8 DEF Running
  <2> QED
    BY <1>8, <2>1 DEF IInv, RunningInv, SlipInv, CashOutInv, CashedOut, Msg
<1>10. ASSUME NEW e \in Deliveries
       PROVE  WhoInv(e)' /\ CallInv(e)' /\ ReplyInv(e)'
  <2>1. WhoInv(e)'
    <3>1. CASE who[e] # NoUser
      <4>1. /\ who[e] \in Callers /\ PhoneOf[who[e]] = PhoneOf[e]
            /\ pc[who[e]] \notin {"idle", "unknown"}
        BY <3>1, TheCall DEF WhoInv
      <4>2. ASSUME who[e] \in Web \cap Made'
            PROVE  \E i \in DOMAIN users' : users'[i] = who[e] /\ Oldest(i, PhoneOf[e])'
        <5>1. who[e] \in Web \cap Made
          BY <1>3, <4>1, <4>2
        <5>2. PICK i \in 1 .. n : users[i] = who[e] /\ Oldest(i, PhoneOf[e])
          BY <1>2, <3>1, <5>1, TheCall DEF WhoInv
        <5>3. /\ i \in DOMAIN users' /\ users'[i] = users[i]
              /\ \A j \in 1 .. i - 1 : users'[j] = users[j]
          <6>1. \A j \in 1 .. i - 1 : j \in 1 .. n
            BY <1>2, <5>2
          <6> QED
            BY <1>2, <5>2, <6>1
        <5> QED
          BY <5>2, <5>3 DEF Oldest
      <4> QED
        BY <1>1, <4>1, <4>2 DEF WhoInv
    <3>2. CASE who[e] = NoUser
      BY <3>2 DEF WhoInv
    <3> QED
      BY <3>1, <3>2
  <2>2. CallInv(e)'
    BY <1>8, TheCall DEF CallInv, Msg, WellFormed
  <2>3. ReplyInv(e)'
    <3>1. CASE pc'[e] = pc[e]
      BY <3>1, RepliesKept
    <3>2. CASE pc'[e] # pc[e]
      BY <1>8, <3>2, TheCall DEF ReplyInv
    <3> QED
      BY <3>1, <3>2
  <2> QED
    BY <2>1, <2>2, <2>3
<1> QED
  BY <1>4, <1>6, <1>7, <1>9, <1>10 DEF IInv

(* A user is made, in the stores or in those that were replaced. *)
LEMMA CreateUserStep ==
  ASSUME IInv, NEW c \in Callers, CreateUser(c)
  PROVE  IInv'
<1> DEFINE at == IF c \in Web THEN "known" ELSE "created"
<1>1. /\ pc' = [pc EXCEPT ![c] = at] /\ pc[c] = "unknown"
      /\ users' = users \/ users' = Append(users, c)
      /\ UNCHANGED <<wallets, saved, detached, moneyVars, bets, callVars, time>>
  BY DEF CreateUser, Go
<1>2. /\ at \in {"unknown", "created", "known", "signed", "done"} /\ at # "unknown"
      /\ c \in Deliveries => at = "created"
  BY ChannelAssumption
<1> HIDE DEF at
<1> QED
  BY <1>1, <1>2, PcStep

(* A registration looks its phone number up, a user signs in. *)
LEMMA WebSteps ==
  ASSUME IInv, NEW w \in Web, Register(w) \/ SignIn(w)
  PROVE  IInv'
<1>1. w \in Callers /\ w \notin Deliveries
  BY ChannelAssumption DEF Callers
<1>2. CASE Register(w)
  <2> DEFINE at == IF Registered(PhoneOf[w]) THEN "done" ELSE "unknown"
  <2>1. /\ pc' = [pc EXCEPT ![w] = at] /\ pc[w] = "idle"
        /\ UNCHANGED <<storeVars, moneyVars, bets, callVars, time>>
    BY <1>2 DEF Register, Go
  <2>2. at \in {"unknown", "created", "known", "signed", "done"}
    OBVIOUS
  <2> HIDE DEF at
  <2> QED
    BY <1>1, <2>1, <2>2, PcStep DEF storeVars
<1>3. CASE SignIn(w)
  BY <1>1, <1>3, PcStep DEF SignIn, Go, storeVars
<1> QED
  BY <1>2, <1>3

(* A wallet begins empty, and is of a user who has not registered. *)
LEMMA CreateWalletStep ==
  ASSUME IInv, NEW d \in Deliveries, CreateWallet(d)
  PROVE  IInv'
<1> USE DEF CreateWallet, moneyVars
<1>1. /\ pc'[d] = "known" /\ \A c \in Callers \ {d} : pc'[c] = pc[c]
      /\ pc' \in [Callers -> Places] /\ pc[d] = "created"
      /\ who' = [who EXCEPT ![d] = d]
      /\ who'[d] = d /\ \A e \in Deliveries \ {d} : who'[e] = who[e]
      /\ wallets \subseteq wallets' /\ wallets' \subseteq Callers
  BY TheCall DEF Go, IInv, TypeOK, Places
<1>2. \A c \in Callers : pc[c] \notin {"idle", "unknown"} => pc'[c] \notin {"idle", "unknown"}
  BY <1>1
<1>3. Made' = Made
  BY DEF Made
<1>4. TypeOK'
  <2>1. \A e \in Deliveries : bets'[e].user \in wallets' \cup {NoUser}
    BY <1>1 DEF IInv, TypeOK
  <2>2. who' \in [Deliveries -> Callers \cup {NoUser}]
    BY <1>1, TheCall DEF IInv, TypeOK
  <2> QED
    BY <1>1, <2>1, <2>2 DEF IInv, TypeOK
<1>5. StoreInv'
  <2>1. \A u : KeepsWallet(u) => KeepsWallet(u)'
    BY <1>1 DEF KeepsWallet
  <2>2. OwnerInv'
    BY <2>1 DEF IInv, StoreInv, OwnerInv
  <2>3. BetInv'
    BY <2>1 DEF IInv, StoreInv, BetInv, Finds
  <2>4. SavedInv'
    BY DEF IInv, StoreInv, SavedInv
  <2>5. MadeInv'
    BY <1>2, <1>3, TheStores DEF IInv, StoreInv, MadeInv
  <2> QED
    BY <2>2, <2>3, <2>4, <2>5 DEF StoreInv
<1>6. MoneyInv'
  BY DEF IInv, MoneyInv, OpenOf, BetsOf, Stakes, Paid
<1>7. \A e \in Deliveries : pc'[e] # pc[e] => e = d /\ pc[e] = "created" /\ pc'[e] = "known"
  BY <1>1 DEF Callers
<1>8. RunningInv' /\ SlipInv' /\ CashOutInv'
  <2>1. Running' = Running
    BY <1>7 DEF Running
  <2> QED
    BY <1>7, <2>1 DEF IInv, RunningInv, SlipInv, CashOutInv, CashedOut, Msg
<1>9. ASSUME NEW e \in Deliveries
      PROVE  WhoInv(e)' /\ CallInv(e)' /\ ReplyInv(e)'
  <2>1. CASE e = d
    <3>1. WhoInv(d)'
      BY <1>1, TheCall, ChannelAssumption DEF WhoInv
    <3>2. CallInv(d)'
      BY <1>1, Message, TheCall DEF CallInv, Msg, WellFormed
    <3>3. ReplyInv(d)'
      BY <1>1, TheCall DEF ReplyInv
    <3> QED
      BY <2>1, <3>1, <3>2, <3>3
  <2>2. CASE e # d
    <3>1. who'[e] = who[e] /\ pc'[e] = pc[e]
      BY <1>1, <1>7, <2>2
    <3>2. WhoInv(e)'
      BY <1>2, <3>1, WhoKept
    <3>3. CallInv(e)'
      BY <3>1, TheCall DEF CallInv, Msg, WellFormed
    <3>4. ReplyInv(e)'
      BY <3>1, RepliesKept
    <3> QED
      BY <3>2, <3>3, <3>4
  <2> QED
    BY <2>1, <2>2
<1> QED
  BY <1>4, <1>5, <1>6, <1>8, <1>9 DEF IInv

(* A transaction throws: the users who were made before it began are the   *)
(* first ones, those who have bets and money are among them.               *)
LEMMA RollbackStep ==
  ASSUME IInv, NEW d \in Deliveries, pc[d] \in {"placing", "cashing"},
         Answer(d, "REJECTED", NoBet), Rollback,
         UNCHANGED <<moneyVars, bets, who, asked, quote, time>>
  PROVE  IInv'
<1> USE DEF moneyVars
<1> DEFINE r == [status |-> "REJECTED", bet |-> NoBet]
           n == Len(saved[1].users)
<1>1. saved # <<>> /\ \A e \in Running : e = d
  BY DEF IInv, RunningInv, Running
<1>2. /\ pc' = [pc EXCEPT ![d] = "done"] /\ reply' = [reply EXCEPT ![d] = r]
      /\ users' = saved[1].users /\ wallets' = saved[1].wallets /\ saved' = <<>>
  BY DEF Answer, Go, Rollback
<1>3. /\ pc'[d] = "done" /\ \A c \in Callers \ {d} : pc'[c] = pc[c]
      /\ pc' \in [Callers -> Places]
      /\ reply'[d] = r /\ \A e \in Deliveries \ {d} : reply'[e] = reply[e]
      /\ reply' \in [Deliveries -> Replies]
  <2>1. r \in Replies
    BY DEF Replies
  <2> QED
    BY <1>2, <2>1, TheCall DEF IInv, TypeOK, Places
<1>4. \A c \in Callers : pc[c] \notin {"idle", "unknown"} => pc'[c] \notin {"idle", "unknown"}
  BY <1>3
<1>5. /\ users' \in Seq(Callers) /\ n \in Nat /\ DOMAIN users' = 1 .. n
      /\ n <= Len(users) /\ \A i \in 1 .. n : users'[i] = users[i]
      /\ 1 .. n \subseteq DOMAIN users
      /\ wallets' \subseteq Callers
  BY <1>1, <1>2, TheStores DEF IInv, StoreInv, SavedInv
<1> HIDE DEF n, r
<1>6. Made' \subseteq Made
  BY <1>5 DEF Made
<1>7. TypeOK'
  <2>1. \A i, j \in DOMAIN users' : i # j => users'[i] # users'[j]
    BY <1>5 DEF IInv, TypeOK
  <2>2. \A e \in Deliveries : bets'[e].user \in wallets' \cup {NoUser}
    BY <1>1, <1>2 DEF IInv, StoreInv, BetInv, KeepsWallet, SlipInv, NoSlip
  <2>3. saved' \in Seq([users: Seq(Callers), wallets: SUBSET Callers]) /\ Len(saved') \in 0 .. 1
    BY <1>2
  <2>4. detached' \subseteq Callers
    BY DEF Rollback, IInv, TypeOK
  <2> QED
    BY <1>3, <1>5, <2>1, <2>2, <2>3, <2>4 DEF IInv, TypeOK
<1>8. StoreInv'
  <2>1. OwnerInv'
    BY <1>1, <1>2 DEF IInv, StoreInv, OwnerInv, KeepsWallet
  <2>2. BetInv'
    <3>1. \A b \in Deliveries : Finds(saved[1].users, b) => Finds(users, b)'
      BY <1>2 DEF Finds
    <3> QED
      BY <1>1, <1>2, <3>1 DEF IInv, StoreInv, BetInv, KeepsWallet
  <2>3. SavedInv'
    BY <1>2 DEF SavedInv
  <2>4. MadeInv'
    BY <1>4, <1>6, TheStores DEF IInv, StoreInv, MadeInv
  <2> QED
    BY <2>1, <2>2, <2>3, <2>4 DEF StoreInv
<1>9. MoneyInv'
  BY DEF IInv, MoneyInv, OpenOf, BetsOf, Stakes, Paid
<1>10. \A e \in Deliveries \ {d} : pc'[e] = pc[e]
  BY <1>3 DEF Callers
<1>11. RunningInv' /\ SlipInv'
  BY <1>1, <1>3, <1>10 DEF IInv, RunningInv, Running, SlipInv
<1>12. CashOutInv'
  <2>1. ~CashedOut(d)' /\ ~CashedOut(d) /\ \A e \in Deliveries \ {d} : CashedOut(e)' <=> CashedOut(e)
    BY <1>3, TheCall DEF CashedOut, Msg, ReplyInv, r
  <2> QED
    BY <2>1 DEF IInv, CashOutInv, Msg
<1>13. ASSUME NEW e \in Deliveries
       PROVE  WhoInv(e)'
  <2>1. CASE who[e] # NoUser
    <3>1. /\ who[e] \in Callers /\ PhoneOf[who[e]] = PhoneOf[e]
          /\ pc[who[e]] \notin {"idle", "unknown"}
      BY <2>1, TheCall DEF WhoInv
    <3>2. ASSUME who[e] \in Web \cap Made'
          PROVE  \E i \in DOMAIN users' : users'[i] = who[e] /\ Oldest(i, PhoneOf[e])'
      <4>1. PICK k \in 1 .. n : users'[k] = who[e]
        BY <1>5, <3>2 DEF Made
      <4>2. PICK i \in DOMAIN users : users[i] = who[e] /\ Oldest(i, PhoneOf[e])
        BY <1>6, <2>1, <3>2, TheCall DEF WhoInv
      <4>3. i = k
        BY <1>5, <4>1, <4>2 DEF IInv, TypeOK
      <4>4. \A j \in 1 .. k - 1 : users'[j] = users[j]
        BY <1>5, <4>1
      <4> QED
        BY <1>5, <4>1, <4>2, <4>3, <4>4 DEF Oldest
    <3> QED
      BY <1>4, <3>1, <3>2 DEF WhoInv
  <2>2. CASE who[e] = NoUser
    BY <2>2 DEF WhoInv
  <2> QED
    BY <2>1, <2>2
<1>14. ASSUME NEW e \in Deliveries
       PROVE  CallInv(e)' /\ ReplyInv(e)'
  <2>1. CASE e = d
    BY <1>3, <2>1 DEF CallInv, ReplyInv, r
  <2>2. CASE e # d
    <3>1. CallInv(e)'
      BY <1>10, <2>2, TheCall DEF CallInv, Msg, WellFormed
    <3>2. ReplyInv(e)'
      BY <1>3, <1>10, <2>2, RepliesKept
    <3> QED
      BY <3>1, <3>2
  <2> QED
    BY <2>1, <2>2
<1> QED
  BY <1>7, <1>8, <1>9, <1>11, <1>12, <1>13, <1>14 DEF IInv

-----------------------------------------------------------------------------
(* The steps that only read. *)

(* An answer changes nothing else; told accepted, the message names a bet  *)
(* with its key.  A transaction may end with it.                           *)
LEMMA AnswerStep ==
  ASSUME IInv, NEW d \in Deliveries, pc[d] \notin {"done", "created", "unknown"},
         NEW status \in {"SHOWN", "REJECTED", "ACCEPTED", "PROCESSED"},
         NEW bet \in Deliveries \cup {NoBet}, Answer(d, status, bet),
         status = "PROCESSED" => ~(Msg(d).kind = "cancel" /\ d \in HasCashout),
         status = "ACCEPTED" /\ d \in HasBetting =>
           bet \in Deliveries /\ bets[bet].status # "NONE" /\ bet # d /\ bets[bet].key = KeyOf(d),
         \/ saved' = saved /\ pc[d] \notin {"placing", "cashing"}
         \/ Commit /\ pc[d] \in {"placing", "cashing"},
         UNCHANGED <<users, wallets, detached, moneyVars, bets, who, asked, quote, time>>
  PROVE  IInv'
<1> DEFINE r == [status |-> status, bet |-> bet]
<1>1. /\ r \in Replies
      /\ pc' = [pc EXCEPT ![d] = "done"] /\ reply' = [reply EXCEPT ![d] = r]
      /\ who' = [who EXCEPT ![d] = who[d]] /\ quote' = [quote EXCEPT ![d] = quote[d]]
      /\ asked' = [asked EXCEPT ![d] = asked[d]]
  BY TheCall DEF Answer, Go, Replies
<1>2. pc'[d] = "done" /\ reply'[d] = r /\ \A c \in Callers \ {d} : pc'[c] = pc[c]
  BY <1>1, TheCall DEF IInv, TypeOK
<1>3. CallInv(d)'
  BY <1>2 DEF CallInv
<1>4. ReplyInv(d)'
  BY <1>2 DEF ReplyInv, AsAsked, KeyOf, Msg
<1>5. WhoInv(d)'
  <2>1. \A c \in Callers : pc[c] \notin {"idle", "unknown"} => pc'[c] \notin {"idle", "unknown"}
    BY <1>2
  <2> QED
    BY <2>1, WhoKept
<1> HIDE DEF r
<1>6. r.status = "PROCESSED" => ~(Msg(d).kind = "cancel" /\ d \in HasCashout)
  BY DEF r
<1>7. "done" \in Places \ {"idle"}
  BY DEF Places
<1> QED
  BY <1>1, <1>3, <1>4, <1>5, <1>6, <1>7, TheCall, QuietStep

(* A handler that goes on with what it has established, into a transaction *)
(* or not.                                                                 *)
LEMMA GoStep ==
  ASSUME IInv, NEW d \in Deliveries,
         pc[d] \notin {"done", "created", "unknown", "placing", "cashing"},
         NEW at \in {"unknown", "known", "funded", "placing", "open", "quoted", "cashing"},
         Go(d, at), at = "unknown" => pc[d] = "idle",
         \/ saved' = saved /\ at \notin {"placing", "cashing"}
         \/ Begin /\ at \in {"placing", "cashing"},
         NEW u \in Callers \cup {NoUser}, who' = [who EXCEPT ![d] = u],
         NEW a \in 0 .. MaxTime, asked' = [asked EXCEPT ![d] = a],
         NEW q \in Nat, quote' = [quote EXCEPT ![d] = q],
         time' \in 0 .. MaxTime,
         UNCHANGED <<users, wallets, detached, moneyVars, bets, reply>>,
         WhoInv(d)', CallInv(d)'
  PROVE  IInv'
<1>1. pc' = [pc EXCEPT ![d] = at] /\ pc'[d] = at
  BY TheCall DEF Go, IInv, TypeOK
<1>2. reply[d].status = "NONE"
  BY TheCall DEF ReplyInv
<1>3. ReplyInv(d)'
  BY <1>1, <1>2 DEF ReplyInv
<1>4. at \in Places \ {"idle"} /\ at # "done"
  BY DEF Places
<1>5. reply[d] \in Replies /\ reply' = [reply EXCEPT ![d] = reply[d]]
  BY TheCall
<1> QED
  BY <1>1, <1>2, <1>3, <1>4, <1>5, QuietStep

(* The handler of d, and no other, has moved on. *)
LEMMA Moved ==
  ASSUME IInv, NEW d \in Deliveries, NEW at \in Places \ {"idle", "unknown"}, Go(d, at)
  PROVE  /\ pc'[d] = at
         /\ \A c \in Callers : pc[c] \notin {"idle", "unknown"} => pc'[c] \notin {"idle", "unknown"}
BY TheCall DEF Go, IInv, TypeOK

(* A message arrives: its phone is looked up, or it is answered at once. *)
LEMMA ArriveStep ==
  ASSUME IInv, NEW d \in Deliveries, Arrive(d)
  PROVE  IInv'
<1> USE DEF Arrive, moneyVars, storeVars
<1>0. pc[d] = "idle" /\ Msg(d).kind \in {"screen", "ask", "bet", "cancel"}
  BY Message
<1>1. CASE Answer(d, "SHOWN", NoBet) /\ UNCHANGED who
  BY <1>0, <1>1, AnswerStep
<1>2. CASE Answer(d, "REJECTED", NoBet) /\ UNCHANGED who
  BY <1>0, <1>2, AnswerStep
<1>3. CASE /\ Msg(d).kind = "bet" => WellFormed(d)
           /\ Go(d, "unknown") /\ UNCHANGED <<who, reply>>
  <2>1. pc'[d] = "unknown" /\ \A c \in Callers \ {d} : pc'[c] = pc[c]
    BY <1>3, TheCall DEF Go, IInv, TypeOK
  <2>2. WhoInv(d)'
    <3>1. who[d] # NoUser => who[d] # d
      BY <1>0, TheCall DEF WhoInv
    <3> QED
      BY <1>3, <2>1, <3>1, TheCall DEF WhoInv, Made, Oldest
  <2>3. CallInv(d)'
    BY <1>3, <2>1 DEF CallInv, WellFormed, Msg
  <2> QED
    BY <1>0, <1>3, <2>2, <2>3, TheCall, GoStep
<1>4. CASE /\ Msg(d).kind = "bet" => WellFormed(d)
           /\ \E i \in DOMAIN users :
                Oldest(i, PhoneOf[d]) /\ who' = [who EXCEPT ![d] = users[i]]
           /\ Go(d, "known") /\ UNCHANGED reply
  <2>0. PICK i \in DOMAIN users :
               Oldest(i, PhoneOf[d]) /\ who' = [who EXCEPT ![d] = users[i]]
    BY <1>4
  <2>1. /\ pc'[d] = "known"
        /\ \A c \in Callers : pc[c] \notin {"idle", "unknown"} => pc'[c] \notin {"idle", "unknown"}
    BY <1>4, Moved DEF Places
  <2>2. /\ users[i] \in Callers /\ users[i] \in Made /\ who'[d] = users[i]
        /\ PhoneOf[users[i]] = PhoneOf[d] /\ pc[users[i]] \notin {"idle", "unknown"}
    BY <2>0, TheStores DEF Oldest, IInv, TypeOK, StoreInv, MadeInv, Made
  <2>3. WhoInv(d)'
    BY <2>0, <2>1, <2>2 DEF WhoInv, Oldest
  <2>4. CallInv(d)'
    BY <1>4, <2>1, <2>2, ChannelAssumption DEF CallInv, WellFormed, Msg
  <2> QED
    BY <1>0, <1>4, <2>0, <2>2, <2>3, <2>4, TheCall, GoStep
<1> QED
  BY <1>0, <1>1, <1>2, <1>3, <1>4

(* A balance is told, a bet is accepted again, the stores are put back     *)
(* when a bet or a cash-out is refused.                                    *)
LEMMA EndingSteps ==
  ASSUME IInv, NEW d \in Deliveries,
         Tell(d) \/ Repeat(d) \/ Refuse(d) \/ FailCashout(d)
  PROVE  IInv'
<1> USE DEF storeVars
<1>1. CASE Tell(d)
  BY <1>1, AnswerStep DEF Tell
<1>2. CASE Refuse(d)
  BY <1>2, RollbackStep DEF Refuse
<1>3. CASE FailCashout(d)
  BY <1>3, RollbackStep DEF FailCashout
<1>4. CASE Repeat(d)
  <2>1. PICK b \in SameKey(d) : Answer(d, "ACCEPTED", b)
    BY <1>4 DEF Repeat
  <2>2. b \in Deliveries /\ bets[b].status # "NONE" /\ bets[b].key = KeyOf(d)
    BY DEF SameKey
  <2>3. pc[d] = "placing"
    BY <1>4 DEF Repeat
  <2>4. b # d
    BY <2>2, <2>3 DEF IInv, SlipInv
  <2> QED
    BY <1>4, <2>1, <2>2, <2>3, <2>4, AnswerStep DEF Repeat
<1> QED
  BY <1>1, <1>2, <1>3, <1>4

(* A balance is compared with the stake and the clock read. *)
LEMMA ReadWalletStep ==
  ASSUME IInv, NEW d \in Deliveries, ReadWallet(d)
  PROVE  IInv'
<1> USE DEF ReadWallet, storeVars
<1>1. CASE Answer(d, "REJECTED", NoBet) /\ UNCHANGED <<asked, time>>
  BY <1>1, AnswerStep
<1>2. CASE d \notin HasBetting /\ Answer(d, "ACCEPTED", NoBet) /\ UNCHANGED <<asked, time>>
  BY <1>2, AnswerStep
<1>3. CASE /\ Go(d, "funded") /\ UNCHANGED reply
           /\ time' \in time .. MaxTime
           /\ asked' = [asked EXCEPT ![d] = time']
  <2>1. /\ pc'[d] = "funded"
        /\ \A c \in Callers : pc[c] \notin {"idle", "unknown"} => pc'[c] \notin {"idle", "unknown"}
    BY <1>3, Moved DEF Places
  <2>2. WhoInv(d)'
    BY <2>1, WhoKept
  <2>3. CallInv(d)'
    BY <2>1, TheCall DEF CallInv, WellFormed, Msg
  <2>4. time' \in 0 .. MaxTime
    BY <1>3, TheCall, ChannelAssumption
  <2>5. /\ who' = [who EXCEPT ![d] = who[d]] /\ who[d] \in Callers \cup {NoUser}
        /\ quote' = [quote EXCEPT ![d] = quote[d]] /\ quote[d] \in Nat
    BY TheCall
  <2>6. pc[d] = "known" /\ saved' = saved /\ UNCHANGED <<users, wallets, detached, moneyVars, bets>>
    OBVIOUS
  <2> QED
    BY <1>3, <2>2, <2>3, <2>4, <2>5, <2>6, GoStep
<1> QED
  BY <1>1, <1>2, <1>3

(* The transactions of placeBet and executeCashout begin. *)
LEMMA BeginSteps ==
  ASSUME IInv, NEW d \in Deliveries, BeginPlacement(d) \/ BeginCashout(d)
  PROVE  IInv'
<1> USE DEF callVars
<1>1. PICK at \in {"placing", "cashing"} :
        /\ Go(d, at) /\ Begin
        /\ pc[d] = IF at = "placing" THEN "funded" ELSE "quoted"
        /\ UNCHANGED <<users, wallets, detached, moneyVars, bets, callVars, time>>
  BY DEF BeginPlacement, BeginCashout
<1>2. /\ pc'[d] = at
      /\ \A c \in Callers : pc[c] \notin {"idle", "unknown"} => pc'[c] \notin {"idle", "unknown"}
  BY <1>1, Moved DEF Places
<1>3. WhoInv(d)'
  BY <1>1, <1>2, WhoKept
<1>4. CallInv(d)'
  BY <1>1, <1>2, TheCall DEF CallInv, WellFormed, Msg
<1> QED
  BY <1>1, <1>3, <1>4, TheCall, GoStep

(* A cancellation goes on with a bet of the same phone. *)
LEMMA ReadBetStep ==
  ASSUME IInv, NEW d \in Deliveries, ReadBet(d)
  PROVE  IInv'
<1> DEFINE b == Msg(d).target
<1> USE DEF ReadBet, storeVars
<1>1. CASE Answer(d, "REJECTED", NoBet)
  BY <1>1, AnswerStep
<1>2. CASE d \notin HasCashout /\ Answer(d, "PROCESSED", NoBet)
  BY <1>2, AnswerStep
<1>3. CASE /\ Open(b) /\ bets[b].user = who[d] /\ d \in HasCashout
           /\ Go(d, "open") /\ UNCHANGED reply
  <2>1. /\ pc'[d] = "open"
        /\ \A c \in Callers : pc[c] \notin {"idle", "unknown"} => pc'[c] \notin {"idle", "unknown"}
    BY <1>3, Moved DEF Places
  <2>2. b \in Deliveries /\ bets[b].status # "NONE"
    BY <1>3, Message DEF Open
  <2>3. PhoneOf[bets[b].user] = PhoneOf[b]
    BY <2>2 DEF IInv, StoreInv, BetInv, Finds
  <2>4. PhoneOf[who[d]] = PhoneOf[d]
    BY TheCall DEF CallInv, WhoInv
  <2>5. WhoInv(d)'
    BY <2>1, WhoKept
  <2>6. CallInv(d)'
    BY <1>3, <2>1, <2>2, <2>3, <2>4, TheCall DEF CallInv, Msg
  <2> QED
    BY <1>3, <2>5, <2>6, TheCall, GoStep
<1> QED
  BY <1>1, <1>2, <1>3

(* A quote is an amount. *)
LEMMA GetQuoteStep ==
  ASSUME IInv, NEW d \in Deliveries, GetQuote(d)
  PROVE  IInv'
<1> DEFINE b == Msg(d).target
           q == (PayoutOf[b] * 80) \div 100
<1> USE DEF GetQuote, storeVars
<1>1. CASE Answer(d, "REJECTED", NoBet) /\ UNCHANGED quote
  BY <1>1, AnswerStep
<1>2. CASE Open(b) /\ Go(d, "quoted") /\ quote' = [quote EXCEPT ![d] = q] /\ UNCHANGED reply
  <2>1. /\ pc'[d] = "quoted"
        /\ \A c \in Callers : pc[c] \notin {"idle", "unknown"} => pc'[c] \notin {"idle", "unknown"}
    BY <1>2, Moved DEF Places
  <2>2. WhoInv(d)'
    BY <2>1, WhoKept
  <2>3. CallInv(d)'
    BY <2>1, TheCall DEF CallInv, Msg
  <2>4. q \in Nat
    <3>1. PayoutOf[b] \in Nat
      BY <1>2, Message DEF Open
    <3> QED
      BY <3>1
  <2> HIDE DEF q
  <2> QED
    BY <1>2, <2>2, <2>3, <2>4, TheCall, GoStep
<1> QED
  BY <1>1, <1>2

-----------------------------------------------------------------------------
(* The steps that change the money and the bets. *)

(* A bet b is closed for an amount: its stake is released and its owner,   *)
(* who has registered, is paid.                                            *)
LEMMA CloseBet ==
  ASSUME IInv, NEW b \in Deliveries, MayCashOut(b),
         NEW status \in {"CASHED_OUT", "SETTLED"}, NEW amount \in Nat,
         available' = [available EXCEPT ![bets[b].user] = @ + amount],
         held' = [held EXCEPT ![bets[b].user] = Released(bets[b].user, bets[b].stake)],
         bets' = [bets EXCEPT ![b].status = status, ![b].paid = amount],
         UNCHANGED <<users, wallets, deposited>>, saved' = saved \/ Commit,
         \A c \in Callers : pc[c] \notin {"idle", "unknown"} => pc'[c] \notin {"idle", "unknown"}
  PROVE  /\ bets'[b].status = status /\ bets'[b].paid = amount
         /\ \A c \in Deliveries \ {b} : bets'[c] = bets[c]
         /\ \A c \in Deliveries :
              /\ bets'[c] \in Slips /\ bets'[c].user \in wallets \cup {NoUser}
              /\ bets'[c].status = "NONE" <=> bets[c].status = "NONE"
              /\ bets'[c].user = bets[c].user /\ bets'[c].key = bets[c].key
              /\ bets'[c].stake = bets[c].stake /\ bets'[c].legs = bets[c].legs
         /\ bets' \in [Deliveries -> Slips]
         /\ available' \in [Callers -> Nat] /\ held' \in [Callers -> Nat]
         /\ MoneyInv' /\ StoreInv'
<1>1. /\ bets \in [Deliveries -> Slips] /\ available \in [Callers -> Nat]
      /\ held \in [Callers -> Nat] /\ deposited \in [Callers -> Nat]
      /\ \A c \in Deliveries : bets[c].user \in wallets \cup {NoUser}
  BY DEF IInv, TypeOK
<1>2. bets[b].status = "PLACED" /\ bets[b].paid = 0
  BY DEF MayCashOut, IInv, SlipInv
<1>3. PICK u \in Callers : u = bets[b].user /\ u \in Web /\ KeepsWallet(u)
  BY <1>2 DEF IInv, StoreInv, BetInv, Callers
<1>4. /\ bets'[b] = [bets[b] EXCEPT !.status = status, !.paid = amount]
      /\ \A c \in Deliveries \ {b} : bets'[c] = bets[c]
      /\ bets' \in [Deliveries -> Slips]
  <2>1. bets[b] \in Slips
    BY <1>1
  <2>2. [bets[b] EXCEPT !.status = status, !.paid = amount] \in Slips
    BY <2>1 DEF Slips
  <2>3. bets' = [bets EXCEPT ![b] = [bets[b] EXCEPT !.status = status, !.paid = amount]]
    BY <1>1
  <2> QED
    BY <1>1, <2>2, <2>3
<1>5. /\ bets'[b].status = status /\ bets'[b].paid = amount
      /\ bets'[b].user = bets[b].user /\ bets'[b].key = bets[b].key
      /\ bets'[b].stake = bets[b].stake /\ bets'[b].legs = bets[b].legs
  BY <1>1, <1>4 DEF Slips
<1>6. /\ \A v : BetsOf(v)' = BetsOf(v)
      /\ \A v : OpenOf(v)' = OpenOf(v) \ {b}
  BY <1>4, <1>5 DEF BetsOf, OpenOf
<1>7. /\ \A c \in Deliveries : Stakes'[c] = Stakes[c]
      /\ Paid'[b] = amount /\ Paid[b] = 0
      /\ \A c \in Deliveries \ {b} : Paid'[c] = Paid[c]
      /\ \A c \in Deliveries : Paid'[c] \in Nat
  BY <1>1, <1>2, <1>4, <1>5, Amounts DEF Stakes, Paid
<1>8. b \in BetsOf(u) /\ b \in OpenOf(u)
  BY <1>2, <1>3 DEF BetsOf, OpenOf
<1>9. ASSUME NEW v \in Callers
      PROVE  Total(OpenOf(v), Stakes') = Total(OpenOf(v), Stakes)
  BY <1>7, TotalSameAmounts, Amounts
<1>10. held'[u] = Total(OpenOf(u)', Stakes')
  <2>1. /\ Total(OpenOf(u) \ {b}, Stakes) = Total(OpenOf(u), Stakes) - Total({b}, Stakes)
        /\ Total({b}, Stakes) <= Total(OpenOf(u), Stakes)
    BY <1>8, Amounts, TotalDifference
  <2>2. Total({b}, Stakes) = bets[b].stake
    BY Amounts, TotalSingleton
  <2>3. Total(OpenOf(u), Stakes) \in Nat /\ bets[b].stake \in Nat
    BY Amounts, CentsFinite
  <2>4. held[u] = Total(OpenOf(u), Stakes)
    BY <1>3 DEF IInv, MoneyInv
  <2>5. held'[u] = Total(OpenOf(u) \ {b}, Stakes)
    BY <1>1, <1>3, <2>1, <2>2, <2>3, <2>4 DEF Released
  <2>6. Total(OpenOf(u) \ {b}, Stakes') = Total(OpenOf(u) \ {b}, Stakes)
    BY <1>7, TotalSameAmounts, Amounts
  <2> QED
    BY <1>6, <2>5, <2>6
<1>11. Total(BetsOf(u)', Stakes') = Total(BetsOf(u), Stakes)
  BY <1>6, <1>7, TotalSameAmounts, Amounts
<1>12. Total(BetsOf(u)', Paid') = Total(BetsOf(u), Paid) + amount
  <2>1. Total({b}, Paid) = Paid[b] /\ Total({b}, Paid') = Paid'[b]
    BY <1>7, TotalSingleton, Amounts
  <2>2. Total(BetsOf(u), Paid') = Total(BetsOf(u), Paid) - Total({b}, Paid) + Total({b}, Paid')
    BY <1>7, <1>8, Amounts, TotalReplace
  <2>3. Total(BetsOf(u), Paid) \in Nat
    BY Amounts, CentsFinite
  <2> QED
    BY <1>6, <1>7, <2>1, <2>2, <2>3
<1>13. /\ available' \in [Callers -> Nat] /\ held' \in [Callers -> Nat]
       /\ available'[u] = available[u] + amount
       /\ \A v \in Callers \ {u} : available'[v] = available[v] /\ held'[v] = held[v]
  <2>1. bets[b].stake \in Nat
    BY Amounts
  <2>2. Released(u, bets[b].stake) \in Nat
    BY <1>1, <2>1 DEF Released
  <2> QED
    BY <1>1, <1>3, <2>2
<1>14. MoneyInv'
  <2>1. ASSUME NEW v \in Callers, v # u
        PROVE  /\ held'[v] = Total(OpenOf(v)', Stakes')
               /\ available'[v] + Total(BetsOf(v)', Stakes')
                    = deposited'[v] + Total(BetsOf(v)', Paid')
    <3>1. OpenOf(v)' = OpenOf(v) /\ BetsOf(v)' = BetsOf(v) /\ b \notin BetsOf(v)
      <4>1. b \notin BetsOf(v) /\ b \notin OpenOf(v)
        BY <1>3, <2>1 DEF OpenOf, BetsOf
      <4>2. BetsOf(v)' = BetsOf(v) /\ OpenOf(v)' = OpenOf(v) \ {b}
        BY <1>6
      <4> QED
        BY <4>1, <4>2
    <3>2. /\ Total(BetsOf(v), Stakes') = Total(BetsOf(v), Stakes)
          /\ Total(BetsOf(v), Paid') = Total(BetsOf(v), Paid)
      BY <1>7, <3>1, TotalSameAmounts, Amounts
    <3> QED
      BY <1>9, <1>13, <2>1, <3>1, <3>2 DEF IInv, MoneyInv
  <2>2. available'[u] + Total(BetsOf(u)', Stakes') = deposited'[u] + Total(BetsOf(u)', Paid')
    <3>1. /\ Total(BetsOf(u), Paid) \in Nat /\ Total(BetsOf(u), Stakes) \in Nat
          /\ available[u] \in Nat /\ deposited[u] \in Nat
      BY <1>1, <1>3, Amounts, CentsFinite
    <3>2. available[u] + Total(BetsOf(u), Stakes) = deposited[u] + Total(BetsOf(u), Paid)
      BY <1>3 DEF IInv, MoneyInv
    <3> QED
      BY <1>11, <1>12, <1>13, <3>1, <3>2
  <2> QED
    BY <1>10, <2>1, <2>2 DEF MoneyInv
<1>15. Made' = Made /\ \A v : KeepsWallet(v) => KeepsWallet(v)'
  BY DEF Made, KeepsWallet, Commit
<1>16. OwnerInv'
  BY <1>3, <1>13, <1>15 DEF IInv, StoreInv, OwnerInv
<1>17. BetInv'
  <2>1. ASSUME NEW c \in Deliveries, bets'[c].status # "NONE"
        PROVE  (/\ bets[c].user \in Web /\ KeepsWallet(bets[c].user)
                /\ Finds(users, c) /\ (saved # <<>> => Finds(saved[1].users, c)))'
    <3>1. bets[c].status # "NONE" /\ bets'[c].user = bets[c].user
      BY <1>2, <1>4, <1>5, <2>1
    <3>2. /\ bets[c].user \in Web /\ KeepsWallet(bets[c].user)
          /\ Finds(users, c) /\ (saved # <<>> => Finds(saved[1].users, c))
      BY <3>1 DEF IInv, StoreInv, BetInv
    <3>3. Finds(users, c)'
      BY <3>1, <3>2 DEF Finds
    <3>4. ASSUME saved' # <<>>
          PROVE  Finds(saved[1].users, c)'
      <4>1. saved' = saved
        BY <3>4 DEF Commit
      <4> QED
        BY <3>1, <3>2, <3>4, <4>1 DEF Finds
    <3>5. KeepsWallet(bets[c].user)'
      BY <1>15, <3>1, <3>2 DEF KeepsWallet
    <3> QED
      BY <3>1, <3>2, <3>3, <3>4, <3>5
  <2> QED
    BY <2>1 DEF BetInv
<1>18. SavedInv' /\ MadeInv'
  <2>1. SavedInv'
    BY DEF IInv, StoreInv, SavedInv, Commit
  <2>2. MadeInv'
    BY <1>15, TheStores DEF IInv, StoreInv, MadeInv
  <2> QED
    BY <2>1, <2>2
<1> QED
  BY <1>1, <1>2, <1>4, <1>5, <1>13, <1>14, <1>16, <1>17, <1>18 DEF StoreInv

(* A deposit is credited to a user who has registered. *)
LEMMA PayInStep ==
  ASSUME IInv, NEW u \in Web, PayIn(u)
  PROVE  IInv'
<1>0. /\ UNCHANGED <<users, saved, detached, held, bets>>
      /\ UNCHANGED <<pc, who, asked, quote, reply, time>>
      /\ saved = <<>> /\ wallets' = wallets \cup {u} /\ u \in Callers
      /\ available' = [available EXCEPT ![u] = @ + Deposit]
      /\ deposited' = [deposited EXCEPT ![u] = @ + Deposit]
  BY DEF PayIn, callVars, Idle, Callers
<1>1. /\ available' \in [Callers -> Nat] /\ deposited' \in [Callers -> Nat]
      /\ available'[u] = available[u] + Deposit /\ deposited'[u] = deposited[u] + Deposit
      /\ \A v \in Callers \ {u} : available'[v] = available[v] /\ deposited'[v] = deposited[v]
  <2>1. Deposit \in Nat /\ available \in [Callers -> Nat] /\ deposited \in [Callers -> Nat]
    BY ChannelAssumption DEF IInv, TypeOK
  <2> QED
    BY <1>0, <2>1
<1>2. TypeOK'
  <2>1. /\ wallets' \subseteq Callers
        /\ \A d \in Deliveries : bets'[d].user \in wallets' \cup {NoUser}
        /\ \A j, k \in DOMAIN users' : j # k => users'[j] # users'[k]
    BY <1>0 DEF IInv, TypeOK
  <2> QED
    BY <1>0, <1>1, <2>1 DEF IInv, TypeOK
<1>3. StoreInv'
  <2>1. Made' = Made /\ \A v : KeepsWallet(v) => KeepsWallet(v)'
    BY <1>0 DEF Made, KeepsWallet
  <2>2. OwnerInv'
    BY <1>0, <1>1, <2>1 DEF IInv, StoreInv, OwnerInv, KeepsWallet
  <2>3. BetInv'
    BY <1>0, <2>1 DEF IInv, StoreInv, BetInv, Finds
  <2>4. SavedInv' /\ MadeInv'
    BY <1>0, <2>1 DEF IInv, StoreInv, SavedInv, MadeInv
  <2> QED
    BY <2>2, <2>3, <2>4 DEF StoreInv
<1>4. MoneyInv'
  <2>1. Stakes' = Stakes /\ Paid' = Paid /\ \A v : BetsOf(v)' = BetsOf(v) /\ OpenOf(v)' = OpenOf(v)
    BY <1>0 DEF Stakes, Paid, BetsOf, OpenOf
  <2>2. \A v \in Callers : /\ Total(BetsOf(v), Stakes) \in Nat /\ Total(BetsOf(v), Paid) \in Nat
                           /\ available[v] \in Nat /\ deposited[v] \in Nat
    BY Amounts, CentsFinite DEF IInv, TypeOK
  <2>3. \A v \in Callers :
           /\ held[v] = Total(OpenOf(v), Stakes)
           /\ available[v] + Total(BetsOf(v), Stakes) = deposited[v] + Total(BetsOf(v), Paid)
    BY DEF IInv, MoneyInv
  <2>4. Deposit \in Nat
    BY ChannelAssumption
  <2>5. ASSUME NEW v \in Callers
        PROVE  /\ held[v] = Total(OpenOf(v), Stakes)
               /\ available'[v] + Total(BetsOf(v), Stakes) = deposited'[v] + Total(BetsOf(v), Paid)
    <3>1. /\ Total(BetsOf(v), Stakes) \in Nat /\ Total(BetsOf(v), Paid) \in Nat
          /\ available[v] \in Nat /\ deposited[v] \in Nat
          /\ held[v] = Total(OpenOf(v), Stakes)
          /\ available[v] + Total(BetsOf(v), Stakes) = deposited[v] + Total(BetsOf(v), Paid)
      BY <2>2, <2>3
    <3>2. \/ available'[v] = available[v] /\ deposited'[v] = deposited[v]
          \/ available'[v] = available[v] + Deposit /\ deposited'[v] = deposited[v] + Deposit
      BY <1>1
    <3> QED
      BY <2>4, <3>1, <3>2
  <2> QED
    BY <1>0, <2>1, <2>5 DEF MoneyInv
<1>5. RunningInv' /\ SlipInv' /\ CashOutInv'
  BY <1>0 DEF IInv, RunningInv, Running, SlipInv, CashOutInv, CashedOut, Msg
<1>6. ASSUME NEW e \in Deliveries
      PROVE  WhoInv(e)' /\ CallInv(e)' /\ ReplyInv(e)'
  <2>1. WhoInv(e)'
    BY <1>0, WhoKept
  <2>2. CallInv(e)'
    BY <1>0, TheCall DEF CallInv, Msg, WellFormed
  <2>3. ReplyInv(e)'
    BY <1>0, RepliesKept
  <2> QED
    BY <2>1, <2>2, <2>3
<1> QED
  BY <1>2, <1>3, <1>4, <1>5, <1>6 DEF IInv

(* The bet is new: its owner has paid the stake and has it held. *)
LEMMA PlaceStep ==
  ASSUME IInv, NEW d \in Deliveries, Place(d)
  PROVE  IInv'
<1> DEFINE slip == [status |-> "PLACED", user |-> who[d], key |-> KeyOf(d),
                    stake |-> StakeOf(d), legs |-> Selected(d), paid |-> 0]
           r == [status |-> "ACCEPTED", bet |-> d]
<1>0. /\ available' = [available EXCEPT ![who[d]] = @ - StakeOf(d)]
      /\ held' = [held EXCEPT ![who[d]] = @ + StakeOf(d)]
      /\ bets' = [bets EXCEPT ![d] = slip]
      /\ pc[d] = "placing" /\ who[d] \in Made /\ available[who[d]] >= StakeOf(d)
      /\ pc' = [pc EXCEPT ![d] = "done"] /\ reply' = [reply EXCEPT ![d] = r]
      /\ UNCHANGED <<users, wallets, detached, deposited, who, asked, quote, time>>
      /\ saved' = <<>>
  BY DEF Place, Affordable, Answer, Go, Commit
<1>2. WellFormed(d) /\ Msg(d).kind = "bet"
  BY <1>0, TheCall DEF CallInv
<1>1. PICK u \in Callers : /\ u = who[d] /\ u \in Web /\ u \in Made /\ KeepsWallet(u)
                          /\ \E i \in DOMAIN users : users[i] = u /\ Oldest(i, PhoneOf[d])
  <2>1. who[d] \in Callers
    BY <1>0, TheCall DEF CallInv, WhoInv
  <2>2. available[who[d]] > 0
    <3>1. StakeOf(d) \in Nat /\ StakeOf(d) > 0
      BY <1>2, Message DEF StakeOf, WellFormed
    <3>2. available[who[d]] \in Nat
      BY <2>1 DEF IInv, TypeOK
    <3> QED
      BY <1>0, <3>1, <3>2
  <2>3. who[d] \in Web /\ KeepsWallet(who[d])
    BY <2>1, <2>2 DEF IInv, StoreInv, OwnerInv
  <2> QED
    BY <1>0, <2>1, <2>3, TheCall DEF CallInv, WhoInv
<1>3. /\ bets \in [Deliveries -> Slips] /\ available \in [Callers -> Nat]
      /\ held \in [Callers -> Nat] /\ deposited \in [Callers -> Nat]
      /\ StakeOf(d) \in Nat
  BY Message DEF IInv, TypeOK
<1>4. KeyOf(d) \in Keys
  BY TheCall DEF KeyOf, Keys
<1>5. slip \in Slips
  BY <1>1, <1>2, <1>3, <1>4, SelectedLegs DEF Slips
<1>6. /\ slip.status = "PLACED" /\ slip.user = u /\ slip.key = KeyOf(d)
      /\ slip.stake = StakeOf(d) /\ slip.legs = Selected(d) /\ slip.paid = 0
  BY <1>1
<1> HIDE DEF slip
<1>7. /\ bets' \in [Deliveries -> Slips] /\ bets'[d] = slip
      /\ \A c \in Deliveries \ {d} : bets'[c] = bets[c]
  BY <1>0, <1>3, <1>5
<1>8. bets[d].status = "NONE" /\ bets[d].user = NoUser
  BY <1>0 DEF IInv, SlipInv, NoSlip
<1>9. /\ pc'[d] = "done" /\ \A c \in Callers \ {d} : pc'[c] = pc[c]
      /\ \A e \in Deliveries \ {d} : pc'[e] = pc[e]
      /\ pc' \in [Callers -> Places]
      /\ reply'[d] = r /\ \A e \in Deliveries \ {d} : reply'[e] = reply[e]
      /\ reply' \in [Deliveries -> Replies]
  <2>1. r \in Replies
    BY DEF Replies
  <2> QED
    BY <1>0, <2>1, TheCall DEF IInv, TypeOK, Places, Callers
<1>10. /\ Made' = Made
       /\ \A c \in Callers : pc[c] \notin {"idle", "unknown"} => pc'[c] \notin {"idle", "unknown"}
  BY <1>0, <1>9 DEF Made
<1>11. /\ available' \in [Callers -> Nat] /\ held' \in [Callers -> Nat]
       /\ available'[u] = available[u] - StakeOf(d) /\ available[u] >= StakeOf(d)
       /\ held'[u] = held[u] + StakeOf(d)
       /\ \A v \in Callers \ {u} : available'[v] = available[v] /\ held'[v] = held[v]
  <2>1. /\ available' = [available EXCEPT ![u] = @ - StakeOf(d)]
        /\ held' = [held EXCEPT ![u] = @ + StakeOf(d)] /\ available[u] >= StakeOf(d)
    BY <1>0, <1>1
  <2>2. available[u] - StakeOf(d) \in Nat /\ held[u] + StakeOf(d) \in Nat
    BY <1>3, <2>1
  <2> QED
    BY <1>3, <2>1, <2>2
<1>12. TypeOK'
  <2>1. /\ wallets' \subseteq Callers
        /\ \A j, k \in DOMAIN users' : j # k => users'[j] # users'[k]
        /\ users' \in Seq(Callers) /\ deposited' \in [Callers -> Nat]
        /\ who' \in [Deliveries -> Callers \cup {NoUser}] /\ quote' \in [Deliveries -> Nat]
        /\ asked' \in [Deliveries -> 0 .. MaxTime] /\ detached' \subseteq Callers
        /\ saved' \in Seq([users: Seq(Callers), wallets: SUBSET Callers])
        /\ Len(saved') \in 0 .. 1 /\ time' \in 0 .. MaxTime
    BY <1>0 DEF IInv, TypeOK
  <2>2. \A e \in Deliveries : bets'[e].user \in wallets' \cup {NoUser}
    BY <1>0, <1>1, <1>6, <1>7 DEF IInv, TypeOK, KeepsWallet
  <2> QED
    BY <1>7, <1>9, <1>11, <2>1, <2>2 DEF TypeOK
<1>13. MoneyInv'
  <2>1. /\ BetsOf(u)' = BetsOf(u) \cup {d} /\ OpenOf(u)' = OpenOf(u) \cup {d}
        /\ d \notin BetsOf(u) /\ d \notin OpenOf(u)
        /\ \A v \in Callers \ {u} : BetsOf(v)' = BetsOf(v) /\ OpenOf(v)' = OpenOf(v)
        /\ \A v \in Callers : d \notin BetsOf(v)
    BY <1>6, <1>7, <1>8, ChannelAssumption DEF BetsOf, OpenOf
  <2>2. /\ \A c \in Deliveries \ {d} : Stakes'[c] = Stakes[c] /\ Paid'[c] = Paid[c]
        /\ Stakes'[d] = StakeOf(d) /\ Paid'[d] = 0
    BY <1>6, <1>7 DEF Stakes, Paid
  <2>3. \A v \in Callers : /\ Total(BetsOf(v), Stakes') = Total(BetsOf(v), Stakes)
                              /\ Total(OpenOf(v), Stakes') = Total(OpenOf(v), Stakes)
                              /\ Total(BetsOf(v), Paid') = Total(BetsOf(v), Paid)
    <3>1. ASSUME NEW v \in Callers
          PROVE  /\ Total(BetsOf(v), Stakes') = Total(BetsOf(v), Stakes)
                 /\ Total(OpenOf(v), Stakes') = Total(OpenOf(v), Stakes)
                 /\ Total(BetsOf(v), Paid') = Total(BetsOf(v), Paid)
      <4>1. \A c \in BetsOf(v) : c \in Deliveries \ {d}
        BY <2>1, Amounts
      <4>2. \A c \in OpenOf(v) : c \in Deliveries \ {d}
        BY <4>1, Amounts
      <4> QED
        BY <2>2, <4>1, <4>2, TotalSameAmounts
    <3> QED
      BY <3>1
  <2>4. \A c \in Deliveries : Stakes'[c] \in Nat /\ Paid'[c] \in Nat
    BY <1>3, <2>2, Amounts
  <2>5. /\ Total(BetsOf(u) \cup {d}, Stakes') = Total(BetsOf(u), Stakes') + Stakes'[d]
        /\ Total(OpenOf(u) \cup {d}, Stakes') = Total(OpenOf(u), Stakes') + Stakes'[d]
        /\ Total(BetsOf(u) \cup {d}, Paid') = Total(BetsOf(u), Paid') + Paid'[d]
    BY <2>1, <2>4, Amounts, TotalAdd
  <2>6. /\ Total(BetsOf(u), Stakes) \in Nat /\ Total(OpenOf(u), Stakes) \in Nat
        /\ Total(BetsOf(u), Paid) \in Nat
    BY Amounts, CentsFinite
  <2>7. /\ held'[u] = Total(OpenOf(u)', Stakes')
        /\ available'[u] + Total(BetsOf(u)', Stakes') = deposited'[u] + Total(BetsOf(u)', Paid')
    <3>1. /\ held[u] = Total(OpenOf(u), Stakes) /\ available[u] \in Nat /\ deposited[u] \in Nat
          /\ available[u] + Total(BetsOf(u), Stakes) = deposited[u] + Total(BetsOf(u), Paid)
      BY <1>3 DEF IInv, MoneyInv
    <3>2. /\ Total(OpenOf(u)', Stakes') = Total(OpenOf(u), Stakes) + StakeOf(d)
          /\ Total(BetsOf(u)', Stakes') = Total(BetsOf(u), Stakes) + StakeOf(d)
          /\ Total(BetsOf(u)', Paid') = Total(BetsOf(u), Paid)
      BY <2>1, <2>2, <2>3, <2>5, <2>6
    <3> QED
      BY <1>0, <1>3, <1>11, <2>6, <3>1, <3>2
  <2>8. ASSUME NEW v \in Callers, v # u
        PROVE  /\ held'[v] = Total(OpenOf(v)', Stakes')
               /\ available'[v] + Total(BetsOf(v)', Stakes')
                    = deposited'[v] + Total(BetsOf(v)', Paid')
    BY <1>0, <1>11, <2>1, <2>3, <2>8 DEF IInv, MoneyInv
  <2> QED
    BY <2>7, <2>8 DEF MoneyInv
<1>14. StoreInv'
  <2>1. \A v : KeepsWallet(v) => KeepsWallet(v)'
    BY <1>0 DEF KeepsWallet
  <2>2. OwnerInv'
    <3>1. ASSUME NEW v \in Callers, available'[v] > 0
          PROVE  available[v] > 0
      BY <1>3, <1>11, <3>1
    <3> QED
      BY <2>1, <3>1 DEF IInv, StoreInv, OwnerInv
  <2>3. ASSUME NEW c \in Deliveries, bets'[c].status # "NONE"
        PROVE  (bets[c].user \in Web /\ KeepsWallet(bets[c].user) /\ Finds(users, c))'
    <3>1. CASE c = d
      <4>1. bets'[c].user = u
        BY <1>6, <1>7, <3>1
      <4>2. Finds(users, c)'
        BY <1>0, <1>1, <3>1, <4>1 DEF Finds, Oldest
      <4>3. KeepsWallet(bets[c].user)'
        BY <1>1, <2>1, <4>1 DEF KeepsWallet
      <4> QED
        BY <1>1, <4>1, <4>2, <4>3
    <3>2. CASE c # d
      <4>1. bets'[c] = bets[c]
        BY <1>7, <3>2
      <4>2. bets[c].user \in Web /\ KeepsWallet(bets[c].user) /\ Finds(users, c)
        BY <2>3, <4>1 DEF IInv, StoreInv, BetInv
      <4>3. Finds(users, c)'
        BY <1>0, <4>1, <4>2 DEF Finds
      <4>4. KeepsWallet(bets[c].user)'
        BY <2>1, <4>1, <4>2 DEF KeepsWallet
      <4> QED
        BY <4>1, <4>2, <4>3, <4>4
    <3> QED
      BY <3>1, <3>2
  <2>4. SavedInv'
    BY <1>0 DEF SavedInv
  <2>5. MadeInv'
    BY <1>10, TheStores DEF IInv, StoreInv, MadeInv
  <2>6. BetInv'
    BY <1>0, <2>3 DEF BetInv
  <2> QED
    BY <2>2, <2>4, <2>5, <2>6 DEF StoreInv
<1>15. SlipInv'
  BY <1>6, <1>7, <1>9 DEF IInv, SlipInv
<1>16. RunningInv'
  BY <1>0, <1>9 DEF IInv, RunningInv, Running
<1>17. CashOutInv'
  <2>1. ~CashedOut(d)' /\ \A e \in Deliveries \ {d} : CashedOut(e)' <=> CashedOut(e)
    BY <1>9 DEF CashedOut, Msg
  <2>2. ~CashedOut(d)
    BY <1>2 DEF CashedOut
  <2>3. \A e \in Deliveries : CashedOut(e) => Msg(e).target # d
    BY <1>8 DEF IInv, CashOutInv
  <2> QED
    BY <1>0, <1>7, <2>1, <2>2, <2>3 DEF IInv, CashOutInv, Msg
<1>18. ASSUME NEW e \in Deliveries
       PROVE  WhoInv(e)' /\ CallInv(e)'
  <2>1. WhoInv(e)'
    BY <1>0, <1>10, WhoKept
  <2>2. \A c \in Deliveries : bets[c].status # "NONE" => bets'[c].status # "NONE"
    BY <1>7, <1>8
  <2>3. CallInv(e)'
    <3>1. CASE e = d
      BY <1>9, <3>1 DEF CallInv
    <3>2. CASE e # d
      BY <1>0, <1>9, <2>2, <3>2, TheCall DEF CallInv, Msg, WellFormed
    <3> QED
      BY <3>1, <3>2
  <2> QED
    BY <2>1, <2>3
<1>19. ReplyInv(d)'
  <2>1. /\ bets'[d].status # "NONE" /\ bets'[d].stake = 100 * Msg(d).stake
        /\ bets'[d].legs = Selected(d)
    BY <1>6, <1>7 DEF StakeOf
  <2>2. reply'[d].bet = d /\ reply'[d].status = "ACCEPTED"
    BY <1>9
  <2>3. AsAsked(d)'
    BY <1>2, <2>1, <2>2, SelectedLegs DEF AsAsked, Msg
  <2> QED
    BY <1>9, <2>1, <2>2, <2>3 DEF ReplyInv
<1>20. ASSUME NEW e \in Deliveries, e # d
       PROVE  ReplyInv(e)'
  BY <1>0, <1>7, <1>8, <1>9, <1>20, RepliesKept
<1> QED
  BY <1>12, <1>13, <1>14, <1>15, <1>16, <1>17, <1>18, <1>19, <1>20 DEF IInv

(* An open bet is closed at the quote; a second cancellation finds it      *)
(* closed.                                                                 *)
LEMMA ExecuteCashoutStep ==
  ASSUME IInv, NEW d \in Deliveries, ExecuteCashout(d)
  PROVE  IInv'
<1>1. PICK b \in Deliveries, q \in Nat :
        /\ b = Msg(d).target /\ q = quote[d]
        /\ d \in HasCashout /\ Msg(d).kind = "cancel" /\ PhoneOf[b] = PhoneOf[d]
        /\ reply[d].status = "NONE"
  BY TheCall DEF CallInv, ReplyInv, ExecuteCashout
<1> DEFINE r == [status |-> "PROCESSED", bet |-> b]
<1>0. /\ available' = [available EXCEPT ![bets[b].user] = @ + q]
      /\ held' = [held EXCEPT ![bets[b].user] = Released(bets[b].user, bets[b].stake)]
      /\ bets' = [bets EXCEPT ![b].status = "CASHED_OUT", ![b].paid = q]
      /\ pc[d] = "cashing" /\ MayCashOut(b)
      /\ pc' = [pc EXCEPT ![d] = "done"] /\ reply' = [reply EXCEPT ![d] = r]
      /\ UNCHANGED <<users, wallets, detached, deposited, who, asked, quote, time>>
      /\ saved' = <<>>
  BY <1>1 DEF ExecuteCashout, Answer, Go, Commit
<1>2. /\ pc'[d] = "done" /\ \A c \in Callers \ {d} : pc'[c] = pc[c]
      /\ \A e \in Deliveries \ {d} : pc'[e] = pc[e]
      /\ pc' \in [Callers -> Places]
      /\ reply'[d] = r /\ \A e \in Deliveries \ {d} : reply'[e] = reply[e]
      /\ reply' \in [Deliveries -> Replies]
      /\ \A c \in Callers : pc[c] \notin {"idle", "unknown"} => pc'[c] \notin {"idle", "unknown"}
  <2>1. r \in Replies
    BY <1>1, TheCall DEF Replies
  <2> HIDE DEF r
  <2> QED
    BY <1>0, <2>1, TheCall DEF IInv, TypeOK, Places, Callers
<1>3. /\ bets'[b].status = "CASHED_OUT" /\ bets'[b].paid = q
      /\ \A c \in Deliveries \ {b} : bets'[c] = bets[c]
      /\ \A c \in Deliveries :
           /\ bets'[c].user \in wallets \cup {NoUser}
           /\ bets'[c].status = "NONE" <=> bets[c].status = "NONE"
           /\ bets'[c].key = bets[c].key
           /\ bets'[c].stake = bets[c].stake /\ bets'[c].legs = bets[c].legs
      /\ bets' \in [Deliveries -> Slips]
      /\ available' \in [Callers -> Nat] /\ held' \in [Callers -> Nat]
      /\ MoneyInv' /\ StoreInv'
  <2>1. "CASHED_OUT" \in {"CASHED_OUT", "SETTLED"}
    OBVIOUS
  <2>2. UNCHANGED <<users, wallets, deposited>> /\ Commit
    BY <1>0 DEF Commit
  <2> HIDE DEF r
  <2> QED
    BY <1>0, <1>2, <2>1, <2>2, CloseBet DEF MayCashOut
<1>4. TypeOK'
  <2>1. /\ wallets' \subseteq Callers
        /\ \A j, k \in DOMAIN users' : j # k => users'[j] # users'[k]
        /\ users' \in Seq(Callers) /\ deposited' \in [Callers -> Nat]
        /\ who' \in [Deliveries -> Callers \cup {NoUser}] /\ quote' \in [Deliveries -> Nat]
        /\ asked' \in [Deliveries -> 0 .. MaxTime] /\ detached' \subseteq Callers
        /\ saved' \in Seq([users: Seq(Callers), wallets: SUBSET Callers])
        /\ Len(saved') \in 0 .. 1 /\ time' \in 0 .. MaxTime
    BY <1>0 DEF IInv, TypeOK
  <2> HIDE DEF r
  <2> QED
    BY <1>0, <1>3, <1>2, <2>1 DEF TypeOK
<1>5. bets[b].status = "PLACED"
  BY <1>0 DEF MayCashOut
<1>6. pc[b] = "done"
  BY <1>1, <1>5 DEF IInv, SlipInv
<1>7. SlipInv'
  BY <1>1, <1>3, <1>2, <1>6 DEF IInv, SlipInv
<1>8. CashOutInv'
  <2>1. CashedOut(d)' /\ ~CashedOut(d) /\ \A e \in Deliveries \ {d} : CashedOut(e)' <=> CashedOut(e)
    BY <1>1, <1>2 DEF CashedOut, Msg
  <2>2. \A e \in Deliveries : CashedOut(e) => Msg(e).target # b
    BY <1>5 DEF IInv, CashOutInv
  <2>3. \A e \in Deliveries : CashedOut(e) =>
           /\ Msg(e).target \in Deliveries
           /\ bets'[Msg(e).target].status = "CASHED_OUT" /\ bets'[Msg(e).target].paid = quote'[e]
           /\ PhoneOf[Msg(e).target] = PhoneOf[e]
           /\ \A f \in Deliveries \ {e} : Msg(f).target = Msg(e).target => ~CashedOut(f)
    BY <1>0, <1>3, <2>2 DEF IInv, CashOutInv
  <2>4. /\ bets'[b].status = "CASHED_OUT" /\ bets'[b].paid = quote'[d]
        /\ \A f \in Deliveries \ {d} : Msg(f).target = b => ~CashedOut(f)'
    BY <1>0, <1>1, <1>3, <2>1, <2>2
  <2>5. ASSUME NEW e \in Deliveries, e # d, CashedOut(e)
        PROVE  \A f \in Deliveries \ {e} : Msg(f).target = Msg(e).target => ~CashedOut(f)'
    BY <1>1, <2>1, <2>2, <2>3, <2>5
  <2> HIDE DEF r
  <2> QED
    BY <1>1, <2>1, <2>3, <2>4, <2>5 DEF CashOutInv, Msg
<1>9. RunningInv'
  BY <1>0, <1>2 DEF IInv, RunningInv, Running
<1>10. ASSUME NEW e \in Deliveries
       PROVE  WhoInv(e)' /\ CallInv(e)' /\ ReplyInv(e)'
  <2>1. WhoInv(e)'
    BY <1>0, <1>2, WhoKept
  <2>2. CASE e = d
    BY <1>2, <2>1, <2>2 DEF CallInv, ReplyInv
  <2>3. CASE e # d
    <3>1. CallInv(e)'
      BY <1>0, <1>2, <1>3, <2>3, TheCall DEF CallInv, Msg, WellFormed
    <3>2. ReplyInv(e)'
      <4> HIDE DEF r
      <4> QED
        BY <1>0, <1>2, <1>3, <2>3, RepliesKept
    <3> QED
      BY <2>1, <3>1, <3>2
  <2> QED
    BY <2>2, <2>3
<1> QED
  BY <1>3, <1>4, <1>7, <1>8, <1>9, <1>10 DEF IInv

(* An open bet is closed for its payout; none that was cashed out is. *)
LEMMA SettleStep ==
  ASSUME IInv, NEW b \in Deliveries, Settle(b)
  PROVE  IInv'
<1>0. /\ bets[b].status = "PLACED"
      /\ UNCHANGED <<users, wallets, saved, detached, deposited, pc>>
      /\ UNCHANGED <<who, asked, quote, reply, time>>
  BY DEF Settle, Open, callVars, storeVars
<1>1. PICK amount \in Nat :
        /\ available' = [available EXCEPT ![bets[b].user] = @ + amount]
        /\ held' = [held EXCEPT ![bets[b].user] = Released(bets[b].user, bets[b].stake)]
        /\ bets' = [bets EXCEPT ![b].status = "SETTLED", ![b].paid = amount]
  BY Message DEF Settle
<1>2. /\ bets'[b].status = "SETTLED"
      /\ \A c \in Deliveries \ {b} : bets'[c] = bets[c]
      /\ \A c \in Deliveries :
           /\ bets'[c].user \in wallets \cup {NoUser}
           /\ bets'[c].status = "NONE" <=> bets[c].status = "NONE"
           /\ bets'[c].key = bets[c].key
           /\ bets'[c].stake = bets[c].stake /\ bets'[c].legs = bets[c].legs
      /\ bets' \in [Deliveries -> Slips]
      /\ available' \in [Callers -> Nat] /\ held' \in [Callers -> Nat]
      /\ MoneyInv' /\ StoreInv'
  BY <1>0, <1>1, CloseBet DEF MayCashOut
<1>3. TypeOK'
  <2>1. /\ wallets' \subseteq Callers
        /\ \A j, k \in DOMAIN users' : j # k => users'[j] # users'[k]
    BY <1>0 DEF IInv, TypeOK
  <2> QED
    BY <1>0, <1>2, <2>1 DEF IInv, TypeOK
<1>4. SlipInv' /\ RunningInv'
  BY <1>0, <1>2 DEF IInv, SlipInv, RunningInv, Running
<1>5. CashOutInv'
  <2>1. \A e \in Deliveries : (CashedOut(e)' <=> CashedOut(e)) /\ quote'[e] = quote[e]
    BY <1>0 DEF CashedOut, Msg
  <2>2. \A e \in Deliveries : CashedOut(e) => Msg(e).target # b
    BY <1>0 DEF IInv, CashOutInv
  <2>3. ASSUME NEW e \in Deliveries, CashedOut(e)
        PROVE  /\ Msg(e).target \in Deliveries
               /\ bets'[Msg(e).target].status = "CASHED_OUT"
               /\ bets'[Msg(e).target].paid = quote'[e]
               /\ PhoneOf[Msg(e).target] = PhoneOf[e]
               /\ \A f \in Deliveries \ {e} : Msg(f).target = Msg(e).target => ~CashedOut(f)
    BY <1>2, <2>1, <2>2, <2>3 DEF IInv, CashOutInv
  <2> QED
    BY <2>1, <2>3 DEF CashOutInv, Msg
<1>6. ASSUME NEW e \in Deliveries
      PROVE  WhoInv(e)' /\ CallInv(e)' /\ ReplyInv(e)'
  <2>1. WhoInv(e)'
    BY <1>0, WhoKept
  <2>2. CallInv(e)'
    BY <1>0, <1>2, TheCall DEF CallInv, Msg, WellFormed
  <2>3. ReplyInv(e)'
    BY <1>0, <1>2, RepliesKept
  <2> QED
    BY <2>1, <2>2, <2>3
<1> QED
  BY <1>2, <1>3, <1>4, <1>5, <1>6 DEF IInv

-----------------------------------------------------------------------------
(* The invariant holds of the first state. *)
LEMMA InitEstablishes == Init => IInv
<1> SUFFICES ASSUME Init PROVE IInv
  OBVIOUS
<1> USE DEF Init
<1>1. NoSlip \in Slips
  BY DEF NoSlip, Slips, Keys
<1>2. TypeOK
  <2>1. /\ users \in Seq(Callers) /\ DOMAIN users = {} /\ 0 \in 0 .. MaxTime
        /\ saved \in Seq([users: Seq(Callers), wallets: SUBSET Callers])
        /\ Len(saved) \in 0 .. 1
    BY ChannelAssumption
  <2>2. Pending \in Replies /\ "idle" \in Places
    BY DEF Pending, Replies, Places
  <2> QED
    BY <1>1, <2>1, <2>2 DEF TypeOK, NoSlip
<1>3. MoneyInv
  <2>1. ASSUME NEW u \in Callers PROVE BetsOf(u) = {} /\ OpenOf(u) = {}
    BY ChannelAssumption DEF BetsOf, OpenOf, NoSlip
  <2> QED
    BY <2>1, TotalEmpty DEF MoneyInv
<1>4. StoreInv
  BY DEF StoreInv, OwnerInv, BetInv, SavedInv, MadeInv, Made, NoSlip
<1>5. RunningInv /\ SlipInv /\ CashOutInv
  BY DEF RunningInv, Running, SlipInv, CashOutInv, CashedOut, NoSlip, Pending, Callers
<1>6. ASSUME NEW d \in Deliveries PROVE WhoInv(d) /\ CallInv(d) /\ ReplyInv(d)
  BY DEF WhoInv, CallInv, ReplyInv, Pending, Callers
<1> QED
  BY <1>2, <1>3, <1>4, <1>5, <1>6 DEF IInv

(* The invariant is inductive. *)
LEMMA NextKeeps == IInv /\ [Next]_vars => IInv'
<1> SUFFICES ASSUME IInv, [Next]_vars PROVE IInv'
  OBVIOUS
<1>1. ASSUME NEW d \in Deliveries, Handle(d) PROVE IInv'
  BY <1>1, ArriveStep, CreateWalletStep, EndingSteps, ReadWalletStep, BeginSteps, PlaceStep,
     ReadBetStep, GetQuoteStep, ExecuteCashoutStep DEF Handle
<1>2. ASSUME NEW w \in Web, Register(w) \/ SignIn(w) \/ PayIn(w) PROVE IInv'
  BY <1>2, WebSteps, PayInStep
<1>3. ASSUME NEW c \in Callers, CreateUser(c) PROVE IInv'
  BY <1>3, CreateUserStep
<1>4. ASSUME NEW b \in Deliveries, Settle(b) PROVE IInv'
  BY <1>4, SettleStep
<1>5. CASE UNCHANGED vars
  <2> USE <1>5 DEF vars, moneyVars, storeVars, callVars
  <2>1. TypeOK'
    BY DEF IInv, TypeOK
  <2>2. StoreInv'
    <3>1. UNCHANGED <<users, wallets, available, bets, saved, pc>>
      OBVIOUS
    <3> QED
      BY <3>1, StoresKept
  <2>3. MoneyInv' /\ RunningInv' /\ SlipInv' /\ CashOutInv'
    <3>1. MoneyInv'
      BY DEF IInv, MoneyInv, OpenOf, BetsOf, Stakes, Paid
    <3>2. RunningInv' /\ SlipInv'
      BY DEF IInv, RunningInv, Running, SlipInv
    <3>3. CashOutInv'
      BY DEF IInv, CashOutInv, CashedOut, Msg
    <3> QED
      BY <3>1, <3>2, <3>3
  <2>4. ASSUME NEW e \in Deliveries
        PROVE  WhoInv(e)' /\ CallInv(e)' /\ ReplyInv(e)'
    BY WhoKept, RepliesKept, TheCall DEF CallInv, Msg, WellFormed
  <2> QED
    BY <2>1, <2>2, <2>3, <2>4 DEF IInv
<1> QED
  BY <1>1, <1>2, <1>3, <1>4, <1>5 DEF Next

(* The money, the bets, the handlers and their replies fit together, with  *)
(* rollbacks under the creation of users.                                  *)
THEOREM Invariance == Spec => []IInv
BY InitEstablishes, NextKeeps, PTL DEF Spec

(* The stores keep their types: no balance is negative, no bet names an    *)
(* unregistered match or a pick there is none of, no user is made twice.   *)
THEOREM TypeCorrect == Spec => []TypeOK
<1>1. IInv => TypeOK
  BY DEF IInv
<1> QED
  BY <1>1, Invariance, PTL

(* The sums of WalletsAddUp range over the bets of a user; those of        *)
(* MoneyInv are of the same amounts.                                       *)
LEMMA SumsAgree == IInv => WalletsAddUp
<1> HAVE IInv
<1> SUFFICES ASSUME NEW u \in wallets
             PROVE  LET B == {b \in Deliveries : bets[b].user = u}
                        stake == [b \in B |-> bets[b].stake]
                        paid == [b \in B |-> bets[b].paid]
                    IN /\ held[u] = Total({b \in B : Open(b)}, stake)
                       /\ available[u] + Total(B, stake) = deposited[u] + Total(B, paid)
  BY DEF WalletsAddUp
<1> DEFINE stake == [b \in BetsOf(u) |-> bets[b].stake]
           paid == [b \in BetsOf(u) |-> bets[b].paid]
<1>1. u \in Callers
  BY DEF IInv, TypeOK
<1>2. {b \in Deliveries : bets[b].user = u} = BetsOf(u)
  BY DEF BetsOf
<1>3. {b \in BetsOf(u) : Open(b)} = OpenOf(u)
  BY ChannelAssumption DEF OpenOf, BetsOf, Open
<1>4. /\ \A b \in BetsOf(u) : stake[b] = Stakes[b] /\ paid[b] = Paid[b]
      /\ \A b \in OpenOf(u) : stake[b] = Stakes[b]
  BY Amounts DEF BetsOf, OpenOf
<1> HIDE DEF stake, paid
<1>5. /\ Total(OpenOf(u), stake) = Total(OpenOf(u), Stakes)
      /\ Total(BetsOf(u), stake) = Total(BetsOf(u), Stakes)
      /\ Total(BetsOf(u), paid) = Total(BetsOf(u), Paid)
  BY <1>4, TotalSameAmounts
<1>6. /\ held[u] = Total(OpenOf(u), stake)
      /\ available[u] + Total(BetsOf(u), stake) = deposited[u] + Total(BetsOf(u), paid)
  BY <1>1, <1>5 DEF IInv, MoneyInv
<1> QED
  BY <1>2, <1>3, <1>6 DEF stake, paid

(* WalletsAddUp: however messages, registrations, deposits, settlements    *)
(* and rollbacks interleave, a wallet is its deposits less its stakes plus *)
(* its payouts, and what is held are the stakes of the open bets.          *)
THEOREM MoneyAddsUp == Spec => []WalletsAddUp
BY SumsAgree, Invariance, PTL

(* BetsAreFound: a first message and a registration of one phone may make  *)
(* a user each, and a rollback may take one of them back, yet every bet is *)
(* of the user that later messages of the phone find.  Deposits go by the  *)
(* user who signed in; that the money of the younger user is not staked    *)
(* from the phone is what the proof shows.                                 *)
THEOREM BetsStayFound == Spec => []BetsAreFound
<1>1. IInv => BetsAreFound
  BY DEF IInv, StoreInv, BetInv, Finds, BetsAreFound
<1> QED
  BY <1>1, Invariance, PTL

(* AcceptedAsAsked: what a betting service has accepted has the stake of   *)
(* the message and the outcomes it could name by a pick, the home team if  *)
(* it named one by an alias, or the message was the repetition of another. *)
THEOREM AsAccepted == Spec => []AcceptedAsAsked
<1>1. IInv => AcceptedAsAsked
  BY ChannelAssumption DEF IInv, ReplyInv, AsAsked, AcceptedAsAsked
<1> QED
  BY <1>1, Invariance, PTL

(* CashedOutOnce: of the cancellations of a bet one is executed, and the   *)
(* bet has been paid the quote it answers with.                            *)
THEOREM CashedOutAtMostOnce == Spec => []CashedOutOnce
<1>1. IInv => CashedOutOnce
  BY ChannelAssumption DEF IInv, CashOutInv, CashedOut, CashedOutOnce
<1> QED
  BY <1>1, Invariance, PTL
=============================================================================
