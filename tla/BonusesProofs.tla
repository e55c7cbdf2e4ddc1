---------------------------- MODULE BonusesProofs ---------------------------
(***************************************************************************)
(* The safety of bonuses for every set of users, bonuses, checks and       *)
(* wagers, and all terms, stakes and odds.                                 *)
(***************************************************************************)
EXTENDS Bonuses, CentsTheorems, FiniteSetTheorems, SequenceTheorems,
        WellFoundedInduction, TLAPS

(* A bonus has its journal from the transaction of its grant, and a status *)
(* and a place in the Map from the moment that has resolved.               *)
GrantedInOrder ==
    \A b \in Bonuses :
        /\ grant[b] = "idle" <=> <<"BONUS_GRANT", b>> \notin journals
        /\ grant[b] = "stored" <=> status[b] # "NONE"
        /\ grant[b] = "stored" <=> \E i \in 1 .. Len(granted) : granted[i] = b

(* A call waits for the transaction of a bonus it has itself ended.        *)
AwaitsWhatItEnded ==
    /\ \A c \in Calls :
         /\ on[c] # NoBonus <=> pc[c] \in Awaiting
         /\ pc[c] = "forfeiting" => status[on[c]] = "EXPIRED"
         /\ pc[c] = "converting" => c \in Wagers /\ status[on[c]] = "ROLLED_OVER"
    /\ \A b \in lost : status[b] \in Ended

(* The loop of a check leaves no bonus behind that is active and had       *)
(* lapsed when the call took the time.                                     *)
NoneLeftBehind ==
    /\ \A b \in lapsed : grant[b] = "stored"
    /\ \A c \in Calls :
         /\ now[c] \subseteq lapsed
         /\ pc[c] = "idle" => at[c] = 1
         /\ \A i \in 1 .. Len(granted) :
              i < at[c] /\ granted[i] \in now[c] => ~ActiveFor(c, granted[i])
         /\ pc[c] = "recording" => \A b \in now[c] : ~ActiveFor(c, b)

(* What has been wagered on the bonuses of a user are stakes of that user, *)
(* each on one bonus and at odds it admits.                                *)
Held(u) == {b \in Bonuses : UserOf[b] = u}
Admissible(b) == {w \in Recorded(UserOf[b]) : OddsOf[w] >= TermsOf[b].minOdds}
WageredIsStaked ==
    /\ \A u \in Users : Total(Held(u), wagered) <= Total(Recorded(u), StakeOf)
    /\ \A b \in Bonuses : wagered[b] <= Total(Admissible(b), StakeOf)
    /\ \A b \in Bonuses : status[b] = "ROLLED_OVER" => Required[b] <= wagered[b]

(* EndsOnce and CashIsWagered are not inductive by themselves: that a call *)
(* posts the right journal depends on what it waits for, and that a stake  *)
(* counts once on what each bonus has been wagered with.                   *)
IInv ==
    /\ TypeOK
    /\ GrantedInOrder
    /\ AwaitsWhatItEnded
    /\ NoneLeftBehind
    /\ EndsOnce
    /\ WalletMatchesLedger
    /\ WageredIsStaked
    /\ \A w \in Wagers : pc[w] = "converting" => on[w] \notin now[w]

-----------------------------------------------------------------------------
(* Bonuses and stakes are amounts, and belong to users. *)
LEMMA Amounts ==
  /\ \A b \in Bonuses : AmountOf[b] \in Nat /\ Required[b] \in Nat /\ UserOf[b] \in Users
  /\ \A b \in Bonuses : TermsOf[b].minOdds \in Nat
  /\ \A w \in Wagers : StakeOf[w] \in Nat /\ OddsOf[w] \in Nat
  /\ IsFiniteSet(Bonuses) /\ IsFiniteSet(Wagers)
<1>1. ASSUME NEW b \in Bonuses
      PROVE  AmountOf[b] \in Nat /\ Required[b] \in Nat
  <2>1. TermsOf[b] \in Terms
    BY BonusAssumption
  <2> DEFINE t == TermsOf[b]
             k == t.cents * t.percentage
  <2>2. /\ t.cents \in Nat /\ t.percentage \in Nat /\ t.max \in Nat
        /\ t.multiplier \in Nat
    BY <2>1 DEF Terms
  <2>3. k \in Nat
    BY <2>2
  <2>4. k \div 100 \in Nat
    <3> HIDE DEF k
    <3> QED
      BY <2>3
  <2>5. Matched(t.cents, t.percentage, t.max) \in Nat
    BY <2>2, <2>4 DEF Matched
  <2>6. AmountOf[b] \in Nat
    BY <2>2, <2>5 DEF AmountOf
  <2>7. Required[b] = AmountOf[b] * (IF t.type = "FREE_BET" THEN 1 ELSE t.multiplier)
    BY DEF Required
  <2>8. (IF t.type = "FREE_BET" THEN 1 ELSE t.multiplier) \in Nat
    BY <2>2
  <2> QED
    BY <2>6, <2>7, <2>8
<1>2. \A b \in Bonuses : TermsOf[b].minOdds \in Nat
  BY BonusAssumption DEF Terms
<1> QED
  BY <1>1, <1>2, BonusAssumption

(* A set of positions that is not empty has a first one. *)
LEMMA LeastIsFirst ==
  ASSUME NEW S \in SUBSET Nat, S # {}
  PROVE  Least(S) \in S /\ \A j \in S : Least(S) <= j
<1>1. IsWellFoundedOn(OpToRel(<, Nat), Nat)
  BY NatLessThanWellFounded
<1>2. PICK i \in S : \A j \in S : <<j, i>> \notin OpToRel(<, Nat)
  BY <1>1, WFMin
<1>3. ASSUME NEW j \in S
      PROVE  i <= j
  <2>1. ~(j < i)
    BY <1>2 DEF OpToRel
  <2> QED
    BY <2>1
<1> QED
  BY <1>3 DEF Least

(* A smaller set of amounts, or smaller amounts, have a smaller sum. *)
LEMMA TotalSmaller ==
  ASSUME NEW S, IsFiniteSet(S), NEW T, T \subseteq S,
         NEW f, \A x \in T : f[x] \in Nat,
         NEW g, \A x \in S : g[x] \in Nat,
         \A x \in T : f[x] <= g[x]
  PROVE  Total(T, f) <= Total(S, g)
<1>1. CentsOf(T, f) \subseteq CentsOf(S, g)
  <2> SUFFICES ASSUME NEW x \in T, NEW i \in 1 .. f[x]
               PROVE  i \in 1 .. g[x]
    BY DEF CentsOf
  <2> QED
    OBVIOUS
<1>2. IsFiniteSet(CentsOf(S, g))
  BY CentsFinite
<1> QED
  BY <1>1, <1>2, FS_Subset DEF Total

(* The bonus the loop takes is one that is due, and no due one is before   *)
(* it; the bonus a wager counts for is active.                             *)
LEMMA Chosen ==
  ASSUME TypeOK
  PROVE  /\ \A c \in Calls : Due(c) # {} =>
              /\ Least(Due(c)) \in Due(c) /\ Least(Due(c)) \in 1 .. Len(granted)
              /\ \A j \in Due(c) : Least(Due(c)) <= j
              /\ granted[Least(Due(c))] \in Bonuses
         /\ \A w \in Wagers : Candidates(w) # {} =>
              First(w) \in Bonuses /\ ActiveFor(w, First(w))
<1>1. Len(granted) \in Nat /\ \A i \in 1 .. Len(granted) : granted[i] \in Bonuses
  BY DEF TypeOK
<1>2. ASSUME NEW c \in Calls, Due(c) # {}
      PROVE  /\ Least(Due(c)) \in Due(c) /\ Least(Due(c)) \in 1 .. Len(granted)
             /\ \A j \in Due(c) : Least(Due(c)) <= j
             /\ granted[Least(Due(c))] \in Bonuses
  <2>1. at[c] \in Nat \ {0}
    BY DEF TypeOK
  <2>2. Due(c) \subseteq 1 .. Len(granted)
    BY <1>1, <2>1 DEF Due
  <2>3. Due(c) \in SUBSET Nat
    BY <1>1, <2>2
  <2> QED
    BY <1>1, <1>2, <2>2, <2>3, LeastIsFirst
<1>3. ASSUME NEW w \in Wagers, Candidates(w) # {}
      PROVE  First(w) \in Bonuses /\ ActiveFor(w, First(w))
  <2>1. Candidates(w) \in SUBSET Nat
    BY <1>1 DEF Candidates
  <2>2. Least(Candidates(w)) \in Candidates(w)
    BY <1>3, <2>1, LeastIsFirst
  <2> QED
    BY <1>1, <2>2 DEF Candidates, First
<1> QED
  BY <1>2, <1>3

-----------------------------------------------------------------------------
(* Type correctness is kept. *)
LEMMA TypeStep ==
  ASSUME TypeOK, GrantedInOrder, AwaitsWhatItEnded, [Next]_vars
  PROVE  TypeOK'
<1> USE DEF mapVars, callVars, moneyVars
<1>1. ASSUME NEW b \in Bonuses, Grant(b)
      PROVE  TypeOK'
  <2>1. AmountOf[b] \in Nat /\ AmountOf[b] > 0 /\ UserOf[b] \in Users
    BY <1>1, Amounts DEF Grant, Grantable
  <2>2. bonusCents[UserOf[b]] + AmountOf[b] \in Nat
    BY <2>1 DEF TypeOK
  <2>3. bonusCents' \in [Users -> Nat]
    BY <1>1, <2>1, <2>2 DEF Grant, TypeOK
  <2>4. journals' \subseteq JournalKinds \X {x \in Bonuses : AmountOf[x] > 0}
    BY <1>1, <2>1 DEF Grant, TypeOK, JournalKinds
  <2> QED
    BY <1>1, <2>3, <2>4 DEF Grant, TypeOK
<1>2. ASSUME NEW b \in Bonuses, Store(b)
      PROVE  TypeOK'
  <2>1. granted' \in Seq(Bonuses)
    BY <1>2, AppendProperties DEF Store, TypeOK
  <2> QED
    BY <1>2, <2>1 DEF Store, TypeOK
<1>3. ASSUME NEW b \in Bonuses, Lapse(b)
      PROVE  TypeOK'
  BY <1>3 DEF Lapse, TypeOK
<1>4. ASSUME NEW c \in Calls, Start(c)
      PROVE  TypeOK'
  BY <1>4 DEF Start, TypeOK
<1>5. ASSUME NEW c \in Calls, Look(c)
      PROVE  TypeOK'
  <2>1. CASE Due(c) = {}
    BY <1>5, <2>1 DEF Look, TypeOK
  <2>2. CASE Due(c) # {}
    <3> DEFINE i == Least(Due(c))
    <3>1. i \in Nat /\ granted[i] \in Bonuses
      BY <2>2, Chosen DEF TypeOK
    <3>2. i + 1 \in Nat \ {0}
      BY <3>1
    <3>3. status' = [status EXCEPT ![granted[i]] = "EXPIRED"] /\ at' = [at EXCEPT ![c] = i + 1]
      BY <1>5, <2>2 DEF Look
    <3>4. pc' \in [Calls -> {"idle", "looking", "recording", "done", "failed",
                             "unconverted"} \cup Awaiting]
          /\ on' \in [Calls -> Bonuses \cup {NoBonus}]
      BY <1>5, <2>2, <3>1 DEF Look, TypeOK, Awaiting
    <3>5. status' \in [Bonuses -> {"NONE", "ACTIVE"} \cup Ended]
      BY <3>1, <3>3 DEF TypeOK, Ended
    <3>6. at' \in [Calls -> Nat \ {0}]
      BY <3>2, <3>3 DEF TypeOK
    <3> QED
      BY <1>5, <3>4, <3>5, <3>6 DEF Look, TypeOK
  <2> QED
    BY <2>1, <2>2
<1>6. ASSUME NEW c \in Calls, Forfeit(c)
      PROVE  TypeOK'
  <2>1. on[c] \in Bonuses
    BY <1>6 DEF Forfeit, AwaitsWhatItEnded, Awaiting, TypeOK
  <2>2. UserOf[on[c]] \in Users /\ AmountOf[on[c]] \in Nat
    BY <2>1, Amounts
  <2>3. <<"BONUS_GRANT", on[c]>> \in journals
    BY <1>6, <2>1 DEF Forfeit, AwaitsWhatItEnded, GrantedInOrder
  <2>4. Less(bonusCents[UserOf[on[c]]], AmountOf[on[c]]) \in Nat
    BY <2>2 DEF Less, TypeOK
  <2>5. bonusCents' \in [Users -> Nat]
    BY <1>6, <2>2, <2>4 DEF Forfeit, TypeOK
  <2>6. journals' \subseteq JournalKinds \X {x \in Bonuses : AmountOf[x] > 0}
    BY <1>6, <2>3 DEF Forfeit, TypeOK, JournalKinds
  <2> QED
    BY <1>6, <2>5, <2>6 DEF Forfeit, TypeOK
<1>7. ASSUME NEW w \in Wagers, SkipWager(w)
      PROVE  TypeOK'
  BY <1>7 DEF SkipWager, TypeOK
<1>8. ASSUME NEW w \in Wagers, RecordWager(w)
      PROVE  TypeOK'
  <2> DEFINE b == First(w)
  <2>1. w \in Calls /\ b \in Bonuses
    BY <1>8, Chosen DEF RecordWager, NothingToRecord, Calls
  <2>2. wagered[b] + StakeOf[w] \in Nat
    BY <2>1, Amounts DEF TypeOK
  <2>3. wagered' \in [Bonuses -> Nat]
    BY <1>8, <2>1, <2>2 DEF RecordWager, TypeOK
  <2>4. status' \in [Bonuses -> {"NONE", "ACTIVE"} \cup Ended]
    BY <1>8, <2>1 DEF RecordWager, TypeOK, Ended
  <2>5. pc' \in [Calls -> {"idle", "looking", "recording", "done", "failed",
                             "unconverted"} \cup Awaiting]
        /\ on' \in [Calls -> Bonuses \cup {NoBonus}]
    <3>1. CASE Rollover(b, wagered[b] + StakeOf[w]) /\ Payable(b)
      <4>1. on' = [on EXCEPT ![w] = b] /\ pc' = [pc EXCEPT ![w] = "converting"]
        BY <1>8, <3>1 DEF RecordWager
      <4> QED
        BY <2>1, <4>1 DEF TypeOK, Awaiting
    <3>2. CASE ~(Rollover(b, wagered[b] + StakeOf[w]) /\ Payable(b))
      <4>1. on' = on /\ pc' = [pc EXCEPT ![w] = "done"]
        BY <1>8, <3>2 DEF RecordWager
      <4> QED
        BY <2>1, <4>1 DEF TypeOK
    <3> QED
      BY <3>1, <3>2
  <2> QED
    BY <1>8, <2>3, <2>4, <2>5 DEF RecordWager, TypeOK
<1>9. ASSUME NEW w \in Wagers, Convert(w)
      PROVE  TypeOK'
  <2>1. w \in Calls
    BY DEF Calls
  <2>2. on[w] \in Bonuses
    BY <1>9, <2>1 DEF Convert, AwaitsWhatItEnded, Awaiting, TypeOK
  <2>3. UserOf[on[w]] \in Users /\ AmountOf[on[w]] \in Nat
    BY <2>2, Amounts
  <2>4. <<"BONUS_GRANT", on[w]>> \in journals
    BY <1>9, <2>1, <2>2 DEF Convert, AwaitsWhatItEnded, GrantedInOrder
  <2>5. /\ Less(bonusCents[UserOf[on[w]]], AmountOf[on[w]]) \in Nat
        /\ available[UserOf[on[w]]] + AmountOf[on[w]] \in Nat
    BY <2>3 DEF Less, TypeOK
  <2>6. bonusCents' \in [Users -> Nat] /\ available' \in [Users -> Nat]
    BY <1>9, <2>3, <2>5 DEF Convert, TypeOK
  <2>7. journals' \subseteq JournalKinds \X {x \in Bonuses : AmountOf[x] > 0}
    BY <1>9, <2>4 DEF Convert, TypeOK, JournalKinds
  <2> QED
    BY <1>9, <2>1, <2>6, <2>7 DEF Convert, TypeOK
<1>10. ASSUME NEW c \in Calls, Lose(c)
       PROVE  TypeOK'
  <2>1. on[c] \in Bonuses
    BY <1>10 DEF Lose, AwaitsWhatItEnded, TypeOK
  <2> QED
    BY <1>10, <2>1 DEF Lose, TypeOK
<1>11. CASE UNCHANGED vars
  BY <1>11 DEF vars, TypeOK
<1> QED
  BY <1>1, <1>2, <1>3, <1>4, <1>5, <1>6, <1>7, <1>8, <1>9, <1>10, <1>11 DEF Next

(* The transaction of a grant comes before the entry in the Map, and an    *)
(* entry never leaves it.                                                  *)
LEMMA GrantedStep ==
  ASSUME TypeOK, GrantedInOrder, AwaitsWhatItEnded, [Next]_vars
  PROVE  GrantedInOrder'
<1> USE DEF mapVars, callVars, moneyVars
<1>1. ASSUME NEW b \in Bonuses, Grant(b)
      PROVE  GrantedInOrder'
  <2>1. grant' = [grant EXCEPT ![b] = "credited"] /\ grant[b] = "idle"
    BY <1>1 DEF Grant
  <2>2. journals' = journals \cup {<<"BONUS_GRANT", b>>}
    BY <1>1 DEF Grant
  <2>3. UNCHANGED <<granted, status>>
    BY <1>1 DEF Grant
  <2> QED
    BY <2>1, <2>2, <2>3 DEF GrantedInOrder, TypeOK
<1>2. ASSUME NEW b \in Bonuses, Store(b)
      PROVE  GrantedInOrder'
  <2>1. /\ grant' = [grant EXCEPT ![b] = "stored"] /\ grant[b] = "credited"
        /\ status' = [status EXCEPT ![b] = "ACTIVE"]
        /\ UNCHANGED journals
    BY <1>2 DEF Store
  <2>2. /\ Len(granted) \in Nat
        /\ Len(granted') = Len(granted) + 1
        /\ \A i \in 1 .. Len(granted) : granted'[i] = granted[i]
        /\ granted'[Len(granted) + 1] = b
    BY <1>2, AppendProperties, LenProperties DEF Store, TypeOK
  <2>3. ASSUME NEW x \in Bonuses
        PROVE  (\E i \in 1 .. Len(granted') : granted'[i] = x)
                 <=> (x = b \/ \E i \in 1 .. Len(granted) : granted[i] = x)
    <3>1. Len(granted) + 1 \in 1 .. Len(granted')
      BY <2>2
    <3>2. 1 .. Len(granted') = (1 .. Len(granted)) \cup {Len(granted) + 1}
      BY <2>2
    <3> QED
      BY <2>2, <3>1, <3>2
  <2>4. ASSUME NEW x \in Bonuses
        PROVE  /\ grant'[x] = "idle" <=> <<"BONUS_GRANT", x>> \notin journals'
               /\ grant'[x] = "stored" <=> status'[x] # "NONE"
               /\ grant'[x] = "stored" <=> \E i \in 1 .. Len(granted') : granted'[i] = x
    BY <2>1, <2>3 DEF GrantedInOrder, TypeOK
  <2> QED
    BY <2>4 DEF GrantedInOrder
<1>3. ASSUME NEW b \in Bonuses, Lapse(b)
      PROVE  GrantedInOrder'
  BY <1>3 DEF Lapse, GrantedInOrder
<1>4. ASSUME NEW c \in Calls, Start(c)
      PROVE  GrantedInOrder'
  BY <1>4 DEF Start, GrantedInOrder
<1>5. ASSUME NEW c \in Calls, Look(c)
      PROVE  GrantedInOrder'
  <2>1. UNCHANGED <<grant, granted, journals>>
    BY <1>5 DEF Look
  <2>2. CASE Due(c) = {}
    <3>1. UNCHANGED status
      BY <1>5, <2>2 DEF Look
    <3> QED
      BY <2>1, <3>1 DEF GrantedInOrder
  <2>3. CASE Due(c) # {}
    <3> DEFINE b == granted[Least(Due(c))]
    <3>1. b \in Bonuses /\ status[b] = "ACTIVE"
      BY <2>3, Chosen DEF Due, ActiveFor
    <3>2. status' = [status EXCEPT ![b] = "EXPIRED"]
      BY <1>5, <2>3 DEF Look
    <3>3. \A x \in Bonuses : status'[x] # "NONE" <=> status[x] # "NONE"
      BY <3>1, <3>2 DEF TypeOK
    <3> QED
      BY <2>1, <3>3 DEF GrantedInOrder
  <2> QED
    BY <2>2, <2>3
<1>6. ASSUME NEW c \in Calls, Forfeit(c)
      PROVE  GrantedInOrder'
  BY <1>6 DEF Forfeit, GrantedInOrder
<1>7. ASSUME NEW w \in Wagers, SkipWager(w)
      PROVE  GrantedInOrder'
  BY <1>7 DEF SkipWager, GrantedInOrder
<1>8. ASSUME NEW w \in Wagers, RecordWager(w)
      PROVE  GrantedInOrder'
  <2> DEFINE b == First(w)
  <2>1. b \in Bonuses /\ status[b] = "ACTIVE"
    BY <1>8, Chosen DEF RecordWager, NothingToRecord, ActiveFor
  <2>2. UNCHANGED status \/ status' = [status EXCEPT ![b] = "ROLLED_OVER"]
    BY <1>8 DEF RecordWager
  <2>3. \A x \in Bonuses : status'[x] # "NONE" <=> status[x] # "NONE"
    BY <2>1, <2>2 DEF TypeOK
  <2> QED
    BY <1>8, <2>3 DEF RecordWager, GrantedInOrder
<1>9. ASSUME NEW w \in Wagers, Convert(w)
      PROVE  GrantedInOrder'
  BY <1>9 DEF Convert, GrantedInOrder
<1>10. ASSUME NEW c \in Calls, Lose(c)
       PROVE  GrantedInOrder'
  BY <1>10 DEF Lose, GrantedInOrder
<1>11. CASE UNCHANGED vars
  BY <1>11 DEF vars, GrantedInOrder
<1> QED
  BY <1>1, <1>2, <1>3, <1>4, <1>5, <1>6, <1>7, <1>8, <1>9, <1>10, <1>11 DEF Next

(* A bonus that has ended stays ended, and a call waits for its own.       *)
LEMMA AwaitsStep ==
  ASSUME TypeOK, GrantedInOrder, AwaitsWhatItEnded, [Next]_vars
  PROVE  AwaitsWhatItEnded'
<1> USE DEF mapVars, callVars, moneyVars
<1>1. ASSUME UNCHANGED <<pc, on, status, lost>>
      PROVE  AwaitsWhatItEnded'
  BY <1>1 DEF AwaitsWhatItEnded
<1>2. ASSUME NEW b \in Bonuses, Store(b)
      PROVE  AwaitsWhatItEnded'
  <2>1. status[b] = "NONE"
    BY <1>2 DEF Store, GrantedInOrder
  <2>2. status' = [status EXCEPT ![b] = "ACTIVE"] /\ UNCHANGED <<pc, on, lost>>
    BY <1>2 DEF Store
  <2>3. \A x \in Bonuses : status[x] # "NONE" => status'[x] = status[x]
    BY <2>1, <2>2 DEF TypeOK
  <2>4. \A x \in lost : x \in Bonuses /\ status[x] \in Ended
    BY DEF AwaitsWhatItEnded, TypeOK
  <2>5. \A c \in Calls : on[c] # NoBonus => on[c] \in Bonuses
    BY DEF TypeOK
  <2> QED
    BY <2>2, <2>3, <2>4, <2>5 DEF AwaitsWhatItEnded, Ended, Awaiting
<1>3. ASSUME NEW c \in Calls, Start(c)
      PROVE  AwaitsWhatItEnded'
  BY <1>3 DEF Start, AwaitsWhatItEnded, Awaiting, TypeOK
<1>4. ASSUME NEW c \in Calls, Look(c)
      PROVE  AwaitsWhatItEnded'
  <2>1. pc[c] = "looking" /\ UNCHANGED lost
    BY <1>4 DEF Look
  <2>2. CASE Due(c) = {}
    BY <1>4, <2>1, <2>2 DEF Look, AwaitsWhatItEnded, Awaiting, TypeOK
  <2>3. CASE Due(c) # {}
    <3> DEFINE b == granted[Least(Due(c))]
    <3>1. b \in Bonuses /\ status[b] = "ACTIVE"
      BY <2>3, Chosen DEF Due, ActiveFor
    <3>2. status' = [status EXCEPT ![b] = "EXPIRED"]
      BY <1>4, <2>3 DEF Look
    <3>3. status'[b] = "EXPIRED" /\ \A x \in Bonuses : x # b => status'[x] = status[x]
      BY <3>1, <3>2 DEF TypeOK
    <3>4. \A x \in lost : x # b /\ x \in Bonuses
      BY <3>1 DEF AwaitsWhatItEnded, Ended, TypeOK
    <3>5. ASSUME NEW d \in Calls, on[d] # NoBonus
          PROVE  on[d] \in Bonuses /\ on[d] # b
      <4> HIDE DEF b
      <4>1. pc[d] \in Awaiting /\ on[d] \in Bonuses
        BY <3>5 DEF AwaitsWhatItEnded, TypeOK
      <4>2. status[on[d]] \in {"EXPIRED", "ROLLED_OVER"}
        BY <4>1 DEF AwaitsWhatItEnded, Awaiting
      <4> QED
        BY <3>1, <4>1, <4>2
    <3>6. b # NoBonus
      BY <3>1, BonusAssumption
    <3>7. \/ on' = [on EXCEPT ![c] = b] /\ pc' = [pc EXCEPT ![c] = "forfeiting"]
          \/ UNCHANGED <<on, pc>>
      BY <1>4, <2>3 DEF Look
    <3>8. \A x \in lost' : status'[x] \in Ended
      BY <2>1, <3>3, <3>4 DEF AwaitsWhatItEnded
    <3>9. ASSUME NEW d \in Calls
          PROVE  /\ on'[d] # NoBonus <=> pc'[d] \in Awaiting
                 /\ pc'[d] = "forfeiting" => status'[on'[d]] = "EXPIRED"
                 /\ pc'[d] = "converting" => d \in Wagers /\ status'[on'[d]] = "ROLLED_OVER"
      <4> HIDE DEF b
      <4>1. CASE on'[d] = on[d] /\ pc'[d] = pc[d]
        BY <3>3, <3>5, <4>1 DEF AwaitsWhatItEnded, Awaiting
      <4>2. CASE ~(on'[d] = on[d] /\ pc'[d] = pc[d])
        <5>1. on'[d] = b /\ pc'[d] = "forfeiting"
          BY <3>7, <4>2 DEF TypeOK
        <5> QED
          BY <3>3, <3>6, <5>1 DEF Awaiting
      <4> QED
        BY <4>1, <4>2
    <3> QED
      BY <3>8, <3>9 DEF AwaitsWhatItEnded
  <2> QED
    BY <2>2, <2>3
<1>5. ASSUME NEW c \in Calls, Forfeit(c)
      PROVE  AwaitsWhatItEnded'
  BY <1>5 DEF Forfeit, AwaitsWhatItEnded, Awaiting, TypeOK
<1>6. ASSUME NEW w \in Wagers, SkipWager(w)
      PROVE  AwaitsWhatItEnded'
  BY <1>6 DEF SkipWager, AwaitsWhatItEnded, Awaiting, TypeOK
<1>7. ASSUME NEW w \in Wagers, RecordWager(w)
      PROVE  AwaitsWhatItEnded'
  <2> DEFINE b == First(w)
             cents == wagered[b] + StakeOf[w]
  <2>1. w \in Calls /\ b \in Bonuses /\ status[b] = "ACTIVE"
    BY <1>7, Chosen DEF RecordWager, NothingToRecord, ActiveFor, Calls
  <2>2. pc[w] = "recording" /\ UNCHANGED lost
    BY <1>7 DEF RecordWager
  <2>3. \A x \in lost : x # b /\ x \in Bonuses
    BY <2>1 DEF AwaitsWhatItEnded, Ended, TypeOK
  <2>4. \A d \in Calls : on[d] # NoBonus => on[d] \in Bonuses /\ on[d] # b
    BY <2>1 DEF AwaitsWhatItEnded, Awaiting, TypeOK
  <2>5. b # NoBonus
    BY <2>1, BonusAssumption
  <2>6. CASE Rollover(b, cents)
    <3>1. status' = [status EXCEPT ![b] = "ROLLED_OVER"]
      BY <1>7, <2>6 DEF RecordWager
    <3>2. status'[b] = "ROLLED_OVER" /\ \A x \in Bonuses : x # b => status'[x] = status[x]
      BY <2>1, <3>1 DEF TypeOK
    <3>3. \/ on' = [on EXCEPT ![w] = b] /\ pc' = [pc EXCEPT ![w] = "converting"]
          \/ on' = on /\ pc' = [pc EXCEPT ![w] = "done"]
      BY <1>7 DEF RecordWager
    <3>4. \A x \in lost' : status'[x] \in Ended
      BY <2>2, <2>3, <3>2 DEF AwaitsWhatItEnded
    <3>5. ASSUME NEW d \in Calls
          PROVE  /\ on'[d] # NoBonus <=> pc'[d] \in Awaiting
                 /\ pc'[d] = "forfeiting" => status'[on'[d]] = "EXPIRED"
                 /\ pc'[d] = "converting" => d \in Wagers /\ status'[on'[d]] = "ROLLED_OVER"
      <4> HIDE DEF b, cents
      <4>1. CASE d # w
        <5>1. on'[d] = on[d] /\ pc'[d] = pc[d]
          BY <3>3, <4>1 DEF TypeOK
        <5> QED
          BY <2>4, <3>2, <5>1 DEF AwaitsWhatItEnded, Awaiting
      <4>2. CASE d = w
        <5>1. on[w] = NoBonus
          BY <2>1, <2>2 DEF AwaitsWhatItEnded, Awaiting
        <5>2. \/ on'[w] = b /\ pc'[w] = "converting"
              \/ on'[w] = NoBonus /\ pc'[w] = "done"
          BY <2>1, <3>3, <5>1 DEF TypeOK
        <5> QED
          BY <2>5, <3>2, <4>2, <5>2 DEF Awaiting
      <4> QED
        BY <4>1, <4>2
    <3> QED
      BY <3>4, <3>5 DEF AwaitsWhatItEnded
  <2>7. CASE ~Rollover(b, cents)
    <3>1. UNCHANGED <<status, on, lost>> /\ pc' = [pc EXCEPT ![w] = "done"]
      BY <1>7, <2>7 DEF RecordWager
    <3> QED
      BY <2>1, <2>2, <3>1 DEF AwaitsWhatItEnded, Awaiting, TypeOK
  <2> QED
    BY <2>6, <2>7
<1>8. ASSUME NEW w \in Wagers, Convert(w)
      PROVE  AwaitsWhatItEnded'
  <2>1. w \in Calls
    BY DEF Calls
  <2> QED
    BY <1>8, <2>1 DEF Convert, AwaitsWhatItEnded, Awaiting, TypeOK
<1>9. ASSUME NEW c \in Calls, Lose(c)
      PROVE  AwaitsWhatItEnded'
  <2>1. status[on[c]] \in Ended
    BY <1>9 DEF Lose, AwaitsWhatItEnded, Awaiting, Ended
  <2> QED
    BY <1>9, <2>1 DEF Lose, AwaitsWhatItEnded, Awaiting, TypeOK
<1>10. ASSUME NEW b \in Bonuses, Grant(b) \/ Lapse(b)
       PROVE  AwaitsWhatItEnded'
  BY <1>1, <1>10 DEF Grant, Lapse
<1>11. CASE UNCHANGED vars
  BY <1>1, <1>11 DEF vars
<1> QED
  BY <1>2, <1>3, <1>4, <1>5, <1>6, <1>7, <1>8, <1>9, <1>10, <1>11 DEF Next

(* What the loop has passed stays passed: a bonus that is not active does  *)
(* not become active again, and what is stored later had not lapsed.       *)
LEMMA BehindStep ==
  ASSUME TypeOK, GrantedInOrder, NoneLeftBehind, [Next]_vars
  PROVE  NoneLeftBehind'
<1> USE DEF mapVars, callVars, moneyVars
<1>1. \A c \in Calls : \A b \in now[c] : b \in Bonuses /\ b \in lapsed /\ grant[b] = "stored"
  BY DEF NoneLeftBehind, TypeOK
<1>2. ASSUME UNCHANGED <<granted, at, now>>, lapsed \subseteq lapsed',
             \A b \in lapsed' : grant'[b] = "stored",
             \A b \in lapsed : status'[b] = "ACTIVE" => status[b] = "ACTIVE",
             \A c \in Calls : pc'[c] = pc[c] \/ pc'[c] \notin {"idle", "recording"}
      PROVE  NoneLeftBehind'
  <2>1. ASSUME NEW c \in Calls
        PROVE  /\ now'[c] \subseteq lapsed'
               /\ pc'[c] = "idle" => at'[c] = 1
    BY <1>2, <2>1 DEF NoneLeftBehind
  <2>2. ASSUME NEW c \in Calls, NEW b \in now[c], ~ActiveFor(c, b)
        PROVE  ~ActiveFor(c, b)'
    BY <1>1, <1>2, <2>2 DEF ActiveFor
  <2>3. ASSUME NEW c \in Calls, NEW i \in 1 .. Len(granted'), i < at'[c],
               granted'[i] \in now'[c]
        PROVE  ~ActiveFor(c, granted[i])'
    <3>1. ~ActiveFor(c, granted[i]) /\ granted[i] \in now[c] /\ granted' = granted
      BY <1>2, <2>3 DEF NoneLeftBehind
    <3> QED
      BY <2>2, <3>1 DEF ActiveFor
  <2>4. ASSUME NEW c \in Calls, pc'[c] = "recording", NEW b \in now'[c]
        PROVE  ~ActiveFor(c, b)'
    <3>1. b \in now[c] /\ ~ActiveFor(c, b)
      BY <1>2, <2>4 DEF NoneLeftBehind
    <3> QED
      BY <2>2, <3>1
  <2> QED
    BY <1>2, <2>1, <2>3, <2>4 DEF NoneLeftBehind
<1>3. ASSUME NEW b \in Bonuses, Grant(b)
      PROVE  NoneLeftBehind'
  <2>1. grant' = [grant EXCEPT ![b] = "credited"] /\ grant[b] = "idle"
    BY <1>3 DEF Grant
  <2>2. UNCHANGED <<granted, at, now, lapsed, status, pc>>
    BY <1>3 DEF Grant
  <2>3. \A x \in lapsed : grant'[x] = "stored"
    BY <2>1 DEF NoneLeftBehind, TypeOK
  <2> QED
    BY <1>2, <2>2, <2>3
<1>4. ASSUME NEW b \in Bonuses, Lapse(b)
      PROVE  NoneLeftBehind'
  <2>1. lapsed' = lapsed \cup {b} /\ grant[b] = "stored"
    BY <1>4 DEF Lapse
  <2>2. UNCHANGED <<granted, at, now, grant, status, pc>>
    BY <1>4 DEF Lapse
  <2>3. \A x \in lapsed' : grant'[x] = "stored"
    BY <2>1, <2>2 DEF NoneLeftBehind
  <2> QED
    BY <1>2, <2>1, <2>2, <2>3
<1>5. ASSUME NEW b \in Bonuses, Store(b)
      PROVE  NoneLeftBehind'
  <2>1. /\ grant[b] = "credited" /\ grant' = [grant EXCEPT ![b] = "stored"]
        /\ status' = [status EXCEPT ![b] = "ACTIVE"]
        /\ UNCHANGED <<at, now, lapsed, pc>>
    BY <1>5 DEF Store
  <2>2. /\ Len(granted) \in Nat
        /\ Len(granted') = Len(granted) + 1
        /\ \A i \in 1 .. Len(granted) : granted'[i] = granted[i]
        /\ granted'[Len(granted) + 1] = b
    BY <1>5, AppendProperties, LenProperties DEF Store, TypeOK
  <2>3. b \notin lapsed
    BY <2>1 DEF NoneLeftBehind
  <2>4. \A x \in lapsed : grant'[x] = "stored" /\ status'[x] = status[x]
    BY <2>1, <2>3 DEF NoneLeftBehind, TypeOK
  <2>5. ASSUME NEW c \in Calls, NEW i \in 1 .. Len(granted'), i < at'[c],
               granted'[i] \in now'[c]
        PROVE  ~ActiveFor(c, granted[i])'
    <3>1. granted'[i] # b
      BY <1>1, <2>1, <2>3, <2>5
    <3>2. i # Len(granted) + 1
      BY <2>2, <3>1
    <3>3. i \in 1 .. Len(granted)
      BY <2>2, <3>2
    <3>4. granted'[i] = granted[i] /\ granted[i] \in now[c] /\ i < at[c]
      BY <2>1, <2>2, <2>5, <3>3
    <3>5. ~ActiveFor(c, granted[i])
      BY <3>3, <3>4 DEF NoneLeftBehind
    <3>6. status'[granted[i]] = status[granted[i]]
      BY <1>1, <2>4, <3>4
    <3> QED
      BY <3>4, <3>5, <3>6 DEF ActiveFor
  <2>6. ASSUME NEW c \in Calls, pc'[c] = "recording", NEW x \in now'[c]
        PROVE  ~ActiveFor(c, x)'
    <3>1. x \in now[c] /\ ~ActiveFor(c, x)
      BY <2>1, <2>6 DEF NoneLeftBehind
    <3>2. status'[x] = status[x]
      BY <1>1, <2>4, <3>1
    <3> QED
      BY <3>1, <3>2 DEF ActiveFor
  <2>7. ASSUME NEW c \in Calls
        PROVE  now'[c] \subseteq lapsed' /\ (pc'[c] = "idle" => at'[c] = 1)
    BY <2>1 DEF NoneLeftBehind
  <2>8. \A x \in lapsed' : grant'[x] = "stored"
    BY <2>1, <2>4
  <2> QED
    BY <2>5, <2>6, <2>7, <2>8 DEF NoneLeftBehind
<1>6. ASSUME NEW c \in Calls, Start(c)
      PROVE  NoneLeftBehind'
  <2>1. /\ pc[c] = "idle" /\ pc' = [pc EXCEPT ![c] = "looking"]
        /\ now' = [now EXCEPT ![c] = lapsed]
        /\ UNCHANGED <<grant, granted, status, lapsed, at>>
    BY <1>6 DEF Start
  <2>2. at[c] = 1 /\ at[c] \in Nat
    BY <2>1 DEF NoneLeftBehind
  <2>3. ASSUME NEW d \in Calls
        PROVE  /\ now'[d] \subseteq lapsed'
               /\ pc'[d] = "idle" => at'[d] = 1
               /\ \A i \in 1 .. Len(granted') :
                    i < at'[d] /\ granted'[i] \in now'[d] => ~ActiveFor(d, granted[i])'
               /\ pc'[d] = "recording" => \A b \in now'[d] : ~ActiveFor(d, b)'
    <3>1. CASE d = c
      <4>1. now'[d] = lapsed /\ pc'[d] = "looking" /\ at'[d] = 1
        BY <2>1, <2>2, <3>1 DEF TypeOK
      <4>2. Len(granted') \in Nat /\ \A i \in 1 .. Len(granted') : ~(i < 1)
        BY <2>1 DEF TypeOK
      <4> QED
        BY <2>1, <4>1, <4>2
    <3>2. CASE d # c
      <4>1. now'[d] = now[d] /\ pc'[d] = pc[d] /\ at'[d] = at[d]
        BY <2>1, <3>2 DEF TypeOK
      <4> QED
        BY <2>1, <4>1 DEF NoneLeftBehind, ActiveFor
    <3> QED
      BY <3>1, <3>2
  <2> QED
    BY <2>1, <2>3 DEF NoneLeftBehind
<1>7. ASSUME NEW c \in Calls, Look(c)
      PROVE  NoneLeftBehind'
  <2>1. pc[c] = "looking" /\ UNCHANGED <<grant, granted, lapsed, now>>
    BY <1>7 DEF Look
  <2>2. Len(granted) \in Nat /\ at[c] \in Nat \ {0}
    BY DEF TypeOK
  <2>3. CASE Due(c) = {}
    <3>1. /\ UNCHANGED <<status, at>>
          /\ pc' = [pc EXCEPT ![c] = IF c \in Wagers THEN "recording" ELSE "done"]
      BY <1>7, <2>3 DEF Look
    <3>2. ASSUME NEW b \in now[c]
          PROVE  ~ActiveFor(c, b)
      <4>1. PICK i \in 1 .. Len(granted) : granted[i] = b
        BY <1>1 DEF GrantedInOrder
      <4>2. CASE i < at[c]
        BY <4>1, <4>2 DEF NoneLeftBehind
      <4>3. CASE ~(i < at[c])
        <5>1. i \in at[c] .. Len(granted)
          BY <2>2, <4>3
        <5> QED
          BY <2>3, <4>1, <5>1 DEF Due
      <4> QED
        BY <4>2, <4>3
    <3>3. ASSUME NEW d \in Calls
          PROVE  /\ pc'[d] = "idle" => at[d] = 1
                 /\ pc'[d] = "recording" => \A b \in now[d] : ~ActiveFor(d, b)
      <4>1. CASE d = c
        BY <3>1, <3>2, <4>1 DEF TypeOK
      <4>2. CASE d # c
        <5>1. pc'[d] = pc[d]
          BY <3>1, <4>2 DEF TypeOK
        <5> QED
          BY <5>1 DEF NoneLeftBehind
      <4> QED
        BY <4>1, <4>2
    <3> QED
      BY <2>1, <3>1, <3>3 DEF NoneLeftBehind, ActiveFor
  <2>4. CASE Due(c) # {}
    <3> DEFINE i == Least(Due(c))
    <3>1. /\ i \in Due(c) /\ i \in 1 .. Len(granted) /\ granted[i] \in Bonuses
          /\ \A j \in Due(c) : i <= j
      BY <2>4, Chosen
    <3>2. /\ status' = [status EXCEPT ![granted[i]] = "EXPIRED"]
          /\ at' = [at EXCEPT ![c] = i + 1]
      BY <1>7, <2>4 DEF Look
    <3>3. pc' = pc \/ pc' = [pc EXCEPT ![c] = "forfeiting"]
      BY <1>7, <2>4 DEF Look
    <3>4. at[c] <= i
      BY <2>2, <3>1 DEF Due
    <3> HIDE DEF i
    <3>5. \A x \in Bonuses : status'[x] = "ACTIVE" => status[x] = "ACTIVE" /\ x # granted[i]
      BY <3>1, <3>2 DEF TypeOK
    <3>6. ASSUME NEW d \in Calls, NEW x \in now[d], ~ActiveFor(d, x)
          PROVE  ~ActiveFor(d, x)'
      BY <1>1, <3>5, <3>6 DEF ActiveFor
    <3>7. ASSUME NEW d \in Calls, NEW j \in 1 .. Len(granted), j < at'[d],
                 granted[j] \in now[d]
          PROVE  ~ActiveFor(d, granted[j])'
      <4>1. CASE j < at[d]
        <5>1. ~ActiveFor(d, granted[j])
          BY <3>7, <4>1 DEF NoneLeftBehind
        <5>2. ActiveFor(d, granted[j])' => ActiveFor(d, granted[j])
          BY <1>1, <2>1, <3>5, <3>7 DEF ActiveFor
        <5> QED
          BY <5>1, <5>2
      <4>2. CASE ~(j < at[d])
        <5>1. d = c
          BY <3>2, <3>7, <4>2 DEF TypeOK
        <5>2. j < i + 1 /\ j \in at[c] .. Len(granted)
          BY <2>2, <3>1, <3>2, <3>7, <4>2, <5>1 DEF TypeOK
        <5>3. CASE j = i
          BY <2>1, <3>1, <3>5, <5>3 DEF ActiveFor
        <5>4. CASE j # i
          <6>1. j \notin Due(c)
            BY <2>2, <3>1, <5>2, <5>4
          <6>2. ~ActiveFor(c, granted[j])
            BY <3>7, <5>1, <5>2, <6>1 DEF Due
          <6>3. ActiveFor(c, granted[j])' => ActiveFor(c, granted[j])
            BY <1>1, <2>1, <3>5, <3>7, <5>1 DEF ActiveFor
          <6> QED
            BY <5>1, <6>2, <6>3
        <5> QED
          BY <5>3, <5>4
      <4> QED
        BY <4>1, <4>2
    <3>8. ASSUME NEW d \in Calls
          PROVE  /\ now'[d] \subseteq lapsed'
                 /\ pc'[d] = "idle" => at'[d] = 1
                 /\ \A j \in 1 .. Len(granted') :
                      j < at'[d] /\ granted'[j] \in now'[d] => ~ActiveFor(d, granted[j])'
                 /\ pc'[d] = "recording" => \A b \in now'[d] : ~ActiveFor(d, b)'
      <4>1. (pc'[d] = pc[d] /\ at'[d] = at[d]) \/ pc'[d] \in {"looking", "forfeiting"}
        BY <2>1, <3>2, <3>3 DEF TypeOK
      <4>2. pc'[d] = "idle" => at'[d] = 1
        BY <4>1 DEF NoneLeftBehind
      <4>3. pc'[d] = "recording" => \A b \in now'[d] : ~ActiveFor(d, b)'
        BY <2>1, <3>6, <4>1 DEF NoneLeftBehind
      <4>4. now'[d] \subseteq lapsed'
        BY <2>1 DEF NoneLeftBehind
      <4>5. \A j \in 1 .. Len(granted') :
              j < at'[d] /\ granted'[j] \in now'[d] => ~ActiveFor(d, granted[j])'
        BY <2>1, <3>7
      <4> QED
        BY <4>2, <4>3, <4>4, <4>5
    <3> QED
      BY <2>1, <3>8 DEF NoneLeftBehind
  <2> QED
    BY <2>3, <2>4
<1>8. ASSUME NEW w \in Wagers, RecordWager(w)
      PROVE  NoneLeftBehind'
  <2> DEFINE b == First(w)
  <2>1. b \in Bonuses
    BY <1>8, Chosen DEF RecordWager, NothingToRecord
  <2>2. UNCHANGED status \/ status' = [status EXCEPT ![b] = "ROLLED_OVER"]
    BY <1>8 DEF RecordWager
  <2>3. \A x \in lapsed : status'[x] = "ACTIVE" => status[x] = "ACTIVE"
    BY <2>1, <2>2 DEF TypeOK
  <2>4. UNCHANGED <<granted, at, now, grant, lapsed>>
    BY <1>8 DEF RecordWager
  <2>5. pc' = [pc EXCEPT ![w] = "converting"] \/ pc' = [pc EXCEPT ![w] = "done"]
    BY <1>8 DEF RecordWager
  <2>6. \A c \in Calls : pc'[c] = pc[c] \/ pc'[c] \notin {"idle", "recording"}
    BY <2>5 DEF TypeOK
  <2>7. \A x \in lapsed' : grant'[x] = "stored"
    BY <2>4 DEF NoneLeftBehind
  <2> QED
    BY <1>2, <2>3, <2>4, <2>6, <2>7
<1>9. ASSUME UNCHANGED <<granted, at, now, grant, lapsed, status>>,
             NEW c \in Calls, NEW where \in {"looking", "done", "unconverted", "failed"},
             pc' = [pc EXCEPT ![c] = where]
      PROVE  NoneLeftBehind'
  <2>1. \A d \in Calls : pc'[d] = pc[d] \/ pc'[d] \notin {"idle", "recording"}
    BY <1>9 DEF TypeOK
  <2>2. \A x \in lapsed' : grant'[x] = "stored"
    BY <1>9 DEF NoneLeftBehind
  <2> QED
    BY <1>2, <1>9, <2>1, <2>2
<1>10. ASSUME NEW c \in Calls, Forfeit(c)
       PROVE  NoneLeftBehind'
  BY <1>9, <1>10 DEF Forfeit
<1>11. ASSUME NEW w \in Wagers, SkipWager(w) \/ Convert(w)
       PROVE  NoneLeftBehind'
  <2>1. w \in Calls
    BY DEF Calls
  <2> QED
    BY <1>9, <1>11, <2>1 DEF SkipWager, Convert
<1>12. ASSUME NEW c \in Calls, Lose(c)
       PROVE  NoneLeftBehind'
  <2>1. pc' = [pc EXCEPT ![c] = "unconverted"] \/ pc' = [pc EXCEPT ![c] = "failed"]
    BY <1>12 DEF Lose
  <2> QED
    BY <1>9, <1>12, <2>1 DEF Lose
<1>13. CASE UNCHANGED vars
  BY <1>2, <1>13 DEF vars, NoneLeftBehind
<1> QED
  BY <1>3, <1>4, <1>5, <1>6, <1>7, <1>8, <1>10, <1>11, <1>12, <1>13 DEF Next

-----------------------------------------------------------------------------
(* A call that ends an active bonus and waits for its transaction. *)
LEMMA EndingKeepsOnce ==
  ASSUME TypeOK, AwaitsWhatItEnded, EndsOnce,
         NEW c \in Calls, on[c] = NoBonus, NEW b \in Bonuses, status[b] = "ACTIVE",
         NEW ended \in Ended, status' = [status EXCEPT ![b] = ended],
         on' = [on EXCEPT ![c] = b], UNCHANGED <<journals, lost>>
  PROVE  EndsOnce'
<1>1. /\ <<"BONUS_ROLLOVER", b>> \notin journals
      /\ <<"BONUS_EXPIRATION", b>> \notin journals
  BY DEF EndsOnce
<1>2. b \notin lost
  BY DEF AwaitsWhatItEnded, Ended
<1>3. ASSUME NEW d \in Calls
      PROVE  on[d] # b
  <2>1. CASE on[d] = NoBonus
    BY <2>1, BonusAssumption
  <2>2. CASE on[d] # NoBonus
    BY <2>2 DEF AwaitsWhatItEnded, Awaiting
  <2> QED
    BY <2>1, <2>2
<1>4. on'[c] = b /\ \A d \in Calls : d # c => on'[d] = on[d]
  BY DEF TypeOK
<1>5. \A x \in Bonuses : x # b => status'[x] = status[x]
  BY DEF TypeOK
<1>6. ASSUME NEW x \in Bonuses
      PROVE  /\ <<"BONUS_ROLLOVER", x>> \in journals => status'[x] = "ROLLED_OVER"
             /\ <<"BONUS_EXPIRATION", x>> \in journals => status'[x] = "EXPIRED"
             /\ status'[x] \in Ended =>
                  \/ x \in lost
                  \/ \E kind \in JournalKinds \ {"BONUS_GRANT"} : <<kind, x>> \in journals
                  \/ \E d \in Calls : on'[d] = x
  <2>1. CASE x = b
    BY <1>1, <1>4, <2>1
  <2>2. CASE x # b
    <3>1. \A d \in Calls : on[d] = x => on'[d] = x
      BY <1>4, BonusAssumption
    <3> QED
      BY <1>5, <2>2, <3>1 DEF EndsOnce
  <2> QED
    BY <2>1, <2>2
<1>7. ASSUME NEW d \in Calls, on'[d] # NoBonus
      PROVE  /\ on'[d] \notin lost
             /\ \A kind \in JournalKinds \ {"BONUS_GRANT"} : <<kind, on'[d]>> \notin journals
             /\ \A e \in Calls : on'[e] = on'[d] => e = d
  <2>1. CASE d = c
    BY <1>1, <1>2, <1>3, <1>4, <2>1 DEF JournalKinds
  <2>2. CASE d # c
    BY <1>3, <1>4, <1>7, <2>2 DEF EndsOnce
  <2> QED
    BY <2>1, <2>2
<1> QED
  BY <1>6, <1>7 DEF EndsOnce

(* A call whose transaction posts the journal of the bonus it waits for,   *)
(* or throws.                                                              *)
LEMMA ResolvingKeepsOnce ==
  ASSUME TypeOK, AwaitsWhatItEnded, EndsOnce,
         NEW c \in Calls, on[c] # NoBonus, on' = [on EXCEPT ![c] = NoBonus],
         UNCHANGED status,
         \/ /\ status[on[c]] = "EXPIRED"
            /\ journals' = journals \cup {<<"BONUS_EXPIRATION", on[c]>>}
            /\ lost' = lost
         \/ /\ status[on[c]] = "ROLLED_OVER"
            /\ journals' = journals \cup {<<"BONUS_ROLLOVER", on[c]>>}
            /\ lost' = lost
         \/ /\ journals' = journals
            /\ lost' = lost \cup {on[c]}
  PROVE  EndsOnce'
<1> DEFINE b == on[c]
<1>1. b \in Bonuses
  BY DEF TypeOK
<1>2. on'[c] = NoBonus /\ \A d \in Calls : d # c => on'[d] = on[d]
  BY DEF TypeOK
<1>3. \A d \in Calls : d # c => on[d] # b
  BY DEF EndsOnce
<1> HIDE DEF b
<1>4. \/ /\ status[b] = "EXPIRED"
         /\ journals' = journals \cup {<<"BONUS_EXPIRATION", b>>}
         /\ lost' = lost
      \/ /\ status[b] = "ROLLED_OVER"
         /\ journals' = journals \cup {<<"BONUS_ROLLOVER", b>>}
         /\ lost' = lost
      \/ /\ journals' = journals
         /\ lost' = lost \cup {b}
  BY DEF b
<1>5. ASSUME NEW x \in Bonuses
      PROVE  /\ <<"BONUS_ROLLOVER", x>> \in journals' => status[x] = "ROLLED_OVER"
             /\ <<"BONUS_EXPIRATION", x>> \in journals' => status[x] = "EXPIRED"
             /\ status[x] \in Ended =>
                  \/ x \in lost'
                  \/ \E kind \in JournalKinds \ {"BONUS_GRANT"} : <<kind, x>> \in journals'
                  \/ \E d \in Calls : on'[d] = x
  <2>1. /\ <<"BONUS_ROLLOVER", x>> \in journals' => status[x] = "ROLLED_OVER"
        /\ <<"BONUS_EXPIRATION", x>> \in journals' => status[x] = "EXPIRED"
    BY <1>4 DEF EndsOnce
  <2>2. CASE x = b
    BY <1>4, <2>1, <2>2 DEF JournalKinds
  <2>3. CASE x # b
    <3>1. \A d \in Calls : on[d] = x => on'[d] = x
      BY <1>2, <2>3 DEF b
    <3>2. lost \subseteq lost' /\ journals \subseteq journals'
      BY <1>4
    <3> QED
      BY <2>1, <3>1, <3>2 DEF EndsOnce
  <2> QED
    BY <2>2, <2>3
<1>6. ASSUME NEW d \in Calls, on'[d] # NoBonus
      PROVE  /\ on'[d] \notin lost'
             /\ \A kind \in JournalKinds \ {"BONUS_GRANT"} : <<kind, on'[d]>> \notin journals'
             /\ \A e \in Calls : on'[e] = on'[d] => e = d
  <2>1. d # c /\ on'[d] = on[d] /\ on[d] # b
    BY <1>2, <1>3, <1>6
  <2>2. /\ on[d] \notin lost
        /\ \A kind \in JournalKinds \ {"BONUS_GRANT"} : <<kind, on[d]>> \notin journals
        /\ \A e \in Calls : on[e] = on[d] => e = d
    BY <1>6, <2>1 DEF EndsOnce
  <2>3. on[d] \notin lost'
    BY <1>4, <2>1, <2>2
  <2>4. \A kind \in JournalKinds \ {"BONUS_GRANT"} : <<kind, on[d]>> \notin journals'
    BY <1>4, <2>1, <2>2
  <2>5. \A e \in Calls : on'[e] = on'[d] => e = d
    BY <1>2, <1>6, <2>1, <2>2
  <2> QED
    BY <2>1, <2>3, <2>4, <2>5
<1> QED
  BY <1>5, <1>6 DEF EndsOnce

(* A bonus ends once, whichever calls meet over it. *)
LEMMA OnceStep ==
  ASSUME TypeOK, GrantedInOrder, AwaitsWhatItEnded, EndsOnce, [Next]_vars
  PROVE  EndsOnce'
<1> USE DEF mapVars, callVars, moneyVars
<1>1. ASSUME UNCHANGED <<status, on, lost, journals>>
      PROVE  EndsOnce'
  BY <1>1 DEF EndsOnce
<1>2. ASSUME NEW b \in Bonuses, Grant(b)
      PROVE  EndsOnce'
  <2>1. journals' = journals \cup {<<"BONUS_GRANT", b>>} /\ UNCHANGED <<status, on, lost>>
    BY <1>2 DEF Grant
  <2> QED
    BY <2>1 DEF EndsOnce
<1>3. ASSUME NEW b \in Bonuses, Store(b)
      PROVE  EndsOnce'
  <2>1. status[b] = "NONE"
    BY <1>3 DEF Store, GrantedInOrder
  <2>2. status' = [status EXCEPT ![b] = "ACTIVE"] /\ UNCHANGED <<journals, on, lost>>
    BY <1>3 DEF Store
  <2>3. status'[b] = "ACTIVE" /\ \A x \in Bonuses : x # b => status'[x] = status[x]
    BY <2>2 DEF TypeOK
  <2>4. /\ <<"BONUS_ROLLOVER", b>> \notin journals
        /\ <<"BONUS_EXPIRATION", b>> \notin journals
    BY <2>1 DEF EndsOnce
  <2>5. ASSUME NEW x \in Bonuses
        PROVE  /\ <<"BONUS_ROLLOVER", x>> \in journals => status'[x] = "ROLLED_OVER"
               /\ <<"BONUS_EXPIRATION", x>> \in journals => status'[x] = "EXPIRED"
               /\ status'[x] \in Ended => status[x] \in Ended
    BY <2>3, <2>4 DEF EndsOnce, Ended
  <2> QED
    BY <2>2, <2>5 DEF EndsOnce
<1>4. ASSUME NEW c \in Calls, Look(c)
      PROVE  EndsOnce'
  <2>1. CASE Due(c) = {}
    BY <1>1, <1>4, <2>1 DEF Look
  <2>2. CASE Due(c) # {}
    <3> DEFINE b == granted[Least(Due(c))]
    <3>1. b \in Bonuses /\ status[b] = "ACTIVE"
      BY <2>2, Chosen DEF Due, ActiveFor
    <3>2. on[c] = NoBonus
      BY <1>4 DEF Look, AwaitsWhatItEnded, Awaiting
    <3>3. <<"BONUS_GRANT", b>> \in journals
      <4> HIDE DEF b
      <4> QED
        BY <3>1 DEF GrantedInOrder
    <3>4. Payable(b)
      <4> HIDE DEF b
      <4> QED
        BY <3>3 DEF TypeOK, Payable
    <3>5. /\ status' = [status EXCEPT ![b] = "EXPIRED"]
          /\ on' = [on EXCEPT ![c] = b]
          /\ UNCHANGED <<journals, lost>>
      BY <1>4, <2>2, <3>4 DEF Look
    <3> HIDE DEF b
    <3> QED
      BY <3>1, <3>2, <3>5, EndingKeepsOnce DEF Ended
  <2> QED
    BY <2>1, <2>2
<1>5. ASSUME NEW w \in Wagers, RecordWager(w)
      PROVE  EndsOnce'
  <2> DEFINE b == First(w)
             cents == wagered[b] + StakeOf[w]
  <2>1. w \in Calls /\ b \in Bonuses /\ status[b] = "ACTIVE"
    BY <1>5, Chosen DEF RecordWager, NothingToRecord, ActiveFor, Calls
  <2>2. CASE Rollover(b, cents)
    <3>1. on[w] = NoBonus
      BY <1>5, <2>1 DEF RecordWager, AwaitsWhatItEnded, Awaiting
    <3>2. <<"BONUS_GRANT", b>> \in journals
      <4> HIDE DEF b
      <4> QED
        BY <2>1 DEF GrantedInOrder
    <3>3. Payable(b)
      <4> HIDE DEF b
      <4> QED
        BY <3>2 DEF TypeOK, Payable
    <3>4. /\ status' = [status EXCEPT ![b] = "ROLLED_OVER"]
          /\ on' = [on EXCEPT ![w] = b]
          /\ UNCHANGED <<journals, lost>>
      BY <1>5, <2>2, <3>3 DEF RecordWager
    <3> HIDE DEF b, cents
    <3> QED
      BY <2>1, <3>1, <3>4, EndingKeepsOnce DEF Ended
  <2>3. CASE ~Rollover(b, cents)
    BY <1>1, <1>5, <2>3 DEF RecordWager
  <2> QED
    BY <2>2, <2>3
<1>6. ASSUME NEW c \in Calls, Forfeit(c)
      PROVE  EndsOnce'
  <2>1. /\ on[c] # NoBonus /\ status[on[c]] = "EXPIRED"
        /\ on' = [on EXCEPT ![c] = NoBonus]
        /\ journals' = journals \cup {<<"BONUS_EXPIRATION", on[c]>>}
        /\ UNCHANGED <<status, lost>>
    BY <1>6 DEF Forfeit, AwaitsWhatItEnded, Awaiting
  <2> QED
    BY <2>1, ResolvingKeepsOnce
<1>7. ASSUME NEW w \in Wagers, Convert(w)
      PROVE  EndsOnce'
  <2>1. w \in Calls
    BY DEF Calls
  <2>2. /\ on[w] # NoBonus /\ status[on[w]] = "ROLLED_OVER"
        /\ on' = [on EXCEPT ![w] = NoBonus]
        /\ journals' = journals \cup {<<"BONUS_ROLLOVER", on[w]>>}
        /\ UNCHANGED <<status, lost>>
    BY <1>7, <2>1 DEF Convert, AwaitsWhatItEnded, Awaiting
  <2> QED
    BY <2>1, <2>2, ResolvingKeepsOnce
<1>8. ASSUME NEW c \in Calls, Lose(c)
      PROVE  EndsOnce'
  <2>1. /\ on[c] # NoBonus
        /\ on' = [on EXCEPT ![c] = NoBonus]
        /\ lost' = lost \cup {on[c]}
        /\ UNCHANGED <<status, journals>>
    BY <1>8 DEF Lose, AwaitsWhatItEnded
  <2> QED
    BY <2>1, ResolvingKeepsOnce
<1>9. ASSUME NEW b \in Bonuses, Lapse(b)
      PROVE  EndsOnce'
  BY <1>1, <1>9 DEF Lapse
<1>10. ASSUME NEW c \in Calls, Start(c)
       PROVE  EndsOnce'
  BY <1>1, <1>10 DEF Start
<1>11. ASSUME NEW w \in Wagers, SkipWager(w)
       PROVE  EndsOnce'
  BY <1>1, <1>11 DEF SkipWager
<1>12. CASE UNCHANGED vars
  BY <1>1, <1>12 DEF vars
<1> QED
  BY <1>2, <1>3, <1>4, <1>5, <1>6, <1>7, <1>8, <1>9, <1>10, <1>11, <1>12 DEF Next

-----------------------------------------------------------------------------
(* A journal that is new adds its amount to one sum of one user. *)
LEMMA PostedOnce ==
  ASSUME NEW kind, NEW b \in Bonuses, <<kind, b>> \notin journals,
         journals' = journals \cup {<<kind, b>>}, NEW k, NEW u
  PROVE  /\ Sum(k, u) \in Nat
         /\ Sum(k, u)' = IF k = kind /\ UserOf[b] = u THEN Sum(k, u) + AmountOf[b] ELSE Sum(k, u)
<1>1. Posted(k, u) \subseteq Bonuses /\ IsFiniteSet(Posted(k, u))
  BY Amounts, FS_Subset DEF Posted
<1>2. \A x \in Posted(k, u) \cup {b} : AmountOf[x] \in Nat
  BY <1>1, Amounts
<1>3. Sum(k, u) \in Nat
  BY <1>1, <1>2, CentsFinite DEF Sum
<1>4. CASE k = kind /\ UserOf[b] = u
  <2>1. Posted(k, u)' = Posted(k, u) \cup {b} /\ b \notin Posted(k, u)
    BY <1>4 DEF Posted
  <2>2. Total(Posted(k, u) \cup {b}, AmountOf) = Total(Posted(k, u), AmountOf) + AmountOf[b]
    BY <1>1, <1>2, <2>1, TotalAdd
  <2>3. Sum(k, u)' = Total(Posted(k, u)', AmountOf)
    BY DEF Sum
  <2> QED
    BY <1>3, <1>4, <2>1, <2>2, <2>3 DEF Sum
<1>5. CASE ~(k = kind /\ UserOf[b] = u)
  <2>1. Posted(k, u)' = Posted(k, u)
    BY <1>5 DEF Posted
  <2> QED
    BY <1>3, <1>5, <2>1 DEF Sum
<1> QED
  BY <1>4, <1>5

(* A bonus that was granted and has no journal of its end is still among   *)
(* the bonus cents of its user.                                            *)
LEMMA StillThere ==
  ASSUME GrantedInOrder, EndsOnce, NEW b \in Bonuses,
         <<"BONUS_GRANT", b>> \in journals,
         <<"BONUS_ROLLOVER", b>> \notin journals, <<"BONUS_EXPIRATION", b>> \notin journals
  PROVE  AmountOf[b] + Sum("BONUS_ROLLOVER", UserOf[b]) + Sum("BONUS_EXPIRATION", UserOf[b])
           <= Sum("BONUS_GRANT", UserOf[b])
<1> DEFINE u == UserOf[b]
           G == Posted("BONUS_GRANT", u)
           R == Posted("BONUS_ROLLOVER", u)
           E == Posted("BONUS_EXPIRATION", u)
<1>1. G \subseteq Bonuses /\ R \subseteq Bonuses /\ E \subseteq Bonuses
  BY DEF Posted
<1>2. IsFiniteSet(G) /\ IsFiniteSet(R) /\ IsFiniteSet(E) /\ IsFiniteSet(R \cup E)
      /\ IsFiniteSet((R \cup E) \cup {b})
  BY <1>1, Amounts, FS_Subset
<1>3. R \cap E = {} /\ b \notin R \cup E
  BY DEF Posted, EndsOnce
<1>4. (R \cup E) \cup {b} \subseteq G
  <2>1. b \in G
    BY DEF Posted
  <2>2. ASSUME NEW x \in R \cup E
        PROVE  x \in G
    <3>1. x \in Bonuses /\ UserOf[x] = u /\ status[x] # "NONE"
      BY <2>2 DEF Posted, EndsOnce
    <3>2. <<"BONUS_GRANT", x>> \in journals
      BY <3>1 DEF GrantedInOrder
    <3> QED
      BY <3>1, <3>2 DEF Posted
  <2> QED
    BY <2>1, <2>2
<1>5. \A x \in Bonuses : AmountOf[x] \in Nat
  BY Amounts
<1> HIDE DEF G, R, E
<1>6. Total(R \cup E, AmountOf) = Total(R, AmountOf) + Total(E, AmountOf)
  BY <1>1, <1>2, <1>3, <1>5, TotalUnion
<1>7. Total((R \cup E) \cup {b}, AmountOf) = Total(R \cup E, AmountOf) + AmountOf[b]
  BY <1>1, <1>2, <1>3, <1>5, TotalAdd
<1>8. Total((R \cup E) \cup {b}, AmountOf) <= Total(G, AmountOf)
  BY <1>1, <1>2, <1>4, <1>5, TotalDifference
<1>9. Total(R, AmountOf) \in Nat /\ Total(E, AmountOf) \in Nat /\ Total(G, AmountOf) \in Nat
  BY <1>1, <1>2, <1>5, CentsFinite
<1>10. AmountOf[b] + Total(R, AmountOf) + Total(E, AmountOf) <= Total(G, AmountOf)
  BY <1>5, <1>6, <1>7, <1>8, <1>9
<1> QED
  BY <1>10 DEF Sum, G, R, E

(* The wallet follows the journals; the clamp never bites. *)
LEMMA WalletStep ==
  ASSUME TypeOK, GrantedInOrder, AwaitsWhatItEnded, EndsOnce, WalletMatchesLedger,
         [Next]_vars
  PROVE  WalletMatchesLedger'
<1> USE DEF mapVars, callVars, moneyVars
<1> DEFINE G(u) == Sum("BONUS_GRANT", u)
           R(u) == Sum("BONUS_ROLLOVER", u)
           E(u) == Sum("BONUS_EXPIRATION", u)
<1>1. ASSUME UNCHANGED moneyVars
      PROVE  WalletMatchesLedger'
  BY <1>1 DEF WalletMatchesLedger, Sum, Posted
<1>2. ASSUME NEW b \in Bonuses, Grant(b)
      PROVE  WalletMatchesLedger'
  <2>1. /\ <<"BONUS_GRANT", b>> \notin journals
        /\ journals' = journals \cup {<<"BONUS_GRANT", b>>}
        /\ bonusCents' = [bonusCents EXCEPT ![UserOf[b]] = @ + AmountOf[b]]
        /\ UNCHANGED available
    BY <1>2 DEF Grant, GrantedInOrder
  <2>2. SUFFICES ASSUME NEW u \in Users
                 PROVE  (bonusCents[u] = G(u) - R(u) - E(u) /\ available[u] = R(u))'
    BY DEF WalletMatchesLedger
  <2>3. /\ G(u) \in Nat /\ R(u) \in Nat /\ E(u) \in Nat
        /\ G(u)' = IF UserOf[b] = u THEN G(u) + AmountOf[b] ELSE G(u)
        /\ R(u)' = R(u) /\ E(u)' = E(u)
    BY <2>1, PostedOnce
  <2>4. bonusCents[u] = G(u) - R(u) - E(u) /\ available[u] = R(u)
    BY DEF WalletMatchesLedger
  <2>5. bonusCents'[u] = IF UserOf[b] = u THEN bonusCents[u] + AmountOf[b] ELSE bonusCents[u]
    BY <2>1 DEF TypeOK
  <2>6. AmountOf[b] \in Nat
    BY Amounts
  <2> HIDE DEF G, R, E
  <2>7. bonusCents'[u] = G(u)' - R(u)' - E(u)'
    BY <2>3, <2>4, <2>5, <2>6
  <2>8. available'[u] = R(u)'
    BY <2>1, <2>3, <2>4
  <2> QED
    BY <2>7, <2>8
<1>3. ASSUME NEW c \in Calls, Forfeit(c)
      PROVE  WalletMatchesLedger'
  <2> DEFINE b == on[c]
  <2>1. b # NoBonus /\ b \in Bonuses /\ status[b] = "EXPIRED"
    BY <1>3 DEF Forfeit, AwaitsWhatItEnded, Awaiting, TypeOK
  <2>2. /\ <<"BONUS_ROLLOVER", b>> \notin journals
        /\ <<"BONUS_EXPIRATION", b>> \notin journals
    BY <2>1 DEF EndsOnce, JournalKinds
  <2>3. <<"BONUS_GRANT", b>> \in journals
    BY <2>1 DEF GrantedInOrder
  <2>4. /\ journals' = journals \cup {<<"BONUS_EXPIRATION", b>>}
        /\ bonusCents' = [bonusCents EXCEPT ![UserOf[b]] = Less(@, AmountOf[b])]
        /\ UNCHANGED available
    BY <1>3 DEF Forfeit
  <2> HIDE DEF b
  <2>5. SUFFICES ASSUME NEW u \in Users
                 PROVE  (bonusCents[u] = G(u) - R(u) - E(u) /\ available[u] = R(u))'
    BY DEF WalletMatchesLedger
  <2>6. /\ G(u) \in Nat /\ R(u) \in Nat /\ E(u) \in Nat
        /\ E(u)' = IF UserOf[b] = u THEN E(u) + AmountOf[b] ELSE E(u)
        /\ R(u)' = R(u) /\ G(u)' = G(u)
    BY <2>1, <2>2, <2>4, PostedOnce
  <2>7. bonusCents[u] = G(u) - R(u) - E(u) /\ available[u] = R(u)
    BY DEF WalletMatchesLedger
  <2>8. UserOf[b] = u => AmountOf[b] + R(u) + E(u) <= G(u)
    BY <2>1, <2>2, <2>3, StillThere
  <2>9. AmountOf[b] \in Nat
    BY <2>1, Amounts
  <2>10. bonusCents'[u] = IF UserOf[b] = u THEN Less(bonusCents[u], AmountOf[b])
                          ELSE bonusCents[u]
    BY <2>4 DEF TypeOK
  <2> HIDE DEF G, R, E
  <2>11. bonusCents'[u] = G(u)' - R(u)' - E(u)'
    BY <2>6, <2>7, <2>8, <2>9, <2>10 DEF Less
  <2>12. available'[u] = R(u)'
    BY <2>4, <2>6, <2>7
  <2> QED
    BY <2>11, <2>12
<1>4. ASSUME NEW w \in Wagers, Convert(w)
      PROVE  WalletMatchesLedger'
  <2> DEFINE b == on[w]
  <2>1. w \in Calls
    BY DEF Calls
  <2>2. b # NoBonus /\ b \in Bonuses /\ status[b] = "ROLLED_OVER"
    BY <1>4, <2>1 DEF Convert, AwaitsWhatItEnded, Awaiting, TypeOK
  <2>3. /\ <<"BONUS_ROLLOVER", b>> \notin journals
        /\ <<"BONUS_EXPIRATION", b>> \notin journals
    BY <2>1, <2>2 DEF EndsOnce, JournalKinds
  <2>4. <<"BONUS_GRANT", b>> \in journals
    BY <2>2 DEF GrantedInOrder
  <2>5. /\ journals' = journals \cup {<<"BONUS_ROLLOVER", b>>}
        /\ bonusCents' = [bonusCents EXCEPT ![UserOf[b]] = Less(@, AmountOf[b])]
        /\ available' = [available EXCEPT ![UserOf[b]] = @ + AmountOf[b]]
    BY <1>4 DEF Convert
  <2> HIDE DEF b
  <2>6. SUFFICES ASSUME NEW u \in Users
                 PROVE  (bonusCents[u] = G(u) - R(u) - E(u) /\ available[u] = R(u))'
    BY DEF WalletMatchesLedger
  <2>7. /\ G(u) \in Nat /\ R(u) \in Nat /\ E(u) \in Nat
        /\ R(u)' = IF UserOf[b] = u THEN R(u) + AmountOf[b] ELSE R(u)
        /\ E(u)' = E(u) /\ G(u)' = G(u)
    BY <2>2, <2>3, <2>5, PostedOnce
  <2>8. bonusCents[u] = G(u) - R(u) - E(u) /\ available[u] = R(u)
    BY DEF WalletMatchesLedger
  <2>9. UserOf[b] = u => AmountOf[b] + R(u) + E(u) <= G(u)
    BY <2>2, <2>3, <2>4, StillThere
  <2>10. AmountOf[b] \in Nat
    BY <2>2, Amounts
  <2>11. bonusCents'[u] = IF UserOf[b] = u THEN Less(bonusCents[u], AmountOf[b])
                          ELSE bonusCents[u]
    BY <2>5 DEF TypeOK
  <2>12. available'[u] = IF UserOf[b] = u THEN available[u] + AmountOf[b] ELSE available[u]
    BY <2>5 DEF TypeOK
  <2> HIDE DEF G, R, E
  <2>13. bonusCents'[u] = G(u)' - R(u)' - E(u)'
    BY <2>7, <2>8, <2>9, <2>10, <2>11 DEF Less
  <2>14. available'[u] = R(u)'
    BY <2>7, <2>8, <2>12
  <2> QED
    BY <2>13, <2>14
<1>5. ASSUME NEW b \in Bonuses, Store(b) \/ Lapse(b)
      PROVE  WalletMatchesLedger'
  BY <1>1, <1>5 DEF Store, Lapse
<1>6. ASSUME NEW c \in Calls, Start(c) \/ Look(c) \/ Lose(c)
      PROVE  WalletMatchesLedger'
  BY <1>1, <1>6 DEF Start, Look, Lose
<1>7. ASSUME NEW w \in Wagers, SkipWager(w) \/ RecordWager(w)
      PROVE  WalletMatchesLedger'
  BY <1>1, <1>7 DEF SkipWager, RecordWager
<1>8. CASE UNCHANGED vars
  BY <1>1, <1>8 DEF vars
<1> QED
  BY <1>2, <1>3, <1>4, <1>5, <1>6, <1>7, <1>8 DEF Next

-----------------------------------------------------------------------------
(* The stakes recorded for a user, and those that were admissible for a    *)
(* bonus, are finitely many amounts.                                       *)
LEMMA RecordedFinite ==
  /\ \A u : Recorded(u) \subseteq Wagers /\ IsFiniteSet(Recorded(u))
  /\ \A b : Admissible(b) \subseteq Recorded(UserOf[b]) /\ IsFiniteSet(Admissible(b))
  /\ \A u : Held(u) \subseteq Bonuses /\ IsFiniteSet(Held(u))
<1>1. ASSUME NEW u
      PROVE  Recorded(u) \subseteq Wagers /\ IsFiniteSet(Recorded(u))
  <2>1. Recorded(u) \subseteq Wagers
    BY DEF Recorded
  <2> QED
    BY <2>1, Amounts, FS_Subset
<1>2. ASSUME NEW b
      PROVE  Admissible(b) \subseteq Recorded(UserOf[b]) /\ IsFiniteSet(Admissible(b))
  <2>1. Admissible(b) \subseteq Recorded(UserOf[b])
    BY DEF Admissible
  <2> QED
    BY <1>1, <2>1, FS_Subset
<1>3. ASSUME NEW u
      PROVE  Held(u) \subseteq Bonuses /\ IsFiniteSet(Held(u))
  <2>1. Held(u) \subseteq Bonuses
    BY DEF Held
  <2> QED
    BY <2>1, Amounts, FS_Subset
<1> QED
  BY <1>1, <1>2, <1>3

(* A step that records no stake and takes none back. *)
LEMMA NothingStaked ==
  ASSUME TypeOK, WageredIsStaked, UNCHANGED wagered,
         \A b \in Bonuses : status'[b] = "ROLLED_OVER" => status[b] = "ROLLED_OVER",
         \A w \in Wagers : pc[w] \in {"converting", "done", "unconverted"} =>
                             pc'[w] \in {"converting", "done", "unconverted"}
  PROVE  WageredIsStaked'
<1>1. /\ \A u : Recorded(u) \subseteq Recorded(u)'
      /\ \A u : Recorded(u)' \subseteq Wagers /\ IsFiniteSet(Recorded(u)')
      /\ \A b : Admissible(b) \subseteq Admissible(b)'
      /\ \A b : Admissible(b)' \subseteq Wagers /\ IsFiniteSet(Admissible(b)')
  <2>1. ASSUME NEW u
        PROVE  /\ Recorded(u) \subseteq Recorded(u)'
               /\ Recorded(u)' \subseteq Wagers /\ IsFiniteSet(Recorded(u)')
    <3>1. Recorded(u) \subseteq Recorded(u)' /\ Recorded(u)' \subseteq Wagers
      BY DEF Recorded
    <3> QED
      BY <3>1, Amounts, FS_Subset
  <2>2. ASSUME NEW b
        PROVE  /\ Admissible(b) \subseteq Admissible(b)'
               /\ Admissible(b)' \subseteq Wagers /\ IsFiniteSet(Admissible(b)')
    <3>1. Admissible(b) \subseteq Admissible(b)' /\ Admissible(b)' \subseteq Wagers
      BY DEF Admissible, Recorded
    <3> QED
      BY <3>1, Amounts, FS_Subset
  <2> QED
    BY <2>1, <2>2
<1>2. ASSUME NEW S, NEW T, S \subseteq T, T \subseteq Wagers, IsFiniteSet(T)
      PROVE  /\ Total(S, StakeOf) \in Nat /\ Total(T, StakeOf) \in Nat
             /\ Total(S, StakeOf) <= Total(T, StakeOf)
  <2>1. IsFiniteSet(S) /\ \A x \in T : StakeOf[x] \in Nat
    BY <1>2, Amounts, FS_Subset
  <2>2. Total(S, StakeOf) \in Nat /\ Total(T, StakeOf) \in Nat
    BY <1>2, <2>1, CentsFinite
  <2> QED
    BY <1>2, <2>1, <2>2, TotalDifference
<1>3. ASSUME NEW u \in Users
      PROVE  Total(Held(u), wagered)' <= Total(Recorded(u), StakeOf)'
  <2>1. Total(Recorded(u), StakeOf) \in Nat /\ Total(Recorded(u)', StakeOf) \in Nat
        /\ Total(Recorded(u), StakeOf) <= Total(Recorded(u)', StakeOf)
    BY <1>1, <1>2
  <2>2. Total(Held(u), wagered) \in Nat
    BY RecordedFinite, CentsFinite DEF TypeOK
  <2>3. Total(Held(u), wagered) <= Total(Recorded(u), StakeOf)
    BY DEF WageredIsStaked
  <2>4. Total(Held(u), wagered)' = Total(Held(u), wagered)
    BY DEF Held
  <2>5. Total(Recorded(u), StakeOf)' = Total(Recorded(u)', StakeOf)
    OBVIOUS
  <2> QED
    BY <2>1, <2>2, <2>3, <2>4, <2>5
<1>4. ASSUME NEW b \in Bonuses
      PROVE  wagered'[b] <= Total(Admissible(b), StakeOf)'
  <2>1. Total(Admissible(b), StakeOf) \in Nat /\ Total(Admissible(b)', StakeOf) \in Nat
        /\ Total(Admissible(b), StakeOf) <= Total(Admissible(b)', StakeOf)
    BY <1>1, <1>2
  <2>2. wagered[b] \in Nat /\ wagered[b] <= Total(Admissible(b), StakeOf)
    BY DEF WageredIsStaked, TypeOK
  <2>3. Total(Admissible(b), StakeOf)' = Total(Admissible(b)', StakeOf)
    OBVIOUS
  <2> QED
    BY <2>1, <2>2, <2>3
<1> QED
  BY <1>3, <1>4 DEF WageredIsStaked

(* A wager adds its stake to one bonus of its user, once. *)
LEMMA RecordedOnce ==
  ASSUME TypeOK, WageredIsStaked, NEW w \in Wagers, RecordWager(w)
  PROVE  WageredIsStaked'
<1> DEFINE b == First(w)
           v == UserOf[b]
           cents == wagered[b] + StakeOf[w]
<1>1. w \in Calls /\ b \in Bonuses /\ status[b] = "ACTIVE" /\ v \in ScopeOf[w]
  BY Chosen DEF RecordWager, NothingToRecord, ActiveFor, Calls
<1>2. v \in Users /\ ScopeOf[w] = {v}
  BY <1>1, BonusAssumption
<1>3. OddsOf[w] >= TermsOf[b].minOdds
  BY <1>1, Amounts DEF RecordWager, NothingToRecord
<1>4. /\ pc[w] = "recording"
      /\ wagered' = [wagered EXCEPT ![b] = cents]
      /\ \/ status' = [status EXCEPT ![b] = "ROLLED_OVER"] /\ cents >= Required[b]
         \/ UNCHANGED status
      /\ \/ pc' = [pc EXCEPT ![w] = "converting"]
         \/ pc' = [pc EXCEPT ![w] = "done"]
  BY DEF RecordWager, Rollover
<1>5. StakeOf[w] \in Nat /\ wagered[b] \in Nat /\ cents \in Nat
  BY <1>1, Amounts DEF TypeOK
<1> HIDE DEF b
<1>6. wagered'[b] = cents /\ \A x \in Bonuses : x # b => wagered'[x] = wagered[x]
  BY <1>1, <1>4 DEF TypeOK
<1>7. ASSUME NEW u
      PROVE  /\ Recorded(u)' = IF u = v THEN Recorded(u) \cup {w} ELSE Recorded(u)
             /\ w \notin Recorded(u)
  <2>1. pc'[w] \in {"converting", "done"} /\ \A x \in Calls : x # w => pc'[x] = pc[x]
    BY <1>1, <1>4 DEF TypeOK
  <2>2. \A x \in Wagers : x # w => pc'[x] = pc[x]
    BY <2>1 DEF Calls
  <2>3. w \notin Recorded(u)
    BY <1>4 DEF Recorded
  <2>4. w \in Recorded(u)' <=> u = v
    BY <1>2, <2>1 DEF Recorded
  <2>5. \A x \in Wagers : x # w => (x \in Recorded(u)' <=> x \in Recorded(u))
    BY <2>2 DEF Recorded
  <2>6. Recorded(u)' \subseteq Wagers /\ Recorded(u) \subseteq Wagers
    BY DEF Recorded
  <2> QED
    BY <2>3, <2>4, <2>5, <2>6
<1>8. \A x \in Wagers : StakeOf[x] \in Nat
  BY Amounts
<1>9. ASSUME NEW u \in Users
      PROVE  Total(Held(u), wagered)' <= Total(Recorded(u), StakeOf)'
  <2>1. /\ Held(u) \subseteq Bonuses /\ IsFiniteSet(Held(u))
        /\ Recorded(u) \subseteq Wagers /\ IsFiniteSet(Recorded(u))
    BY RecordedFinite
  <2>2. Total(Held(u), wagered)' = Total(Held(u), wagered')
        /\ Total(Recorded(u), StakeOf)' = Total(Recorded(u)', StakeOf)
    BY DEF Held
  <2>3. Total(Held(u), wagered) <= Total(Recorded(u), StakeOf)
    BY DEF WageredIsStaked
  <2>4. CASE u # v
    <3>1. \A x \in Held(u) : wagered'[x] = wagered[x]
      BY <1>6, <2>4 DEF Held
    <3>2. Total(Held(u), wagered') = Total(Held(u), wagered)
      BY <3>1, TotalSameAmounts
    <3> QED
      BY <1>7, <2>2, <2>3, <2>4, <3>2
  <2>5. CASE u = v
    <3>1. {b} \subseteq Held(u)
      BY <1>1, <2>5 DEF Held
    <3>2. \A x \in Held(u) : wagered[x] \in Nat /\ wagered'[x] \in Nat
      BY <1>5, <1>6, <2>1 DEF TypeOK
    <3>3. \A x \in Held(u) \ {b} : wagered'[x] = wagered[x]
      BY <1>6, <2>1
    <3>4. Total(Held(u), wagered')
            = Total(Held(u), wagered) - Total({b}, wagered) + Total({b}, wagered')
      BY <2>1, <3>1, <3>2, <3>3, TotalReplace
    <3>5. Total({b}, wagered) = wagered[b] /\ Total({b}, wagered') = cents
      BY <1>5, <1>6, TotalSingleton
    <3>6. Total(Recorded(u) \cup {w}, StakeOf) = Total(Recorded(u), StakeOf) + StakeOf[w]
      <4>1. w \notin Recorded(u) /\ \A x \in Recorded(u) \cup {w} : StakeOf[x] \in Nat
        BY <1>7, <1>8, <2>1
      <4> QED
        BY <2>1, <4>1, TotalAdd
    <3>7. Total(Recorded(u)', StakeOf) = Total(Recorded(u), StakeOf) + StakeOf[w]
      BY <1>7, <2>5, <3>6
    <3>8. Total(Held(u), wagered) \in Nat /\ Total(Recorded(u), StakeOf) \in Nat
      BY <1>8, <2>1, <3>2, CentsFinite
    <3> QED
      BY <1>5, <2>2, <2>3, <3>4, <3>5, <3>7, <3>8
  <2> QED
    BY <2>4, <2>5
<1>10. ASSUME NEW x \in Bonuses
       PROVE  wagered'[x] <= Total(Admissible(x), StakeOf)'
  <2>1. Admissible(x) \subseteq Wagers /\ IsFiniteSet(Admissible(x))
    BY RecordedFinite
  <2>2. Total(Admissible(x), StakeOf)' = Total(Admissible(x)', StakeOf)
    OBVIOUS
  <2>3. wagered[x] <= Total(Admissible(x), StakeOf) /\ wagered[x] \in Nat
        /\ Total(Admissible(x), StakeOf) \in Nat
    BY <1>8, <2>1, CentsFinite DEF WageredIsStaked, TypeOK
  <2>4. w \notin Admissible(x)
    BY <1>7 DEF Admissible
  <2>5. Total(Admissible(x) \cup {w}, StakeOf) = Total(Admissible(x), StakeOf) + StakeOf[w]
    <3>1. \A y \in Admissible(x) \cup {w} : StakeOf[y] \in Nat
      BY <1>8, <2>1
    <3> QED
      BY <2>1, <2>4, <3>1, TotalAdd
  <2>6. CASE x = b
    <3>1. Admissible(x)' = Admissible(x) \cup {w}
      BY <1>3, <1>7, <2>6 DEF Admissible
    <3> QED
      BY <1>5, <1>6, <2>2, <2>3, <2>5, <2>6, <3>1
  <2>7. CASE x # b
    <3>1. Admissible(x)' = Admissible(x) \/ Admissible(x)' = Admissible(x) \cup {w}
      BY <1>7 DEF Admissible
    <3>2. Total(Admissible(x), StakeOf) <= Total(Admissible(x)', StakeOf)
      <4>1. CASE Admissible(x)' = Admissible(x)
        BY <2>3, <4>1
      <4>2. CASE Admissible(x)' = Admissible(x) \cup {w}
        BY <1>5, <2>3, <2>5, <4>2
      <4> QED
        BY <3>1, <4>1, <4>2
    <3>3. Total(Admissible(x)', StakeOf) \in Nat
      <4>1. CASE Admissible(x)' = Admissible(x)
        BY <2>3, <4>1
      <4>2. CASE Admissible(x)' = Admissible(x) \cup {w}
        BY <1>5, <2>3, <2>5, <4>2
      <4> QED
        BY <3>1, <4>1, <4>2
    <3> QED
      BY <1>6, <2>2, <2>3, <2>7, <3>2, <3>3
  <2> QED
    BY <2>6, <2>7
<1>11. ASSUME NEW x \in Bonuses, status'[x] = "ROLLED_OVER"
       PROVE  Required[x] <= wagered'[x]
  <2>1. Required[x] \in Nat
    BY Amounts
  <2>2. CASE x = b
    <3>1. status' = [status EXCEPT ![b] = "ROLLED_OVER"] /\ cents >= Required[b]
      BY <1>1, <1>4, <1>11, <2>2
    <3> QED
      BY <1>5, <1>6, <2>1, <2>2, <3>1
  <2>3. CASE x # b
    <3>1. status[x] = "ROLLED_OVER"
      BY <1>4, <1>11, <2>3 DEF TypeOK
    <3> QED
      BY <1>6, <2>3, <3>1 DEF WageredIsStaked
  <2> QED
    BY <2>2, <2>3
<1> QED
  BY <1>9, <1>10, <1>11 DEF WageredIsStaked

(* What bonuses are converted by has been staked. *)
LEMMA StakesStep ==
  ASSUME TypeOK, GrantedInOrder, AwaitsWhatItEnded, WageredIsStaked, [Next]_vars
  PROVE  WageredIsStaked'
<1> USE DEF mapVars, callVars, moneyVars
<1>1. ASSUME UNCHANGED <<wagered, status, pc>>
      PROVE  WageredIsStaked'
  BY <1>1, NothingStaked
<1>2. ASSUME NEW c \in Calls, pc[c] \in {"idle", "looking", "recording"} \cup Awaiting,
             UNCHANGED wagered,
             \A b \in Bonuses : status'[b] = "ROLLED_OVER" => status[b] = "ROLLED_OVER",
             NEW where, pc' = [pc EXCEPT ![c] = where],
             pc[c] = "converting" => where \in {"done", "unconverted"}
      PROVE  WageredIsStaked'
  <2>1. ASSUME NEW w \in Wagers, pc[w] \in {"converting", "done", "unconverted"}
        PROVE  pc'[w] \in {"converting", "done", "unconverted"}
    <3>1. w \in Calls
      BY DEF Calls
    <3>2. CASE w = c
      BY <1>2, <2>1, <3>1, <3>2 DEF TypeOK, Awaiting
    <3>3. CASE w # c
      BY <1>2, <2>1, <3>1, <3>3 DEF TypeOK
    <3> QED
      BY <3>2, <3>3
  <2> QED
    BY <1>2, <2>1, NothingStaked
<1>3. ASSUME NEW b \in Bonuses, Grant(b) \/ Lapse(b)
      PROVE  WageredIsStaked'
  BY <1>1, <1>3 DEF Grant, Lapse
<1>4. ASSUME NEW b \in Bonuses, Store(b)
      PROVE  WageredIsStaked'
  <2>1. \A x \in Bonuses : status'[x] = "ROLLED_OVER" => status[x] = "ROLLED_OVER"
    BY <1>4 DEF Store, TypeOK
  <2> QED
    BY <1>4, <2>1, NothingStaked DEF Store
<1>5. ASSUME NEW c \in Calls, Start(c)
      PROVE  WageredIsStaked'
  BY <1>2, <1>5 DEF Start
<1>6. ASSUME NEW c \in Calls, Look(c)
      PROVE  WageredIsStaked'
  <2>1. \A x \in Bonuses : status'[x] = "ROLLED_OVER" => status[x] = "ROLLED_OVER"
    <3>1. CASE Due(c) = {}
      BY <1>6, <3>1 DEF Look
    <3>2. CASE Due(c) # {}
      BY <1>6, <3>2, Chosen DEF Look, TypeOK
    <3> QED
      BY <3>1, <3>2
  <2>2. pc[c] = "looking" /\ UNCHANGED wagered
    BY <1>6 DEF Look
  <2>3. \/ UNCHANGED pc
        \/ \E where : pc' = [pc EXCEPT ![c] = where]
    BY <1>6 DEF Look
  <2>4. CASE UNCHANGED pc
    BY <2>1, <2>2, <2>4, NothingStaked
  <2>5. CASE \E where : pc' = [pc EXCEPT ![c] = where]
    BY <1>2, <2>1, <2>2, <2>5
  <2> QED
    BY <2>3, <2>4, <2>5
<1>7. ASSUME NEW c \in Calls, Forfeit(c)
      PROVE  WageredIsStaked'
  BY <1>2, <1>7 DEF Forfeit, Awaiting
<1>8. ASSUME NEW w \in Wagers, SkipWager(w) \/ Convert(w)
      PROVE  WageredIsStaked'
  <2>1. w \in Calls
    BY DEF Calls
  <2> QED
    BY <1>2, <1>8, <2>1 DEF SkipWager, Convert, Awaiting
<1>9. ASSUME NEW w \in Wagers, RecordWager(w)
      PROVE  WageredIsStaked'
  BY <1>9, RecordedOnce
<1>10. ASSUME NEW c \in Calls, Lose(c)
       PROVE  WageredIsStaked'
  <2>1. UNCHANGED <<wagered, status>> /\ pc[c] \in Awaiting
    BY <1>10 DEF Lose
  <2>2. CASE pc[c] = "converting"
    <3>1. pc' = [pc EXCEPT ![c] = "unconverted"]
      BY <1>10, <2>2 DEF Lose
    <3> QED
      BY <1>2, <2>1, <3>1
  <2>3. CASE pc[c] # "converting"
    <3>1. pc' = [pc EXCEPT ![c] = "failed"]
      BY <1>10, <2>3 DEF Lose
    <3> QED
      BY <1>2, <2>1, <2>3, <3>1
  <2> QED
    BY <2>2, <2>3
<1>11. CASE UNCHANGED vars
  BY <1>1, <1>11 DEF vars
<1> QED
  BY <1>3, <1>4, <1>5, <1>6, <1>7, <1>8, <1>9, <1>10, <1>11 DEF Next

(* A wager converts no bonus that had lapsed when it was made. *)
LEMMA ConvertingStep ==
  ASSUME TypeOK, NoneLeftBehind, [Next]_vars,
         \A w \in Wagers : pc[w] = "converting" => on[w] \notin now[w]
  PROVE  \A w \in Wagers : pc'[w] = "converting" => on'[w] \notin now'[w]
<1> USE DEF mapVars, callVars, moneyVars
<1> SUFFICES ASSUME NEW w \in Wagers, pc'[w] = "converting"
             PROVE  on'[w] \notin now'[w]
  OBVIOUS
<1>1. w \in Calls
  BY DEF Calls
<1>2. ASSUME UNCHANGED <<pc, on, now>>
      PROVE  on'[w] \notin now'[w]
  BY <1>2
<1>3. ASSUME NEW b \in Bonuses, Grant(b) \/ Store(b) \/ Lapse(b)
      PROVE  on'[w] \notin now'[w]
  BY <1>2, <1>3 DEF Grant, Store, Lapse
<1>4. ASSUME NEW c \in Calls, Start(c) \/ Look(c) \/ Forfeit(c) \/ Lose(c)
      PROVE  on'[w] \notin now'[w]
  <2>1. pc'[c] # "converting"
    <3>1. CASE Start(c)
      BY <3>1 DEF Start, TypeOK
    <3>2. CASE Look(c)
      BY <3>2 DEF Look, TypeOK
    <3>3. CASE Forfeit(c)
      BY <3>3 DEF Forfeit, TypeOK
    <3>4. CASE Lose(c)
      BY <3>4 DEF Lose, TypeOK
    <3> QED
      BY <1>4, <3>1, <3>2, <3>3, <3>4
  <2>2. w # c
    BY <2>1
  <2>3. pc'[w] = pc[w] /\ on'[w] = on[w] /\ now'[w] = now[w]
    <3>1. CASE Start(c)
      BY <1>1, <2>2, <3>1 DEF Start, TypeOK
    <3>2. CASE Look(c)
      BY <1>1, <2>2, <3>2 DEF Look, TypeOK
    <3>3. CASE Forfeit(c)
      BY <1>1, <2>2, <3>3 DEF Forfeit, TypeOK
    <3>4. CASE Lose(c)
      BY <1>1, <2>2, <3>4 DEF Lose, TypeOK
    <3> QED
      BY <1>4, <3>1, <3>2, <3>3, <3>4
  <2> QED
    BY <2>3
<1>5. ASSUME NEW x \in Wagers, SkipWager(x) \/ Convert(x)
      PROVE  on'[w] \notin now'[w]
  <2>1. x \in Calls
    BY DEF Calls
  <2>2. pc' = [pc EXCEPT ![x] = "done"] /\ UNCHANGED now
        /\ (on' = on \/ on' = [on EXCEPT ![x] = NoBonus])
    BY <1>5 DEF SkipWager, Convert
  <2>3. w # x /\ pc'[w] = pc[w] /\ on'[w] = on[w]
    BY <1>1, <2>1, <2>2 DEF TypeOK
  <2> QED
    BY <2>2, <2>3
<1>6. ASSUME NEW x \in Wagers, RecordWager(x)
      PROVE  on'[w] \notin now'[w]
  <2>1. x \in Calls
    BY DEF Calls
  <2>2. CASE x = w
    <3> DEFINE b == First(w)
    <3>1. b \in Bonuses /\ ActiveFor(w, b) /\ pc[w] = "recording"
      BY <1>6, <2>2, Chosen DEF RecordWager, NothingToRecord
    <3>2. b \notin now[w]
      BY <1>1, <3>1 DEF NoneLeftBehind
    <3>3. \/ pc' = [pc EXCEPT ![w] = "converting"] /\ on' = [on EXCEPT ![w] = b]
          \/ pc' = [pc EXCEPT ![w] = "done"]
      BY <1>6, <2>2 DEF RecordWager
    <3>4. on'[w] = b /\ now' = now
      <4>1. UNCHANGED now
        BY <1>6 DEF RecordWager
      <4> HIDE DEF b
      <4> QED
        BY <1>1, <3>3, <4>1 DEF TypeOK
    <3> QED
      BY <3>2, <3>4
  <2>3. CASE x # w
    <3>1. \/ pc' = [pc EXCEPT ![x] = "converting"] /\ on' = [on EXCEPT ![x] = First(x)]
          \/ pc' = [pc EXCEPT ![x] = "done"] /\ on' = on
      BY <1>6 DEF RecordWager
    <3>2. pc'[w] = pc[w] /\ on'[w] = on[w]
      BY <1>1, <2>1, <2>3, <3>1 DEF TypeOK
    <3>3. UNCHANGED now
      BY <1>6 DEF RecordWager
    <3> QED
      BY <3>2, <3>3
  <2> QED
    BY <2>2, <2>3
<1>7. CASE UNCHANGED vars
  BY <1>7 DEF vars
<1> QED
  BY <1>3, <1>4, <1>5, <1>6, <1>7 DEF Next

-----------------------------------------------------------------------------
(* The invariant holds of the first state. *)
LEMMA Initially == Init => IInv
<1> SUFFICES ASSUME Init
             PROVE  IInv
  OBVIOUS
<1>1. Len(granted) = 0 /\ granted \in Seq(Bonuses)
  BY EmptySeq DEF Init
<1>2. TypeOK
  BY <1>1 DEF Init, TypeOK, Ended, Awaiting
<1>3. GrantedInOrder
  BY <1>1 DEF Init, GrantedInOrder
<1>4. AwaitsWhatItEnded /\ NoneLeftBehind
  BY <1>1 DEF Init, AwaitsWhatItEnded, NoneLeftBehind, Awaiting
<1>5. EndsOnce
  BY DEF Init, EndsOnce, Ended
<1>6. WalletMatchesLedger
  <2>1. \A kind : \A u : Posted(kind, u) = {}
    BY DEF Init, Posted
  <2>2. \A kind : \A u : Sum(kind, u) = 0
    BY <2>1, TotalEmpty DEF Sum
  <2> QED
    BY <2>2 DEF Init, WalletMatchesLedger
<1>7. WageredIsStaked
  <2>1. \A u : Total(Held(u), wagered) = 0
    <3>1. \A u : \A x \in Held(u) : wagered[x] = 0
      BY DEF Init, Held
    <3> QED
      BY <3>1, TotalZero
  <2>2. \A u : Total(Recorded(u), StakeOf) \in Nat
    <3>1. \A u : \A x \in Recorded(u) : StakeOf[x] \in Nat
      BY Amounts, RecordedFinite
    <3> QED
      BY <3>1, RecordedFinite, CentsFinite
  <2>3. \A b : Total(Admissible(b), StakeOf) \in Nat
    <3>1. \A b : \A x \in Admissible(b) : StakeOf[x] \in Nat
      BY Amounts, RecordedFinite
    <3> QED
      BY <3>1, RecordedFinite, CentsFinite
  <2>4. \A b \in Bonuses : wagered[b] = 0 /\ status[b] = "NONE"
    BY DEF Init
  <2> QED
    BY <2>1, <2>2, <2>3, <2>4 DEF WageredIsStaked
<1>8. \A w \in Wagers : pc[w] # "converting"
  BY DEF Init, Calls
<1> QED
  BY <1>2, <1>3, <1>4, <1>5, <1>6, <1>7, <1>8 DEF IInv

(* The inductive invariant of the bonuses. *)
THEOREM Invariance == Spec => []IInv
<1>1. IInv /\ [Next]_vars => IInv'
  BY TypeStep, GrantedStep, AwaitsStep, BehindStep, OnceStep, WalletStep, StakesStep,
     ConvertingStep DEF IInv
<1> QED
  BY <1>1, Initially, PTL DEF Spec

(* The bonuses, calls and wallets are of their types: no wallet has less   *)
(* than nothing.                                                           *)
THEOREM TypeCorrect == Spec => []TypeOK
<1>1. IInv => TypeOK
  BY DEF IInv
<1> QED
  BY <1>1, Invariance, PTL

(* The bonus cents are the grants less what was converted and forfeited:   *)
(* the clamp at zero never bites.                                          *)
THEOREM WalletFollows == Spec => []WalletMatchesLedger
<1>1. IInv => WalletMatchesLedger
  BY DEF IInv
<1> QED
  BY <1>1, Invariance, PTL

(* However checks and wagers meet over a bonus, it is converted or         *)
(* forfeited once.                                                         *)
THEOREM BonusEndsOnce == Spec => []EndsOnce
<1>1. IInv => EndsOnce
  BY DEF IInv
<1> QED
  BY <1>1, Invariance, PTL

(* No bonus becomes cash without the turnover its terms require, of stakes *)
(* that count for no other bonus.                                          *)
THEOREM CashWasWagered == Spec => []CashIsWagered
<1>1. IInv => CashIsWagered
  <2> SUFFICES ASSUME IInv
               PROVE  CashIsWagered
    OBVIOUS
  <2>1. TypeOK /\ WageredIsStaked
    BY DEF IInv
  <2>2. ASSUME NEW u \in Users
        PROVE  Total(RolledOver(u), Required) <= Total(Recorded(u), StakeOf)
    <3>1. RolledOver(u) \subseteq Held(u) /\ Held(u) \subseteq Bonuses /\ IsFiniteSet(Held(u))
      BY RecordedFinite DEF RolledOver, Held
    <3>2. IsFiniteSet(RolledOver(u))
      BY <3>1, FS_Subset
    <3>3. /\ \A b \in RolledOver(u) : Required[b] \in Nat /\ Required[b] <= wagered[b]
          /\ \A b \in Held(u) : wagered[b] \in Nat
      BY <2>1, <3>1, Amounts DEF TypeOK, WageredIsStaked, RolledOver
    <3>4. Total(RolledOver(u), Required) <= Total(Held(u), wagered)
      BY <3>1, <3>3, TotalSmaller
    <3>5. /\ Total(RolledOver(u), Required) \in Nat
          /\ Total(Held(u), wagered) \in Nat
      BY <3>1, <3>2, <3>3, CentsFinite
    <3>6. Total(Recorded(u), StakeOf) \in Nat
      <4>1. \A w \in Recorded(u) : StakeOf[w] \in Nat
        BY Amounts, RecordedFinite
      <4> QED
        BY <4>1, RecordedFinite, CentsFinite
    <3> QED
      BY <2>1, <3>4, <3>5, <3>6 DEF WageredIsStaked
  <2>3. ASSUME NEW u \in Users, NEW b \in RolledOver(u)
        PROVE  Required[b]
                 <= Total({w \in Recorded(u) : OddsOf[w] >= TermsOf[b].minOdds}, StakeOf)
    <3>1. b \in Bonuses /\ UserOf[b] = u /\ status[b] = "ROLLED_OVER"
      BY DEF RolledOver
    <3>2. Required[b] \in Nat /\ Required[b] <= wagered[b] /\ wagered[b] \in Nat
      BY <2>1, <3>1, Amounts DEF TypeOK, WageredIsStaked
    <3>3. wagered[b] <= Total(Admissible(b), StakeOf)
      BY <2>1, <3>1 DEF WageredIsStaked
    <3>4. Total(Admissible(b), StakeOf) \in Nat
      <4>1. \A w \in Admissible(b) : StakeOf[w] \in Nat
        BY Amounts, RecordedFinite
      <4> QED
        BY <4>1, RecordedFinite, CentsFinite
    <3>5. Admissible(b) = {w \in Recorded(u) : OddsOf[w] >= TermsOf[b].minOdds}
      BY <3>1 DEF Admissible
    <3>6. Required[b] <= Total(Admissible(b), StakeOf)
      BY <3>2, <3>3, <3>4
    <3> QED
      BY <3>5, <3>6
  <2> QED
    BY <2>2, <2>3 DEF CashIsWagered, IInv
<1> QED
  BY <1>1, Invariance, PTL
=============================================================================
