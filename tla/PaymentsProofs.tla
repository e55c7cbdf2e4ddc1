--------------------------- MODULE PaymentsProofs ---------------------------
(***************************************************************************)
(* The safety of deposits and withdrawals for every set of users, calls,   *)
(* keys and pushes, and every amount and threshold.                        *)
(***************************************************************************)
EXTENDS Payments, CentsTheorems, FiniteSetTheorems, TLAPS

(* A payment exists from the moment its call returns, and names the push   *)
(* of the provider's answer.                                               *)
PaymentsOfCalls ==
    \A d \in Deposits :
        /\ call[d] = "idle" => answer[d] = NoPush
        /\ call[d] # "returned" => status[d] = "NONE"
        /\ status[d] = "NONE" => providerTx[d] = NoPush
        /\ status[d] # "NONE" => providerTx[d] = answer[d] /\ answer[d] # NoPush

(* An answer names a push that was made for the deposit it answers. *)
AnswersNamePushes ==
    \A d \in Deposits : answer[d] # NoPush =>
        push[answer[d]] # "unused" /\ pushedFor[answer[d]] = d

(* The sweep asks about payments, and what it has learned is what became   *)
(* of their pushes.                                                        *)
SweepIsInformed ==
    /\ \A d \in swept : status[d] # "NONE"
    /\ \A d \in Deposits, a \in Final : <<d, a>> \in learned =>
         /\ status[d] # "NONE"
         /\ push[providerTx[d]] = (IF a = "SUCCESS" THEN "paid" ELSE "declined")

Linked == PaymentsOfCalls /\ AnswersNamePushes /\ SweepIsInformed

(* Withdrawals do not fail once they are made. *)
WithdrawalsStand == \A w \in Withdrawals : status[w] # "FAILED"

(* StatusIsProvidersWord needs to know which push a payment names and what *)
(* the sweep has learned; with it a SUCCESS is never written over, which   *)
(* the balance needs.                                                      *)
IInv ==
    /\ TypeOK
    /\ Linked
    /\ StatusIsProvidersWord
    /\ WithdrawalsStand
    /\ BalanceIsCreditsLessWithdrawals

-----------------------------------------------------------------------------
(* The amounts and users of calls, and the calls themselves, are of their  *)
(* types; a withdrawal is no deposit.                                      *)
LEMMA CallTypes ==
  /\ Deposits \subseteq Calls /\ Withdrawals \subseteq Calls
  /\ Deposits \cap Withdrawals = {}
  /\ \A c \in Calls : UserOf[c] \in Users /\ AmountOf[c] \in Nat /\ KeyOf[c] \in Keys
BY CallAssumption DEF Calls

(* Adding an amount to a user's wallet and account keeps them amounts. *)
LEMMA CreditTypes ==
  ASSUME TypeOK, NEW d \in Deposits, Credit(d)
  PROVE  /\ available' \in [Users -> Nat]
         /\ availableAcc' \in [Users -> Int]
         /\ clearingAcc' \in Int
<1>1. AmountOf[d] \in Nat /\ UserOf[d] \in Users
  BY CallTypes
<1>2. /\ available \in [Users -> Nat]
      /\ availableAcc \in [Users -> Int]
      /\ clearingAcc \in Int
  BY DEF TypeOK
<1>3. /\ available[UserOf[d]] + AmountOf[d] \in Nat
      /\ availableAcc[UserOf[d]] + AmountOf[d] \in Int
      /\ clearingAcc + AmountOf[d] \in Int
  BY <1>1, <1>2
<1>4. available' \in [Users -> Nat]
  BY <1>2, <1>3 DEF Credit
<1>5. availableAcc' \in [Users -> Int]
  BY <1>2, <1>3 DEF Credit
<1> QED
  BY <1>3, <1>4, <1>5 DEF Credit

(* What handleWebhook does to a known payment that is not settled. *)
LEMMA AppliedTypes ==
  ASSUME TypeOK, NEW p \in Pushes, NEW outcome \in Final, Apply(p, outcome)
  PROVE  /\ call' = call /\ answer' = answer /\ providerTx' = providerTx
         /\ status' \in [Calls -> {"NONE", "PENDING"} \cup Final]
         /\ stale' \subseteq Deposits
         /\ available' \in [Users -> Nat]
         /\ availableAcc' \in [Users -> Int]
         /\ clearingAcc' \in Int
<1>1. CASE Rollback
  BY <1>1 DEF Rollback, TypeOK, moneyVars, InFlight
<1>2. ASSUME NEW d \in Deposits, ~Settled(d),
             status' = [status EXCEPT ![d] = outcome],
             IF outcome = "SUCCESS" THEN Credit(d) ELSE UNCHANGED moneyVars,
             UNCHANGED <<callVars, providerTx>>
      PROVE  /\ call' = call /\ answer' = answer /\ providerTx' = providerTx
             /\ status' \in [Calls -> {"NONE", "PENDING"} \cup Final]
             /\ stale' \subseteq Deposits
             /\ available' \in [Users -> Nat]
             /\ availableAcc' \in [Users -> Int]
             /\ clearingAcc' \in Int
  <2>1. AmountOf[d] \in Nat /\ UserOf[d] \in Users
    BY CallTypes
  <2>2. CASE outcome = "SUCCESS"
    BY <1>2, <2>1, <2>2, CreditTypes DEF callVars, TypeOK
  <2>3. CASE outcome # "SUCCESS"
    BY <1>2, <2>3 DEF TypeOK, moneyVars, callVars
  <2> QED
    BY <2>2, <2>3
<1> QED
  BY <1>1, <1>2 DEF Apply

(* Every step keeps the types, whatever the callbacks and sweeps do. *)
LEMMA TypeStep ==
  ASSUME TypeOK, Linked, [Next]_vars
  PROVE  TypeOK'
<1> USE DEF callVars, pushVars, sweepVars, moneyVars
<1>1. ASSUME NEW d \in Deposits, StartDeposit(d)
      PROVE  TypeOK'
  BY <1>1 DEF StartDeposit, TypeOK
<1>2. ASSUME NEW d \in Deposits, FailDeposit(d)
      PROVE  TypeOK'
  BY <1>2 DEF FailDeposit, TypeOK
<1>3. ASSUME NEW d \in Deposits, CreateDeposit(d)
      PROVE  TypeOK'
  BY <1>3 DEF CreateDeposit, TypeOK
<1>4. ASSUME NEW d \in Deposits, NEW p \in Pushes, PromptCustomer(d, p)
      PROVE  TypeOK'
  BY <1>4 DEF PromptCustomer, TypeOK
<1>5. ASSUME NEW p \in Pushes, AnswerPrompt(p)
      PROVE  TypeOK'
  BY <1>5 DEF AnswerPrompt, TypeOK
<1>6. ASSUME NEW p \in Pushes, Callback(p)
      PROVE  TypeOK'
  <2>1. OutcomeOf(p) \in Final
    BY DEF OutcomeOf, Final
  <2>2. Apply(p, OutcomeOf(p)) /\ UNCHANGED <<pushVars, sweepVars, flagged>>
    BY <1>6 DEF Callback
  <2> QED
    BY <2>1, <2>2, AppliedTypes DEF TypeOK
<1>7. ASSUME NEW S \in SUBSET Deposits, StartSweep(S)
      PROVE  TypeOK'
  BY <1>7 DEF StartSweep, TypeOK
<1>8. ASSUME NEW d \in Deposits, AskProvider(d)
      PROVE  TypeOK'
  <2>1. PICK a \in AnswersOn(providerTx[d]) :
           learned' = IF a = "PENDING" THEN {} ELSE {<<d, a>>}
    BY <1>8 DEF AskProvider
  <2>2. a \in Final \cup {"PENDING"}
    BY <2>1 DEF AnswersOn, OutcomeOf, Final
  <2>3. learned' \subseteq Deposits \X Final
    BY <2>1, <2>2
  <2> QED
    BY <1>8, <2>3 DEF AskProvider, TypeOK
<1>9. ASSUME NEW d \in Deposits, NEW a \in Final, ActOnAnswer(d, a)
      PROVE  TypeOK'
  <2>1. /\ learned' = {}
        /\ UNCHANGED <<pushVars, swept, flagged>>
    BY <1>9 DEF ActOnAnswer
  <2>2. CASE UNCHANGED <<callVars, status, providerTx, moneyVars>>
    BY <2>1, <2>2 DEF TypeOK
  <2>3. CASE Apply(providerTx[d], a)
    <3>1. providerTx[d] \in Pushes
      BY <1>9 DEF ActOnAnswer, Linked, SweepIsInformed, PaymentsOfCalls, TypeOK
    <3> QED
      BY <2>1, <2>3, <3>1, AppliedTypes DEF TypeOK
  <2>4. CASE /\ status' = [status EXCEPT ![d] = "FAILED"]
             /\ UNCHANGED <<callVars, providerTx, moneyVars>>
    BY <2>1, <2>4 DEF TypeOK, Final
  <2> QED
    BY <1>9, <2>2, <2>3, <2>4 DEF ActOnAnswer
<1>10. ASSUME NEW w \in Withdrawals, Withdraw(w)
       PROVE  TypeOK'
  <2>1. AmountOf[w] \in Nat /\ UserOf[w] \in Users /\ w \in Calls
    BY CallTypes
  <2>2. /\ available \in [Users -> Nat]
        /\ availableAcc \in [Users -> Int]
        /\ clearingAcc \in Int
    BY DEF TypeOK
  <2>3. /\ available[UserOf[w]] - AmountOf[w] \in Nat
        /\ availableAcc[UserOf[w]] - AmountOf[w] \in Int
        /\ clearingAcc - AmountOf[w] \in Int
    BY <1>10, <2>1, <2>2 DEF Withdraw, Funded
  <2>4. available' \in [Users -> Nat]
    BY <1>10, <2>2, <2>3 DEF Withdraw
  <2>5. availableAcc' \in [Users -> Int] /\ clearingAcc' \in Int
    BY <1>10, <2>2, <2>3 DEF Withdraw
  <2>6. status' \in [Calls -> {"NONE", "PENDING"} \cup Final]
    BY <1>10, <2>1 DEF Withdraw, TypeOK, Final
  <2> QED
    BY <1>10, <2>4, <2>5, <2>6 DEF Withdraw, TypeOK
<1>11. ASSUME NEW w \in Withdrawals, RefuseWithdrawal(w)
       PROVE  TypeOK'
  BY <1>11 DEF RefuseWithdrawal, Rollback, InFlight, TypeOK
<1>12. CASE RollbackElsewhere
  BY <1>12 DEF RollbackElsewhere, Rollback, InFlight, TypeOK
<1>13. CASE UNCHANGED vars
  BY <1>13 DEF vars, TypeOK
<1> QED
  BY <1>1, <1>2, <1>3, <1>4, <1>5, <1>6, <1>7, <1>8, <1>9, <1>10, <1>11, <1>12,
     <1>13 DEF Next

(* handleWebhook changes the status of the payments it knows, which are    *)
(* none in a final status, to the outcome; the wallet only of a SUCCESS.   *)
LEMMA AppliedStatus ==
  ASSUME TypeOK, Linked, NEW p \in Pushes, NEW outcome \in Final, Apply(p, outcome)
  PROVE  \A c \in Calls : \/ status'[c] = status[c]
                           \/ /\ c \in Deposits /\ providerTx[c] = p
                              /\ status[c] = "PENDING" /\ status'[c] = outcome
<1>1. CASE Rollback
  BY <1>1 DEF Rollback
<1>2. ASSUME NEW d \in Deposits, providerTx[d] = p, ~Settled(d),
             status' = [status EXCEPT ![d] = outcome]
      PROVE  \A c \in Calls : \/ status'[c] = status[c]
                               \/ /\ c \in Deposits /\ providerTx[c] = p
                                  /\ status[c] = "PENDING" /\ status'[c] = outcome
  <2>1. d \in Calls /\ status[d] # "NONE"
    BY <1>2, CallTypes, PushAssumption DEF Linked, PaymentsOfCalls
  <2>2. status[d] = "PENDING"
    BY <1>2, <2>1 DEF Settled, TypeOK
  <2> QED
    BY <1>2, <2>1, <2>2 DEF TypeOK
<1> QED
  BY <1>1, <1>2 DEF Apply

(* A payment comes into being when its call returns and keeps its push;    *)
(* what the sweep has learned stays true while it waits.                   *)
LEMMA LinkedStep ==
  ASSUME TypeOK, Linked, [Next]_vars
  PROVE  Linked'
<1> USE DEF callVars, pushVars, sweepVars, moneyVars
<1> DEFINE Kept == \A d \in Deposits : (status'[d] = "NONE") <=> (status[d] = "NONE")
<1>1. ASSUME UNCHANGED <<call, answer, providerTx, push, pushedFor>>, Kept,
             swept' = swept, learned' \subseteq learned
      PROVE  Linked'
  BY <1>1 DEF Linked, PaymentsOfCalls, AnswersNamePushes, SweepIsInformed, TypeOK
<1>2. ASSUME NEW d \in Deposits, StartDeposit(d)
      PROVE  Linked'
  BY <1>2 DEF StartDeposit, TypeOK, Linked, PaymentsOfCalls, AnswersNamePushes,
              SweepIsInformed
<1>3. ASSUME NEW d \in Deposits, FailDeposit(d)
      PROVE  Linked'
  BY <1>3 DEF FailDeposit, TypeOK, Linked, PaymentsOfCalls, AnswersNamePushes,
              SweepIsInformed
<1>4. ASSUME NEW d \in Deposits, CreateDeposit(d)
      PROVE  Linked'
  <2>1. d \in Calls /\ status[d] = "NONE" /\ Deposits \subseteq Calls
    BY <1>4, CallTypes DEF CreateDeposit, Linked, PaymentsOfCalls
  <2>2. PaymentsOfCalls'
    BY <1>4, <2>1 DEF CreateDeposit, TypeOK, Linked, PaymentsOfCalls
  <2>3. AnswersNamePushes'
    BY <1>4 DEF CreateDeposit, Linked, AnswersNamePushes
  <2>4. SweepIsInformed'
    BY <1>4, <2>1 DEF CreateDeposit, TypeOK, Linked, SweepIsInformed
  <2> QED
    BY <2>2, <2>3, <2>4 DEF Linked
<1>5. ASSUME NEW d \in Deposits, NEW p \in Pushes, PromptCustomer(d, p)
      PROVE  Linked'
  <2>1. status[d] = "NONE" /\ push[p] = "unused" /\ answer[d] = NoPush
    BY <1>5 DEF PromptCustomer, Linked, PaymentsOfCalls
  <2>2. PaymentsOfCalls'
    BY <1>5, <2>1 DEF PromptCustomer, TypeOK, Linked, PaymentsOfCalls
  <2>3. AnswersNamePushes'
    BY <1>5, <2>1 DEF PromptCustomer, TypeOK, Linked, AnswersNamePushes
  <2>4. SweepIsInformed'
    BY <1>5, <2>1 DEF PromptCustomer, TypeOK, Linked, SweepIsInformed
  <2> QED
    BY <2>2, <2>3, <2>4 DEF Linked
<1>6. ASSUME NEW p \in Pushes, AnswerPrompt(p)
      PROVE  Linked'
  <2>1. push[p] = "open" /\ push'[p] \in {"paid", "declined"}
    BY <1>6 DEF AnswerPrompt, TypeOK
  <2>2. \A q \in Pushes : q # p => push'[q] = push[q]
    BY <1>6 DEF AnswerPrompt, TypeOK
  <2>3. PaymentsOfCalls'
    BY <1>6 DEF AnswerPrompt, Linked, PaymentsOfCalls
  <2>4. AnswersNamePushes'
    BY <1>6, <2>1, <2>2 DEF AnswerPrompt, TypeOK, Linked, AnswersNamePushes
  <2>5. SweepIsInformed'
    <3>1. ASSUME NEW d \in Deposits, NEW a \in Final, <<d, a>> \in learned
          PROVE  push'[providerTx[d]] = push[providerTx[d]]
      BY <2>1, <2>2, <3>1 DEF TypeOK, Linked, SweepIsInformed, PaymentsOfCalls
    <3> QED
      BY <1>6, <3>1 DEF AnswerPrompt, Linked, SweepIsInformed
  <2> QED
    BY <2>3, <2>4, <2>5 DEF Linked
<1>7. ASSUME NEW p \in Pushes, Callback(p)
      PROVE  Linked'
  <2>1. OutcomeOf(p) \in Final
    BY DEF OutcomeOf, Final
  <2>2. Apply(p, OutcomeOf(p)) /\ UNCHANGED <<pushVars, sweepVars, flagged>>
    BY <1>7 DEF Callback
  <2>3. Kept
    BY <2>1, <2>2, AppliedStatus, CallTypes DEF Final
  <2> QED
    BY <1>1, <2>1, <2>2, <2>3, AppliedTypes
<1>8. ASSUME NEW S \in SUBSET Deposits, StartSweep(S)
      PROVE  Linked'
  BY <1>8 DEF StartSweep, Linked, PaymentsOfCalls, AnswersNamePushes, SweepIsInformed
<1>9. ASSUME NEW d \in Deposits, AskProvider(d)
      PROVE  Linked'
  <2>1. PICK a \in AnswersOn(providerTx[d]) :
           learned' = IF a = "PENDING" THEN {} ELSE {<<d, a>>}
    BY <1>9 DEF AskProvider
  <2>2. status[d] # "NONE"
    BY <1>9 DEF AskProvider, Linked, SweepIsInformed
  <2>3. a \in Final => push[providerTx[d]] = (IF a = "SUCCESS" THEN "paid" ELSE "declined")
    BY <2>1 DEF AnswersOn, OutcomeOf, Answered, Final
  <2>4. SweepIsInformed'
    <3>1. \A e \in swept' : status'[e] # "NONE"
      BY <1>9 DEF AskProvider, Linked, SweepIsInformed
    <3>2. ASSUME NEW e \in Deposits, NEW b \in Final, <<e, b>> \in learned'
          PROVE  e = d /\ b = a
      BY <2>1, <3>2
    <3>3. ASSUME NEW e \in Deposits, NEW b \in Final, <<e, b>> \in learned'
          PROVE  /\ status'[e] # "NONE"
                 /\ push'[providerTx'[e]] = (IF b = "SUCCESS" THEN "paid" ELSE "declined")
      BY <1>9, <2>2, <2>3, <3>2, <3>3 DEF AskProvider
    <3> QED
      BY <3>1, <3>3 DEF SweepIsInformed
  <2> QED
    BY <1>9, <2>4 DEF AskProvider, Linked, PaymentsOfCalls, AnswersNamePushes
<1>10. ASSUME NEW d \in Deposits, NEW a \in Final, ActOnAnswer(d, a)
       PROVE  Linked'
  <2>1. learned' = {} /\ UNCHANGED <<pushVars, swept, flagged>>
    BY <1>10 DEF ActOnAnswer
  <2>2. status[d] # "NONE" /\ providerTx[d] \in Pushes
    BY <1>10 DEF ActOnAnswer, Linked, SweepIsInformed, PaymentsOfCalls, TypeOK
  <2>3. CASE UNCHANGED <<callVars, status, providerTx, moneyVars>>
    BY <1>1, <2>1, <2>3
  <2>4. CASE Apply(providerTx[d], a)
    <3>1. Kept
      BY <2>2, <2>4, AppliedStatus, CallTypes DEF Final
    <3> QED
      BY <1>1, <2>1, <2>2, <2>4, <3>1, AppliedTypes
  <2>5. CASE /\ status' = [status EXCEPT ![d] = "FAILED"]
             /\ UNCHANGED <<callVars, providerTx, moneyVars>>
    <3>1. Kept
      BY <2>2, <2>5, CallTypes DEF TypeOK
    <3> QED
      BY <1>1, <2>1, <2>5, <3>1
  <2> QED
    BY <1>10, <2>3, <2>4, <2>5 DEF ActOnAnswer
<1>11. ASSUME NEW w \in Withdrawals, Withdraw(w)
       PROVE  Linked'
  <2>1. Kept
    BY <1>11, CallTypes DEF Withdraw, TypeOK
  <2> QED
    BY <1>1, <1>11, <2>1 DEF Withdraw
<1>12. ASSUME NEW w \in Withdrawals, RefuseWithdrawal(w)
       PROVE  Linked'
  BY <1>1, <1>12 DEF RefuseWithdrawal, Rollback
<1>13. CASE RollbackElsewhere
  BY <1>1, <1>13 DEF RollbackElsewhere, Rollback
<1>14. CASE UNCHANGED vars
  BY <1>1, <1>14 DEF vars
<1> QED
  BY <1>2, <1>3, <1>4, <1>5, <1>6, <1>7, <1>8, <1>9, <1>10, <1>11, <1>12, <1>13,
     <1>14 DEF Next

-----------------------------------------------------------------------------
(* Two payments name different pushes, and a push is made for the payment  *)
(* that names it; so the word of the provider is about the final statuses. *)
EndedAsPushes ==
    \A d \in Deposits : status[d] \in Final =>
        push[providerTx[d]] = (IF status[d] = "SUCCESS" THEN "paid" ELSE "declined")

(* The property in terms of the pushes a payment is linked to. *)
LEMMA WordOfEnded ==
  ASSUME Linked
  PROVE  StatusIsProvidersWord <=> EndedAsPushes
BY DEF Linked, PaymentsOfCalls, AnswersNamePushes, StatusIsProvidersWord, EndedAsPushes,
       Final

(* No step makes a final status and the push it is about disagree. *)
LEMMA WordStep ==
  ASSUME TypeOK, Linked, StatusIsProvidersWord, [Next]_vars
  PROVE  StatusIsProvidersWord'
<1> USE DEF callVars, pushVars, sweepVars, moneyVars
<1> SUFFICES EndedAsPushes'
  BY LinkedStep DEF Linked, PaymentsOfCalls, AnswersNamePushes, StatusIsProvidersWord,
                    EndedAsPushes, Final
<1>1. EndedAsPushes
  BY WordOfEnded
<1>2. Deposits \subseteq Calls
  BY CallTypes
<1>3. ASSUME UNCHANGED <<providerTx, push>>,
             \A d \in Deposits : status'[d] \in Final =>
               \/ status'[d] = status[d]
               \/ push[providerTx[d]] = (IF status'[d] = "SUCCESS" THEN "paid" ELSE "declined")
      PROVE  EndedAsPushes'
  BY <1>1, <1>3 DEF EndedAsPushes
<1>4. ASSUME UNCHANGED <<providerTx, push, status>>
      PROVE  EndedAsPushes'
  BY <1>3, <1>4
<1>5. ASSUME NEW d \in Deposits, StartDeposit(d) \/ FailDeposit(d) \/ AskProvider(d)
      PROVE  EndedAsPushes'
  BY <1>4, <1>5 DEF StartDeposit, FailDeposit, AskProvider
<1>6. ASSUME NEW d \in Deposits, CreateDeposit(d)
      PROVE  EndedAsPushes'
  <2>1. status[d] = "NONE"
    BY <1>6 DEF CreateDeposit, Linked, PaymentsOfCalls
  <2> QED
    BY <1>1, <1>2, <1>6, <2>1 DEF CreateDeposit, TypeOK, EndedAsPushes, Final
<1>7. ASSUME NEW d \in Deposits, NEW p \in Pushes, PromptCustomer(d, p)
      PROVE  EndedAsPushes'
  BY <1>1, <1>7 DEF PromptCustomer, TypeOK, EndedAsPushes
<1>8. ASSUME NEW p \in Pushes, AnswerPrompt(p)
      PROVE  EndedAsPushes'
  <2>1. \A q \in Pushes : q # p => push'[q] = push[q]
    BY <1>8 DEF AnswerPrompt, TypeOK
  <2>2. ASSUME NEW d \in Deposits, status[d] \in Final
        PROVE  providerTx[d] \in Pushes /\ providerTx[d] # p
    BY <1>1, <1>8, <2>2 DEF AnswerPrompt, TypeOK, EndedAsPushes, Linked,
                            PaymentsOfCalls, Final
  <2> QED
    BY <1>1, <1>8, <2>1, <2>2 DEF AnswerPrompt, EndedAsPushes
<1>9. ASSUME NEW p \in Pushes, Callback(p)
      PROVE  EndedAsPushes'
  <2>1. OutcomeOf(p) \in Final
    BY DEF OutcomeOf, Final
  <2>2. push[p] = (IF OutcomeOf(p) = "SUCCESS" THEN "paid" ELSE "declined")
    BY <1>9 DEF Callback, Answered, OutcomeOf
  <2>3. Apply(p, OutcomeOf(p)) /\ UNCHANGED <<pushVars, sweepVars, flagged>>
    BY <1>9 DEF Callback
  <2>4. providerTx' = providerTx
    BY <2>1, <2>3, AppliedTypes
  <2>5. ASSUME NEW d \in Deposits, status'[d] # status[d]
        PROVE  providerTx[d] = p /\ status'[d] = OutcomeOf(p)
    BY <1>2, <2>1, <2>3, <2>5, AppliedStatus
  <2> QED
    BY <1>3, <2>2, <2>3, <2>4, <2>5
<1>10. ASSUME NEW S \in SUBSET Deposits, StartSweep(S)
       PROVE  EndedAsPushes'
  BY <1>4, <1>10 DEF StartSweep
<1>11. ASSUME NEW d \in Deposits, NEW a \in Final, ActOnAnswer(d, a)
       PROVE  EndedAsPushes'
  <2>1. /\ push[providerTx[d]] = (IF a = "SUCCESS" THEN "paid" ELSE "declined")
        /\ providerTx[d] \in Pushes
    BY <1>11 DEF ActOnAnswer, Linked, SweepIsInformed, PaymentsOfCalls, TypeOK
  <2>2. UNCHANGED <<pushVars, swept, flagged>>
    BY <1>11 DEF ActOnAnswer
  <2>3. CASE UNCHANGED <<callVars, status, providerTx, moneyVars>>
    BY <1>4, <2>2, <2>3
  <2>4. CASE Apply(providerTx[d], a)
    <3>1. providerTx' = providerTx
      BY <2>1, <2>4, AppliedTypes
    <3>2. ASSUME NEW e \in Deposits, status'[e] # status[e]
          PROVE  providerTx[e] = providerTx[d] /\ status'[e] = a
      BY <1>2, <2>1, <2>4, <3>2, AppliedStatus
    <3> QED
      BY <1>3, <2>1, <2>2, <3>1, <3>2
  <2>5. CASE /\ a = "FAILED" /\ status' = [status EXCEPT ![d] = "FAILED"]
             /\ UNCHANGED <<callVars, providerTx, moneyVars>>
    BY <1>2, <1>3, <2>1, <2>2, <2>5 DEF TypeOK
  <2> QED
    BY <1>11, <2>3, <2>4, <2>5 DEF ActOnAnswer
<1>12. ASSUME NEW w \in Withdrawals, Withdraw(w)
       PROVE  EndedAsPushes'
  BY <1>3, <1>12, CallTypes DEF Withdraw, TypeOK
<1>13. ASSUME NEW w \in Withdrawals, RefuseWithdrawal(w)
       PROVE  EndedAsPushes'
  BY <1>4, <1>13 DEF RefuseWithdrawal, Rollback
<1>14. CASE RollbackElsewhere
  BY <1>4, <1>14 DEF RollbackElsewhere, Rollback
<1>15. CASE UNCHANGED vars
  BY <1>4, <1>15 DEF vars
<1> QED
  BY <1>5, <1>6, <1>7, <1>8, <1>9, <1>10, <1>11, <1>12, <1>13, <1>14, <1>15 DEF Next

-----------------------------------------------------------------------------
(* A withdrawal is written by the one step that makes it. *)
LEMMA WithdrawalsStep ==
  ASSUME TypeOK, Linked, WithdrawalsStand, [Next]_vars
  PROVE  WithdrawalsStand'
<1> USE DEF callVars, pushVars, sweepVars, moneyVars
<1>1. ASSUME \A w \in Withdrawals : status'[w] = status[w]
      PROVE  WithdrawalsStand'
  BY <1>1 DEF WithdrawalsStand
<1>2. ASSUME NEW d \in Deposits, NEW s, status' = [status EXCEPT ![d] = s]
      PROVE  \A w \in Withdrawals : status'[w] = status[w]
  BY <1>2, CallTypes DEF TypeOK
<1>3. ASSUME NEW d \in Deposits,
             StartDeposit(d) \/ FailDeposit(d) \/ CreateDeposit(d) \/ AskProvider(d)
      PROVE  WithdrawalsStand'
  BY <1>1, <1>2, <1>3 DEF StartDeposit, FailDeposit, CreateDeposit, AskProvider
<1>4. ASSUME NEW d \in Deposits, NEW p \in Pushes, PromptCustomer(d, p)
      PROVE  WithdrawalsStand'
  BY <1>1, <1>4 DEF PromptCustomer
<1>5. ASSUME NEW p \in Pushes, AnswerPrompt(p)
      PROVE  WithdrawalsStand'
  BY <1>1, <1>5 DEF AnswerPrompt
<1>6. ASSUME NEW p \in Pushes, NEW outcome \in Final, Apply(p, outcome)
      PROVE  WithdrawalsStand'
  BY <1>1, <1>6, AppliedStatus, CallTypes
<1>7. ASSUME NEW p \in Pushes, Callback(p)
      PROVE  WithdrawalsStand'
  <2>1. OutcomeOf(p) \in Final /\ Apply(p, OutcomeOf(p))
    BY <1>7 DEF Callback, OutcomeOf, Final
  <2> QED
    BY <1>6, <2>1
<1>8. ASSUME NEW S \in SUBSET Deposits, StartSweep(S)
      PROVE  WithdrawalsStand'
  BY <1>1, <1>8 DEF StartSweep
<1>9. ASSUME NEW d \in Deposits, NEW a \in Final, ActOnAnswer(d, a)
      PROVE  WithdrawalsStand'
  <2>1. providerTx[d] \in Pushes
    BY <1>9 DEF ActOnAnswer, Linked, SweepIsInformed, PaymentsOfCalls, TypeOK
  <2> QED
    BY <1>1, <1>2, <1>6, <1>9, <2>1 DEF ActOnAnswer
<1>10. ASSUME NEW w \in Withdrawals, Withdraw(w)
       PROVE  WithdrawalsStand'
  BY <1>10, CallTypes DEF Withdraw, TypeOK, WithdrawalsStand
<1>11. ASSUME NEW w \in Withdrawals, RefuseWithdrawal(w)
       PROVE  WithdrawalsStand'
  BY <1>1, <1>11 DEF RefuseWithdrawal, Rollback
<1>12. CASE RollbackElsewhere
  BY <1>1, <1>12 DEF RollbackElsewhere, Rollback
<1>13. CASE UNCHANGED vars
  BY <1>1, <1>13 DEF vars
<1> QED
  BY <1>3, <1>4, <1>5, <1>7, <1>8, <1>9, <1>10, <1>11, <1>12, <1>13 DEF Next

-----------------------------------------------------------------------------
(* Sums over calls are amounts, and a new call adds its own amount. *)
LEMMA CallsTotal ==
  ASSUME NEW S, S \subseteq Calls
  PROVE  /\ IsFiniteSet(S)
         /\ Total(S, AmountOf) \in Nat
         /\ \A c \in Calls \ S :
              Total(S \cup {c}, AmountOf) = Total(S, AmountOf) + AmountOf[c]
<1>1. IsFiniteSet(Calls)
  BY CallAssumption, FS_Union DEF Calls
<1>2. IsFiniteSet(S) /\ \A c \in Calls : AmountOf[c] \in Nat
  BY <1>1, FS_Subset, CallTypes
<1>3. Total(S, AmountOf) \in Nat
  BY <1>2, CentsFinite
<1>4. ASSUME NEW c \in Calls \ S
      PROVE  Total(S \cup {c}, AmountOf) = Total(S, AmountOf) + AmountOf[c]
  BY <1>2, TotalAdd
<1> QED
  BY <1>2, <1>3, <1>4

(* A step that moves no money, and makes no payment that counts, leaves    *)
(* every sum as it is.                                                     *)
LEMMA BalanceUnmoved ==
  ASSUME BalanceIsCreditsLessWithdrawals, UNCHANGED moneyVars,
         \A d \in Deposits : (status'[d] = "SUCCESS") <=> (status[d] = "SUCCESS"),
         \A w \in Withdrawals : status'[w] = status[w]
  PROVE  BalanceIsCreditsLessWithdrawals'
<1>1. \A u : /\ Made(Deposits, {"SUCCESS"}, u)' = Made(Deposits, {"SUCCESS"}, u)
             /\ Made(Withdrawals, {"PENDING", "SUCCESS"}, u)'
                  = Made(Withdrawals, {"PENDING", "SUCCESS"}, u)
  BY DEF Made
<1>2. /\ {d \in Deposits : status'[d] = "SUCCESS"} = {d \in Deposits : status[d] = "SUCCESS"}
      /\ {w \in Withdrawals : status'[w] # "NONE"} = {w \in Withdrawals : status[w] # "NONE"}
  OBVIOUS
<1> QED
  BY <1>1, <1>2 DEF BalanceIsCreditsLessWithdrawals, moneyVars

(* The deposit that succeeds enters the sums once, with its amount. *)
LEMMA BalanceCredited ==
  ASSUME TypeOK, BalanceIsCreditsLessWithdrawals, NEW d \in Deposits,
         status[d] # "SUCCESS", status' = [status EXCEPT ![d] = "SUCCESS"], Credit(d)
  PROVE  BalanceIsCreditsLessWithdrawals'
<1> DEFINE In(u)  == Made(Deposits, {"SUCCESS"}, u)
           Out(u) == Made(Withdrawals, {"PENDING", "SUCCESS"}, u)
           AllIn  == {c \in Deposits : status[c] = "SUCCESS"}
           AllOut == {w \in Withdrawals : status[w] # "NONE"}
           a == AmountOf[d]
           v == UserOf[d]
<1>1. /\ d \in Calls /\ a \in Nat /\ v \in Users
      /\ \A c \in Deposits : status'[c] = IF c = d THEN "SUCCESS" ELSE status[c]
      /\ \A w \in Withdrawals : status'[w] = status[w]
  BY CallTypes DEF TypeOK
<1>2. ASSUME NEW u \in Users
      PROVE  /\ Total(In(u), AmountOf) \in Nat /\ Total(Out(u), AmountOf) \in Nat
             /\ Total(In(u), AmountOf)' = Total(In(u), AmountOf) + (IF u = v THEN a ELSE 0)
             /\ Total(Out(u), AmountOf)' = Total(Out(u), AmountOf)
  <2>1. In(u) \subseteq Calls /\ Out(u) \subseteq Calls
    BY CallTypes DEF Made
  <2>2. Out(u)' = Out(u)
    BY <1>1 DEF Made
  <2>3. CASE u = v
    <3>1. In(u)' = In(u) \cup {d} /\ d \notin In(u)
      BY <1>1, <2>3 DEF Made
    <3> QED
      BY <1>1, <2>1, <2>2, <2>3, <3>1, CallsTotal
  <2>4. CASE u # v
    <3>1. In(u)' = In(u)
      BY <1>1, <2>4 DEF Made
    <3> QED
      BY <2>1, <2>2, <2>4, <3>1, CallsTotal
  <2> QED
    BY <2>3, <2>4
<1>3. /\ Total(AllIn, AmountOf) \in Nat /\ Total(AllOut, AmountOf) \in Nat
      /\ Total(AllIn, AmountOf)' = Total(AllIn, AmountOf) + a
      /\ Total(AllOut, AmountOf)' = Total(AllOut, AmountOf)
  <2>1. AllIn \subseteq Calls /\ AllOut \subseteq Calls
    BY CallTypes
  <2>2. AllIn' = AllIn \cup {d} /\ d \notin AllIn /\ AllOut' = AllOut
    BY <1>1
  <2> QED
    BY <1>1, <2>1, <2>2, CallsTotal
<1>4. ASSUME NEW u \in Users
      PROVE  /\ availableAcc'[u] = available'[u]
             /\ available'[u] = Total(In(u), AmountOf)' - Total(Out(u), AmountOf)'
  <2>1. /\ available'[u] = available[u] + (IF u = v THEN a ELSE 0)
        /\ availableAcc'[u] = availableAcc[u] + (IF u = v THEN a ELSE 0)
        /\ available[u] \in Nat /\ availableAcc[u] \in Int
    BY <1>1 DEF Credit, TypeOK
  <2>2. /\ availableAcc[u] = available[u]
        /\ available[u] = Total(In(u), AmountOf) - Total(Out(u), AmountOf)
    BY DEF BalanceIsCreditsLessWithdrawals
  <2> HIDE DEF In, Out, a, v
  <2> QED
    BY <1>1, <1>2, <2>1, <2>2
<1>5. clearingAcc' = Total(AllIn, AmountOf)' - Total(AllOut, AmountOf)'
  <2>1. /\ clearingAcc' = clearingAcc + a
        /\ clearingAcc = Total(AllIn, AmountOf) - Total(AllOut, AmountOf)
    BY DEF Credit, BalanceIsCreditsLessWithdrawals
  <2> HIDE DEF AllIn, AllOut, a
  <2> QED
    BY <1>1, <1>3, <2>1
<1> QED
  BY <1>4, <1>5 DEF BalanceIsCreditsLessWithdrawals

(* A withdrawal leaves the wallet and enters the sums in the same step. *)
LEMMA BalanceWithdrawn ==
  ASSUME TypeOK, WithdrawalsStand, BalanceIsCreditsLessWithdrawals,
         NEW w \in Withdrawals, Withdraw(w)
  PROVE  BalanceIsCreditsLessWithdrawals'
<1> DEFINE In(u)  == Made(Deposits, {"SUCCESS"}, u)
           Out(u) == Made(Withdrawals, {"PENDING", "SUCCESS"}, u)
           AllIn  == {c \in Deposits : status[c] = "SUCCESS"}
           AllOut == {c \in Withdrawals : status[c] # "NONE"}
           a == AmountOf[w]
           v == UserOf[w]
<1>1. /\ w \in Calls /\ a \in Nat /\ v \in Users
      /\ status[w] = "NONE" /\ status'[w] \in {"PENDING", "SUCCESS"}
      /\ \A c \in Calls : c # w => status'[c] = status[c]
  BY CallTypes DEF TypeOK, Withdraw, KeyTaken
<1>2. \A d \in Deposits : d # w /\ status'[d] = status[d]
  BY <1>1, CallTypes
<1>3. ASSUME NEW u \in Users
      PROVE  /\ Total(In(u), AmountOf) \in Nat /\ Total(Out(u), AmountOf) \in Nat
             /\ Total(Out(u), AmountOf)' = Total(Out(u), AmountOf) + (IF u = v THEN a ELSE 0)
             /\ Total(In(u), AmountOf)' = Total(In(u), AmountOf)
  <2>1. In(u) \subseteq Calls /\ Out(u) \subseteq Calls
    BY CallTypes DEF Made
  <2>2. In(u)' = In(u)
    BY <1>2 DEF Made
  <2>3. CASE u = v
    <3>1. Out(u)' = Out(u) \cup {w} /\ w \notin Out(u)
      BY <1>1, <2>3, CallTypes DEF Made
    <3> QED
      BY <1>1, <2>1, <2>2, <2>3, <3>1, CallsTotal
  <2>4. CASE u # v
    <3>1. Out(u)' = Out(u)
      BY <1>1, <2>4, CallTypes DEF Made
    <3> QED
      BY <2>1, <2>2, <2>4, <3>1, CallsTotal
  <2> QED
    BY <2>3, <2>4
<1>4. /\ Total(AllIn, AmountOf) \in Nat /\ Total(AllOut, AmountOf) \in Nat
      /\ Total(AllOut, AmountOf)' = Total(AllOut, AmountOf) + a
      /\ Total(AllIn, AmountOf)' = Total(AllIn, AmountOf)
  <2>1. AllIn \subseteq Calls /\ AllOut \subseteq Calls
    BY CallTypes
  <2>2. AllOut' = AllOut \cup {w} /\ w \notin AllOut /\ AllIn' = AllIn
    BY <1>1, <1>2, CallTypes
  <2> QED
    BY <1>1, <2>1, <2>2, CallsTotal
<1>5. ASSUME NEW u \in Users
      PROVE  /\ availableAcc'[u] = available'[u]
             /\ available'[u] = Total(In(u), AmountOf)' - Total(Out(u), AmountOf)'
  <2>1. /\ available'[u] = available[u] - (IF u = v THEN a ELSE 0)
        /\ availableAcc'[u] = availableAcc[u] - (IF u = v THEN a ELSE 0)
        /\ available[u] \in Nat /\ availableAcc[u] \in Int
    BY <1>1 DEF Withdraw, TypeOK
  <2>2. /\ availableAcc[u] = available[u]
        /\ available[u] = Total(In(u), AmountOf) - Total(Out(u), AmountOf)
    BY DEF BalanceIsCreditsLessWithdrawals
  <2> HIDE DEF In, Out, a, v
  <2> QED
    BY <1>1, <1>3, <2>1, <2>2
<1>6. clearingAcc' = Total(AllIn, AmountOf)' - Total(AllOut, AmountOf)'
  <2>1. /\ clearingAcc' = clearingAcc - a
        /\ clearingAcc = Total(AllIn, AmountOf) - Total(AllOut, AmountOf)
    BY DEF Withdraw, BalanceIsCreditsLessWithdrawals
  <2> HIDE DEF AllIn, AllOut, a
  <2> QED
    BY <1>1, <1>4, <2>1
<1> QED
  BY <1>5, <1>6 DEF BalanceIsCreditsLessWithdrawals

(* handleWebhook credits the payment it brings to SUCCESS, and nothing else. *)
LEMMA BalanceApplied ==
  ASSUME TypeOK, Linked, BalanceIsCreditsLessWithdrawals,
         NEW p \in Pushes, NEW outcome \in Final, Apply(p, outcome)
  PROVE  BalanceIsCreditsLessWithdrawals'
<1>1. CASE Rollback
  BY <1>1, BalanceUnmoved DEF Rollback
<1>2. ASSUME NEW d \in Deposits, ~Settled(d),
             status' = [status EXCEPT ![d] = outcome],
             IF outcome = "SUCCESS" THEN Credit(d) ELSE UNCHANGED moneyVars
      PROVE  BalanceIsCreditsLessWithdrawals'
  <2>1. status[d] # "SUCCESS" /\ status[d] # "FAILED"
    BY <1>2 DEF Settled, Final
  <2>2. CASE outcome = "SUCCESS"
    BY <1>2, <2>1, <2>2, BalanceCredited
  <2>3. CASE outcome # "SUCCESS"
    <3>1. \A c \in Deposits : (status'[c] = "SUCCESS") <=> (status[c] = "SUCCESS")
      BY <1>2, <2>1, <2>3, CallTypes DEF TypeOK
    <3>2. \A w \in Withdrawals : status'[w] = status[w]
      BY <1>2, CallTypes DEF TypeOK
    <3> QED
      BY <1>2, <2>3, <3>1, <3>2, BalanceUnmoved
  <2> QED
    BY <2>2, <2>3
<1> QED
  BY <1>1, <1>2 DEF Apply

(* No step moves money that no payment stands for. *)
LEMMA BalanceStep ==
  ASSUME TypeOK, Linked, StatusIsProvidersWord, WithdrawalsStand,
         BalanceIsCreditsLessWithdrawals, [Next]_vars
  PROVE  BalanceIsCreditsLessWithdrawals'
<1>1. ASSUME UNCHANGED <<status, moneyVars>>
      PROVE  BalanceIsCreditsLessWithdrawals'
  BY <1>1, BalanceUnmoved
<1>2. ASSUME NEW d \in Deposits, StartDeposit(d) \/ FailDeposit(d) \/ AskProvider(d)
      PROVE  BalanceIsCreditsLessWithdrawals'
  BY <1>1, <1>2 DEF StartDeposit, FailDeposit, AskProvider
<1>3. ASSUME NEW d \in Deposits, CreateDeposit(d)
      PROVE  BalanceIsCreditsLessWithdrawals'
  <2>1. status[d] = "NONE"
    BY <1>3 DEF CreateDeposit, Linked, PaymentsOfCalls
  <2>2. /\ \A c \in Deposits : (status'[c] = "SUCCESS") <=> (status[c] = "SUCCESS")
        /\ \A w \in Withdrawals : status'[w] = status[w]
    BY <1>3, <2>1, CallTypes DEF CreateDeposit, TypeOK
  <2>3. UNCHANGED moneyVars
    BY <1>3 DEF CreateDeposit
  <2> QED
    BY <2>2, <2>3, BalanceUnmoved
<1>4. ASSUME NEW d \in Deposits, NEW p \in Pushes, PromptCustomer(d, p)
      PROVE  BalanceIsCreditsLessWithdrawals'
  BY <1>1, <1>4 DEF PromptCustomer
<1>5. ASSUME NEW p \in Pushes, AnswerPrompt(p)
      PROVE  BalanceIsCreditsLessWithdrawals'
  BY <1>1, <1>5 DEF AnswerPrompt
<1>6. ASSUME NEW p \in Pushes, Callback(p)
      PROVE  BalanceIsCreditsLessWithdrawals'
  <2>1. OutcomeOf(p) \in Final /\ Apply(p, OutcomeOf(p))
    BY <1>6 DEF Callback, OutcomeOf, Final
  <2> QED
    BY <2>1, BalanceApplied
<1>7. ASSUME NEW S \in SUBSET Deposits, StartSweep(S)
      PROVE  BalanceIsCreditsLessWithdrawals'
  BY <1>1, <1>7 DEF StartSweep
<1>8. ASSUME NEW d \in Deposits, NEW a \in Final, ActOnAnswer(d, a)
      PROVE  BalanceIsCreditsLessWithdrawals'
  <2>1. /\ providerTx[d] \in Pushes
        /\ push[providerTx[d]] = (IF a = "SUCCESS" THEN "paid" ELSE "declined")
    BY <1>8 DEF ActOnAnswer, Linked, SweepIsInformed, PaymentsOfCalls, TypeOK
  <2>2. CASE UNCHANGED <<callVars, status, providerTx, moneyVars>>
    BY <1>1, <2>2
  <2>3. CASE Apply(providerTx[d], a)
    BY <2>1, <2>3, BalanceApplied
  <2>4. CASE /\ a = "FAILED" /\ status' = [status EXCEPT ![d] = "FAILED"]
             /\ UNCHANGED <<callVars, providerTx, moneyVars>>
    <3>1. status[d] # "SUCCESS"
      BY <2>1, <2>4 DEF StatusIsProvidersWord, Final
    <3>2. /\ \A c \in Deposits : (status'[c] = "SUCCESS") <=> (status[c] = "SUCCESS")
          /\ \A w \in Withdrawals : status'[w] = status[w]
      BY <2>4, <3>1, CallTypes DEF TypeOK
    <3> QED
      BY <2>4, <3>2, BalanceUnmoved
  <2> QED
    BY <1>8, <2>2, <2>3, <2>4 DEF ActOnAnswer
<1>9. ASSUME NEW w \in Withdrawals, Withdraw(w)
      PROVE  BalanceIsCreditsLessWithdrawals'
  BY <1>9, BalanceWithdrawn
<1>10. ASSUME NEW w \in Withdrawals, RefuseWithdrawal(w)
       PROVE  BalanceIsCreditsLessWithdrawals'
  BY <1>1, <1>10 DEF RefuseWithdrawal, Rollback
<1>11. CASE RollbackElsewhere
  BY <1>1, <1>11 DEF RollbackElsewhere, Rollback
<1>12. CASE UNCHANGED vars
  BY <1>1, <1>12 DEF vars
<1> QED
  BY <1>2, <1>3, <1>4, <1>5, <1>6, <1>7, <1>8, <1>9, <1>10, <1>11, <1>12 DEF Next

(* A withdrawal looks for its key before it writes its payment. *)
LEMMA KeyStep ==
  ASSUME TypeOK, Linked, OneWithdrawalPerKey, [Next]_vars
  PROVE  OneWithdrawalPerKey'
<1> USE DEF callVars, pushVars, sweepVars, moneyVars
<1>1. ASSUME \A w \in Withdrawals : status'[w] = status[w]
      PROVE  OneWithdrawalPerKey'
  BY <1>1 DEF OneWithdrawalPerKey
<1>2. ASSUME NEW w \in Withdrawals, Withdraw(w)
      PROVE  OneWithdrawalPerKey'
  <2>1. \A c \in Calls : status[c] # "NONE" => KeyOf[c] # KeyOf[w]
    BY <1>2 DEF Withdraw, KeyTaken
  <2>2. \A c \in Calls : c # w => status'[c] = status[c]
    BY <1>2 DEF Withdraw, TypeOK
  <2> QED
    BY <2>1, <2>2, CallTypes DEF OneWithdrawalPerKey
<1>3. ASSUME NEW d \in Deposits, NEW s, status' = [status EXCEPT ![d] = s]
      PROVE  \A w \in Withdrawals : status'[w] = status[w]
  BY <1>3, CallTypes DEF TypeOK
<1>4. ASSUME NEW p \in Pushes, NEW outcome \in Final, Apply(p, outcome)
      PROVE  \A w \in Withdrawals : status'[w] = status[w]
  BY <1>4, AppliedStatus, CallTypes
<1>5. ASSUME NEW p \in Pushes, Callback(p)
      PROVE  \A w \in Withdrawals : status'[w] = status[w]
  <2>1. OutcomeOf(p) \in Final /\ Apply(p, OutcomeOf(p))
    BY <1>5 DEF Callback, OutcomeOf, Final
  <2> QED
    BY <1>4, <2>1
<1>6. ASSUME NEW d \in Deposits, NEW a \in Final, ActOnAnswer(d, a)
      PROVE  \A w \in Withdrawals : status'[w] = status[w]
  <2>1. providerTx[d] \in Pushes
    BY <1>6 DEF ActOnAnswer, Linked, SweepIsInformed, PaymentsOfCalls, TypeOK
  <2> QED
    BY <1>3, <1>4, <1>6, <2>1 DEF ActOnAnswer
<1>7. ASSUME NEW d \in Deposits,
             StartDeposit(d) \/ FailDeposit(d) \/ CreateDeposit(d) \/ AskProvider(d)
      PROVE  \A w \in Withdrawals : status'[w] = status[w]
  BY <1>3, <1>7 DEF StartDeposit, FailDeposit, CreateDeposit, AskProvider
<1>8. ASSUME NEW d \in Deposits, NEW p \in Pushes, PromptCustomer(d, p)
      PROVE  status' = status
  BY <1>8 DEF PromptCustomer
<1>9. ASSUME NEW p \in Pushes, AnswerPrompt(p)
      PROVE  status' = status
  BY <1>9 DEF AnswerPrompt
<1>10. ASSUME NEW S \in SUBSET Deposits, StartSweep(S)
       PROVE  status' = status
  BY <1>10 DEF StartSweep
<1>11. ASSUME NEW w \in Withdrawals, RefuseWithdrawal(w)
       PROVE  status' = status
  BY <1>11 DEF RefuseWithdrawal, Rollback
<1>12. (RollbackElsewhere \/ UNCHANGED vars) => status' = status
  BY DEF RollbackElsewhere, Rollback, vars
<1> QED
  BY <1>1, <1>2, <1>5, <1>6, <1>7, <1>8, <1>9, <1>10, <1>11, <1>12 DEF Next

-----------------------------------------------------------------------------
(* IInv holds at the start. *)
LEMMA InitInv ==
  ASSUME Init
  PROVE  IInv /\ OneWithdrawalPerKey
<1>1. TypeOK
  BY DEF Init, TypeOK
<1>2. \A c \in Calls : status[c] = "NONE"
  BY DEF Init
<1>3. Linked /\ WithdrawalsStand /\ StatusIsProvidersWord /\ OneWithdrawalPerKey
  BY <1>2, CallTypes DEF Init, Linked, PaymentsOfCalls, AnswersNamePushes,
     SweepIsInformed, WithdrawalsStand, StatusIsProvidersWord, OneWithdrawalPerKey, Final
<1>4. BalanceIsCreditsLessWithdrawals
  <2>1. /\ \A u : /\ Made(Deposits, {"SUCCESS"}, u) = {}
                   /\ Made(Withdrawals, {"PENDING", "SUCCESS"}, u) = {}
        /\ {d \in Deposits : status[d] = "SUCCESS"} = {}
        /\ {w \in Withdrawals : status[w] # "NONE"} = {}
    BY <1>2, CallTypes DEF Made
  <2>2. Total({}, AmountOf) = 0
    BY TotalEmpty
  <2>3. \A u \in Users : available[u] = 0 /\ availableAcc[u] = 0
    BY DEF Init
  <2>4. ASSUME NEW u \in Users
        PROVE  available[u] = Total(Made(Deposits, {"SUCCESS"}, u), AmountOf)
                 - Total(Made(Withdrawals, {"PENDING", "SUCCESS"}, u), AmountOf)
    BY <2>1, <2>2, <2>3
  <2>5. clearingAcc = Total({d \in Deposits : status[d] = "SUCCESS"}, AmountOf)
                        - Total({w \in Withdrawals : status[w] # "NONE"}, AmountOf)
    BY <2>1, <2>2 DEF Init
  <2> QED
    BY <2>3, <2>4, <2>5 DEF BalanceIsCreditsLessWithdrawals
<1> QED
  BY <1>1, <1>3, <1>4 DEF IInv

(* The payments are well typed and their bookkeeping is sound in every     *)
(* reachable state: the invariant the theorems below rest on.              *)
THEOREM Invariance == Spec => [](IInv /\ OneWithdrawalPerKey)
<1>1. Init => IInv /\ OneWithdrawalPerKey
  BY InitInv
<1>2. ASSUME IInv /\ OneWithdrawalPerKey, [Next]_vars
      PROVE  (IInv /\ OneWithdrawalPerKey)'
  <2>1. /\ TypeOK /\ Linked /\ StatusIsProvidersWord /\ WithdrawalsStand
        /\ BalanceIsCreditsLessWithdrawals /\ OneWithdrawalPerKey
    BY <1>2 DEF IInv
  <2>2. TypeOK' /\ Linked'
    BY <1>2, <2>1, TypeStep, LinkedStep
  <2>3. StatusIsProvidersWord' /\ WithdrawalsStand'
    BY <1>2, <2>1, WordStep, WithdrawalsStep
  <2>4. BalanceIsCreditsLessWithdrawals' /\ OneWithdrawalPerKey'
    BY <1>2, <2>1, BalanceStep, KeyStep
  <2> QED
    BY <2>2, <2>3, <2>4 DEF IInv
<1> QED
  BY <1>1, <1>2, PTL DEF Spec

(* Payments, pushes, sweeps and balances are of their types; a wallet is   *)
(* never overdrawn by a withdrawal.                                        *)
THEOREM TypeCorrect == Spec => []TypeOK
<1>1. IInv => TypeOK
  BY DEF IInv
<1> QED
  BY <1>1, Invariance, PTL

(* A wallet holds the deposits that succeeded less the withdrawals made,   *)
(* and the ledger agrees, in whatever order callbacks and sweeps come.     *)
THEOREM BalanceFollows == Spec => []BalanceIsCreditsLessWithdrawals
<1>1. IInv => BalanceIsCreditsLessWithdrawals
  BY DEF IInv
<1> QED
  BY <1>1, Invariance, PTL

(* A deposit ends as its own push ended at the provider. *)
THEOREM ProvidersWord == Spec => []StatusIsProvidersWord
<1>1. IInv => StatusIsProvidersWord
  BY DEF IInv
<1> QED
  BY <1>1, Invariance, PTL

(* The requests sent under one key pay out at most once. *)
THEOREM OnePayout == Spec => []OneWithdrawalPerKey
  BY Invariance, PTL

(* A report without discrepancies means that the deposits credited are the *)
(* successful items of the statement, to the cent.                         *)
THEOREM CleanReports == Spec => []CleanReportMeansBooked
<1>1. ASSUME StatusIsProvidersWord
      PROVE  CleanReportMeansBooked
  <2> SUFFICES ASSUME NEW S \in SUBSET {p \in Pushes : Answered(p)},
                      Unmatched(S) = {}, Unlisted(S) = {}
               PROVE  /\ \A p \in S : push[p] = "paid" =>
                           \E d \in Deposits : /\ status[d] = "SUCCESS"
                                              /\ providerTx[d] = p
                                              /\ AmountOf[d] = Charged(d)
                      /\ \A d \in Deposits : status[d] = "SUCCESS" =>
                           providerTx[d] \in S /\ push[providerTx[d]] = "paid"
    BY DEF CleanReportMeansBooked
  <2>1. ASSUME NEW p \in S, push[p] = "paid"
        PROVE  \E d \in Deposits : /\ status[d] = "SUCCESS"
                                  /\ providerTx[d] = p
                                  /\ AmountOf[d] = Charged(d)
    <3>1. PICK d \in Recorded(p) : Agrees(d, Statement(S)[p])
      BY DEF Unmatched
    <3>2. /\ d \in Deposits /\ providerTx[d] = p
          /\ status[d] = "SUCCESS" /\ AmountOf[d] = Charged(pushedFor[p])
      BY <2>1, <3>1 DEF Recorded, Agrees, Statement, OutcomeOf
    <3>3. pushedFor[p] = d
      BY <1>1, <3>2 DEF StatusIsProvidersWord, Final
    <3> QED
      BY <3>2, <3>3
  <2>2. ASSUME NEW d \in Deposits, status[d] = "SUCCESS"
        PROVE  providerTx[d] \in S /\ push[providerTx[d]] = "paid"
    BY <1>1, <2>2 DEF Unlisted, StatusIsProvidersWord, Final
  <2> QED
    BY <2>1, <2>2
<1>2. IInv => StatusIsProvidersWord
  BY DEF IInv
<1> QED
  BY <1>1, <1>2, Invariance, PTL
=============================================================================
