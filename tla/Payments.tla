------------------------------ MODULE Payments ------------------------------
(***************************************************************************)
(* Deposits and withdrawals over InMemoryDatabase: PaymentService, the     *)
(* sweeper of stuck deposits and the M-Pesa adapter, with the provider and *)
(* its customers as environment.                                           *)
(*                                                                         *)
(* A transaction awaits nothing but the store and transactions run one at  *)
(* a time, so each is one step.  initiateDeposit runs outside of any       *)
(* transaction and its call to the provider may take long: the check of    *)
(* the idempotency key, the answer of the provider and the creation of the *)
(* payment are separate steps.                                             *)
(*                                                                         *)
(* A transaction that throws puts copies of all the stores, taken when it  *)
(* began, in the place of the stores.  A deposit waiting for the provider  *)
(* still holds the old store, and creates its payment there: it is stale.  *)
(***************************************************************************)
EXTENDS Cents

CONSTANTS
    Users,
    Deposits,     \* calls of initiateDeposit
    Withdrawals,  \* calls of initiateWithdrawal
    Keys,         \* idempotency keys
    Pushes,       \* CheckoutRequestIDs of the provider
    NoPush,
    KeyOf,        \* the idempotency key of each call
    UserOf,       \* the user of each call
    AmountOf,     \* the amount of each call, in cents
    Threshold     \* manualApprovalThresholdCents, 0 for none

Calls == Deposits \cup Withdrawals

ASSUME CallAssumption ==
    /\ IsFiniteSet(Deposits) /\ IsFiniteSet(Withdrawals)
    /\ Deposits \cap Withdrawals = {}
    /\ KeyOf \in [Calls -> Keys]
    /\ UserOf \in [Calls -> Users]
    /\ AmountOf \in [Calls -> Nat \ {0}]
    /\ Threshold \in Nat
ASSUME PushAssumption == IsFiniteSet(Pushes) /\ NoPush \notin Pushes

VARIABLES
    call,         \* where each call of initiateDeposit is
    answer,       \* the push the provider's answer to it names
    stale,        \* deposits in flight that hold a replaced store
    status,       \* Payment.status of each call, "NONE" before the row exists
    providerTx,   \* Payment.providerTxId of each deposit
    push,         \* the state of each push at the provider
    pushedFor,    \* the deposit each push was made for
    swept,        \* deposits the running sweep has still to ask about
    learned,      \* the answers the sweep got and has not acted upon
    available,    \* Wallet.availableCents
    availableAcc, \* credit balance of the account USER_AVAILABLE
    clearingAcc,  \* debit balance of the account PAYMENT_CLEARING
    flagged       \* users with an OPEN risk case of HIGH severity

callVars  == <<call, answer, stale>>
pushVars  == <<push, pushedFor>>
sweepVars == <<swept, learned>>
moneyVars == <<available, availableAcc, clearingAcc>>
vars == <<callVars, status, providerTx, pushVars, sweepVars, moneyVars, flagged>>

Final == {"SUCCESS", "FAILED"}

TypeOK ==
    /\ call \in [Deposits -> {"idle", "pushing", "returned", "failed"}]
    /\ answer \in [Deposits -> Pushes \cup {NoPush}]
    /\ stale \subseteq Deposits
    /\ status \in [Calls -> {"NONE", "PENDING"} \cup Final]
    /\ providerTx \in [Deposits -> Pushes \cup {NoPush}]
    /\ push \in [Pushes -> {"unused", "open", "paid", "declined"}]
    /\ pushedFor \in [Pushes -> Deposits \cup {NoPush}]
    /\ swept \subseteq Deposits
    /\ learned \subseteq Deposits \X Final
    /\ available \in [Users -> Nat]
    /\ availableAcc \in [Users -> Int]
    /\ clearingAcc \in Int
    /\ flagged \subseteq Users

Init ==
    /\ call = [d \in Deposits |-> "idle"]
    /\ answer = [d \in Deposits |-> NoPush]
    /\ stale = {}
    /\ status = [c \in Calls |-> "NONE"]
    /\ providerTx = [d \in Deposits |-> NoPush]
    /\ push = [p \in Pushes |-> "unused"]
    /\ pushedFor = [p \in Pushes |-> NoPush]
    /\ swept = {}
    /\ learned = {}
    /\ available = [u \in Users |-> 0]
    /\ availableAcc = [u \in Users |-> 0]
    /\ clearingAcc = 0
    /\ flagged \in SUBSET Users

-----------------------------------------------------------------------------
(* A payment with the key is in the store, of whichever type and status;   *)
(* KeyPending forgets the payments already made.                           *)
KeyPending(c) == \E c2 \in Calls : status[c2] = "PENDING" /\ KeyOf[c2] = KeyOf[c]
KeyTaken(c) == \E c2 \in Calls : status[c2] # "NONE" /\ KeyOf[c2] = KeyOf[c]

(* initiateDeposit up to the call of the provider.  If the key is taken it *)
(* returns the payment that has it.                                        *)
StartDeposit(d) ==
    /\ call[d] = "idle"
    /\ call' = [call EXCEPT ![d] = IF KeyTaken(d) THEN "returned" ELSE "pushing"]
    /\ UNCHANGED <<answer, stale, status, providerTx, pushVars, sweepVars,
                   moneyVars, flagged>>

(* The provider prompts the customer.  Its answer may be lost on the way,  *)
(* or be a server error: fetchWithRetry then posts the request again, and  *)
(* the customer gets a second prompt.                                      *)
PromptCustomer(d, p) ==
    /\ call[d] = "pushing" /\ answer[d] = NoPush
    /\ push[p] = "unused"
    /\ push' = [push EXCEPT ![p] = "open"]
    /\ pushedFor' = [pushedFor EXCEPT ![p] = d]
    /\ answer' \in {answer, [answer EXCEPT ![d] = p]}
    /\ UNCHANGED <<call, stale, status, providerTx, sweepVars, moneyVars, flagged>>

(* The provider refuses, or the retries are exhausted: initiateDeposit     *)
(* throws and leaves no payment.                                           *)
FailDeposit(d) ==
    /\ call[d] = "pushing" /\ answer[d] = NoPush
    /\ call' = [call EXCEPT ![d] = "failed"]
    /\ stale' = stale \ {d}
    /\ UNCHANGED <<answer, status, providerTx, pushVars, sweepVars, moneyVars, flagged>>

(* The payment is created in the store that was current when the call      *)
(* began; a row in a replaced store is seen by nobody.                     *)
CreateDeposit(d) ==
    /\ call[d] = "pushing" /\ answer[d] # NoPush
    /\ call' = [call EXCEPT ![d] = "returned"]
    /\ stale' = stale \ {d}
    /\ IF d \notin stale
       THEN /\ status' = [status EXCEPT ![d] = "PENDING"]
            /\ providerTx' = [providerTx EXCEPT ![d] = answer[d]]
       ELSE UNCHANGED <<status, providerTx>>
    /\ UNCHANGED <<answer, pushVars, sweepVars, moneyVars, flagged>>

(* The customer enters the PIN or declines. *)
AnswerPrompt(p) ==
    /\ push[p] = "open"
    /\ push' \in {[push EXCEPT ![p] = "paid"], [push EXCEPT ![p] = "declined"]}
    /\ UNCHANGED <<callVars, status, providerTx, pushedFor, sweepVars, moneyVars, flagged>>

-----------------------------------------------------------------------------
InFlight == {d \in Deposits : call[d] = "pushing"}

(* A transaction throws. *)
Rollback ==
    /\ stale' = stale \cup InFlight
    /\ UNCHANGED <<call, answer, status, providerTx, moneyVars>>

(* A transaction of another service throws: a bet is refused, say. *)
RollbackElsewhere ==
    /\ Rollback
    /\ UNCHANGED <<pushVars, sweepVars, flagged>>

(* The journal DR PAYMENT_CLEARING, CR USER_AVAILABLE and the wallet. *)
Credit(d) ==
    LET u == UserOf[d] IN
    /\ available' = [available EXCEPT ![u] = @ + AmountOf[d]]
    /\ availableAcc' = [availableAcc EXCEPT ![u] = @ + AmountOf[d]]
    /\ clearingAcc' = clearingAcc + AmountOf[d]

(* Whether a callback finds the payment already in a final status;         *)
(* NeverSettled is the replay check forgotten.                             *)
NeverSettled(d) == FALSE
Settled(d) == status[d] \in Final

(* handleWebhook on a callback the adapter has verified. *)
Apply(p, outcome) ==
    LET known == {d \in Deposits : providerTx[d] = p} IN
    \/ known = {} /\ Rollback
    \/ \E d \in known :
         /\ ~Settled(d)
         /\ status' = [status EXCEPT ![d] = outcome]
         /\ IF outcome = "SUCCESS" THEN Credit(d) ELSE UNCHANGED moneyVars
         /\ UNCHANGED <<callVars, providerTx>>

(* The provider's word on a push: final once the customer has answered. *)
OutcomeOf(p) == IF push[p] = "paid" THEN "SUCCESS" ELSE "FAILED"
Answered(p) == push[p] \in {"paid", "declined"}

(* A callback may come late, twice or never, and before the payment.  One  *)
(* that changes nothing is not a step.                                     *)
Callback(p) ==
    /\ Answered(p)
    /\ Apply(p, OutcomeOf(p))
    /\ UNCHANGED <<pushVars, sweepVars, flagged>>

-----------------------------------------------------------------------------
(* sweepPendingDeposits reads the deposits that are PENDING for longer     *)
(* than the timeout, whichever these are, and then asks the provider about *)
(* one after the other.                                                    *)
StartSweep(S) ==
    /\ swept = {} /\ learned = {} /\ S # {}
    /\ \A d \in S : status[d] = "PENDING"
    /\ swept' = S
    /\ UNCHANGED <<callVars, status, providerTx, pushVars, learned, moneyVars, flagged>>

(* queryPaymentStatus; an error, and a push without an answer, count as    *)
(* PENDING and the sweep goes on to the next payment.  ImpatientAnswers    *)
(* takes a push without an answer for a failed one.                        *)
ImpatientAnswers(p) == {OutcomeOf(p)}
AnswersOn(p) == IF Answered(p) THEN {OutcomeOf(p), "PENDING"} ELSE {"PENDING"}

AskProvider(d) ==
    /\ d \in swept /\ learned = {}
    /\ \E a \in AnswersOn(providerTx[d]) :
         learned' = IF a = "PENDING" THEN {} ELSE {<<d, a>>}
    /\ swept' = swept \ {d}
    /\ UNCHANGED <<callVars, status, providerTx, pushVars, moneyVars, flagged>>

(* A SUCCESS goes through handleWebhook; a FAILED is written over whatever *)
(* the status has become since the sweep read it.                          *)
ActOnAnswer(d, a) ==
    /\ <<d, a>> \in learned
    /\ learned' = {}
    /\ \/ a = "SUCCESS" /\ Settled(d) /\ UNCHANGED <<callVars, status, providerTx, moneyVars>>
       \/ a = "SUCCESS" /\ Apply(providerTx[d], a)
       \/ /\ a = "FAILED"
          /\ status' = [status EXCEPT ![d] = "FAILED"]
          /\ UNCHANGED <<callVars, providerTx, moneyVars>>
    /\ UNCHANGED <<pushVars, swept, flagged>>

-----------------------------------------------------------------------------
OnHold(u) == u \in flagged

(* The balance covers the withdrawal; FundedInPart asks for some money.    *)
FundedInPart(w) == available[UserOf[w]] > 0
Funded(w) == available[UserOf[w]] >= AmountOf[w]

(* A refused withdrawal is a transaction that throws. *)
RefuseWithdrawal(w) ==
    /\ ~KeyTaken(w)
    /\ OnHold(UserOf[w]) \/ ~Funded(w)
    /\ Rollback
    /\ UNCHANGED <<pushVars, sweepVars, flagged>>

(* initiateWithdrawal; a key that is taken makes it return the payment.    *)
Withdraw(w) ==
    LET u == UserOf[w] IN
    /\ ~KeyTaken(w)
    /\ ~OnHold(u)
    /\ Funded(w)
    /\ available' = [available EXCEPT ![u] = @ - AmountOf[w]]
    /\ availableAcc' = [availableAcc EXCEPT ![u] = @ - AmountOf[w]]
    /\ clearingAcc' = clearingAcc - AmountOf[w]
    /\ status' = [status EXCEPT ![w] =
         IF Threshold > 0 /\ AmountOf[w] >= Threshold THEN "PENDING" ELSE "SUCCESS"]
    /\ UNCHANGED <<callVars, providerTx, pushVars, sweepVars, flagged>>

Next ==
    \/ \E d \in Deposits : StartDeposit(d) \/ FailDeposit(d) \/ CreateDeposit(d)
    \/ \E d \in Deposits, p \in Pushes : PromptCustomer(d, p)
    \/ \E p \in Pushes : AnswerPrompt(p) \/ Callback(p)
    \/ \E S \in SUBSET Deposits : StartSweep(S)
    \/ \E d \in Deposits : AskProvider(d)
    \/ \E d \in Deposits, a \in Final : ActOnAnswer(d, a)
    \/ \E w \in Withdrawals : Withdraw(w) \/ RefuseWithdrawal(w)
    \/ RollbackElsewhere

Spec == Init /\ [][Next]_vars

-----------------------------------------------------------------------------
(***************************************************************************)
(* PaymentReconciliationService: a statement of the provider against the   *)
(* payments.  The statement names the pushes S that had been answered when *)
(* it was exported; it may be older than the payments it is compared with. *)
(***************************************************************************)

(* What a push asks for: whole shillings, the cents cut off, but at least one. *)
Charged(d) == LET shillings == AmountOf[d] \div 100
              IN  100 * (IF shillings < 1 THEN 1 ELSE shillings)

Statement(S) == [p \in S |-> [amount |-> Charged(pushedFor[p]), status |-> OutcomeOf(p)]]

Recorded(p) == {d \in Deposits : status[d] # "NONE" /\ providerTx[d] = p}

(* One item against one payment; AmountsOnly forgets the status. *)
AmountsOnly(d, item) == AmountOf[d] = item.amount
Agrees(d, item) == AmountOf[d] = item.amount /\ status[d] = item.status

(* Discrepancies: items without an agreeing payment, and payments that     *)
(* succeeded and are not on the statement.                                 *)
Unmatched(S) == {p \in S : \A d \in Recorded(p) : ~Agrees(d, Statement(S)[p])}
Unlisted(S)  == {d \in Deposits : status[d] = "SUCCESS" /\ providerTx[d] \notin S}

-----------------------------------------------------------------------------
Made(C, S, u) == {c \in C : UserOf[c] = u /\ status[c] \in S}

(* The wallet, the ledger and the payments tell the same story: what a     *)
(* user has is the deposits that succeeded less the withdrawals made, and  *)
(* the clearing account holds the sum, whatever order callbacks and sweeps *)
(* come in and however often the same deposit is reported.                 *)
BalanceIsCreditsLessWithdrawals ==
    /\ \A u \in Users :
         /\ availableAcc[u] = available[u]
         /\ available[u] =
              Total(Made(Deposits, {"SUCCESS"}, u), AmountOf)
                - Total(Made(Withdrawals, {"PENDING", "SUCCESS"}, u), AmountOf)
    /\ clearingAcc =
         Total({d \in Deposits : status[d] = "SUCCESS"}, AmountOf)
           - Total({w \in Withdrawals : status[w] # "NONE"}, AmountOf)

(* A deposit ends as its own push did at the provider: it is credited only *)
(* on a push the customer paid, no push is credited to two deposits, and a *)
(* deposit that was paid is never written off by the sweeper.              *)
StatusIsProvidersWord ==
    /\ \A d \in Deposits : status[d] \in Final =>
         /\ push[providerTx[d]] = (IF status[d] = "SUCCESS" THEN "paid" ELSE "declined")
         /\ pushedFor[providerTx[d]] = d
    /\ \A d1, d2 \in Deposits :
         status[d1] = "SUCCESS" /\ providerTx[d1] = providerTx[d2] => d1 = d2

(* The requests sent under one key pay out at most once, also when the     *)
(* first of them is waiting for approval or long since done.               *)
OneWithdrawalPerKey ==
    \A w1, w2 \in Withdrawals :
        status[w1] # "NONE" /\ status[w2] # "NONE" /\ KeyOf[w1] = KeyOf[w2] => w1 = w2

(* A report without discrepancies can be relied on: the deposits credited  *)
(* are then the statement's successful items, one for one and to the cent, *)
(* however late the statement, the callbacks and the sweeps are.           *)
CleanReportMeansBooked ==
    \A S \in SUBSET {p \in Pushes : Answered(p)} :
        Unmatched(S) = {} /\ Unlisted(S) = {} =>
            /\ \A p \in S : push[p] = "paid" =>
                 \E d \in Deposits : /\ status[d] = "SUCCESS"
                                    /\ providerTx[d] = p
                                    /\ AmountOf[d] = Charged(d)
            /\ \A d \in Deposits : status[d] = "SUCCESS" =>
                 providerTx[d] \in S /\ push[providerTx[d]] = "paid"
=============================================================================
