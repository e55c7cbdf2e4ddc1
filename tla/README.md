# KaziBet: formal models

TLA+ models of the KaziBet sportsbook (a TypeScript monorepo), checked with TLC and
proved with TLAPS. Paths are relative to the root of the repository (`src/` below
stands for it).

Contents: 1 the system · 2 the modules · 3 the runs · 4 the proofs · 5 what the
models found · 6 what is not modelled · 7 what could come next.

## 1. The system

One Node process serves an HTTP API (`apps/api`) over service objects that share
a database object. JavaScript runs to the next `await` without interruption, so
two calls interleave only at awaits. `apps/api/src/server.ts:13-68` wires
`InMemoryDatabase` (the default) or `PrismaDatabase`.

`InMemoryDatabase.transaction` (`packages/database/src/in-memory-db.ts:202-262`)
runs the callbacks one after another. It copies all stores first; when the
callback throws it puts the copies in the place of the stores. The callbacks
await nothing but the stores and nested transactions (which join the outer one), so
among transactions each is one atomic step, and one that throws leaves no trace
*inside the stores*. It is visible outside: code that took its repositories before
the rollback keeps the replaced store, and what was written outside a transaction
meanwhile is undone. Where such writers matter (`Markets`, `Accounts`, `Channels`),
the transaction of a placement is taken apart at its awaits, or at its beginning and
its end.

| Component | State | Operations | Interacts with | Hard behaviour | Correct when |
|---|---|---|---|---|---|
| Bet placement (`packages/betting-engine/src/bet-placement-service.ts`, `bet-slip-calculator.ts`) | slips, bets, legs, wallet, holds | `placeBet` | odds engine, wallet; outbox | retries, the last cents of a balance | one slip per key; a stake is taken once and covered |
| Settlement (`packages/settlement/src/settlement-engine.ts`, `tax-calculator.ts`) | legs, bets, wallets, holds, journals, risk cases, audit log | `settleEventMarkets`, `resettleEventMarkets` | ledger, evaluator | accumulators over several events, repeated corrections, rounding, one failing journal | every bet is paid what the official results say, once; wallet and ledger agree |
| Cash-out (`cashout-engine.ts`) | same | quote, execute | ledger | against settlement and correction | closes an open bet once |
| Ledger (`packages/ledger`) | accounts, transactions, entries | `postJournal`, balances, audit | everyone who moves money | idempotency keys reused after a reversal | debits equal credits; the accounts tell what the wallet tells |
| Payments (`packages/payments/src/payment-service.ts`) | payments, wallets, journals | `initiateDeposit`, `handleWebhook`, `initiateWithdrawal` | provider, ledger, risk cases | callbacks early, late, twice, never; keys checked before an await; rollbacks meanwhile | a deposit is credited once, and only if paid; a key pays out once |
| Sweeper (`payment-sweeper.ts`) | – | `sweepPendingDeposits` | provider, payments | acts on payments listed earlier | ends a deposit as the provider did |
| M-Pesa adapter (`mpesa-adapter.ts`) | token cache, callback tokens | push, query, payout, verification | HTTP | retries of requests that were accepted | – |
| Database (`packages/database`) | stores; Prisma client; Redis locks and counters | transactions, repositories, lock, rate limit | everyone | rollback against writers outside a transaction; read committed; leases | isolation the services rely on |
| Reconciliation (`reconciliation-service.ts`) | – | `reconcile` | payments, a statement | a statement older than the payments, cents against shillings | a clean report can be relied on |
| Rule evaluator (`rule-evaluator.ts`) | – (pure) | one rule per market type | settlement | quarter lines, cancelled events, dead heats | agrees with the rules of the game |
| Bonus engine (`bonus-engine.ts`) | grants in a Map, wallets, journals | grant, free bet, wager, expire | ledger, wallet | Map state that transactions do not roll back | a bonus is paid or forfeited, once |
| Odds (`packages/odds`), feeds (`packages/sports`) | events, markets, selections, versions | create, update, suspend, resume, sync, stale check, score | placement, settlement | read, await, write; suspended by one, resumed by another; answers that arrive late | no bet once the result is in; a suspension is lifted by whoever may lift it |
| Risk (`packages/risk`) | risk cases; device profiles in a Map | sessions, signals, exposure | placement, withdrawals | Map that rollbacks do not undo | who shares a device is known |
| Compliance, identity | users' status, factors, backup codes in a Map | KYC, cooling-off, self-exclusion, registration, login, second factor | placement, payments | status read before and written after awaits | an excluded user stays out; a factor is shown, a code used once |
| Kenya channels (`packages/kenya`) | sessions | USSD and SMS bets, balance, cash-out | placement, cash-out, registration | redelivered messages, keys made of the time, users made twice | a bet is what was asked for and its user's |
| Tenant, realtime, admin, AI, web, CLI, UI, simulator | sockets | formatting, fan-out, rendering | the services above | – | – |

`PROJECT.json` lists the components with their status, and every hazard with the
properties that cover it or the reason none does.

## 2. The modules

| Module | What it is | Constants for TLC | Theorems |
|---|---|---|---|
| `Cents` | sums of money, as the cardinality of the set of cents: sums then follow from the theorems on finite sets, with no recursion | – | `CentsTheorems` |
| `SettlementMath` | payout, tax, verdict of a set of leg statuses, the journal each verdict posts, what `postJournal` accepts, the payout of a free bet | – | `SettlementProofs` |
| `Betting` | the betting core: `PlaceBet`, `SettleEvent`, `ResettleEvent`, `Cashout` | `MCBetting` | `SettlementProofs` |
| `BetBook` | abstract specification: what the core promises a bettor | – | `SettlementProofs` |
| `Payments` | deposits at their await points, callbacks, sweep, withdrawals, reconciliation | `MCPayments` | `PaymentsProofs` |
| `Postgres` | the operations that move a wallet in a request, as read-committed transactions | `MCPostgres` | `PostgresProofs` |
| `Results` | from the pitch to the status of a selection: score polls, results, rule evaluator | `MCResults` | `SettlementProofs` |
| `Bonuses` | grants, wagering, conversion and expiry of bonuses | `MCBonuses` | `BonusesProofs` |
| `Markets` | one market: odds, feed, stale scan, desk, goals, exposure, placement | `MCMarkets` | `MarketsProofs` |
| `Accounts` | registration, login, second factors, KYC, exclusions, device sessions | `MCAccounts` | `AccountsProofs` |
| `Channels` | USSD and SMS, from the message to the bet or cash-out | `MCChannels` | `ChannelsProofs` |

`Betting` and `Payments` are atomic where the code is serialized; `Postgres` takes
the same operations apart. `Markets`, `Accounts` and `Channels` each contain the
part of `placeBet` that concerns them, and `Betting` what placement does to the
money, so that a placement is covered from the message to the payout.

### Betting

One action is one service call, which is one transaction.

| Code | Model |
|---|---|
| `Wallet.availableCents`, `heldCents` | `available[u]`, `held[u]` |
| `Bet.status`, `payoutCents`; `BetLeg.status`; `WalletHold.status` | `status`, `payout`, `leg`, `hold`, indexed by the idempotency key of the slip (at most one slip, bet and hold exist per key) |
| `BetLeg.selectionId`, `eventId` | a leg is a pair of both: the event is what the client has sent with the selection (`routes/betting.ts:72-75`, `bet-placement-service.ts:190`) and nobody compares it with `EventOf` |
| `Selection.status` | `result`, the last official outcome, "NONE" while ACTIVE; a dead heat is kept apart from a win here only to state properties, the engine writes WON in both cases |
| ledger accounts `USER_AVAILABLE`, `USER_HOLD` | `availableAcc`, `holdAcc`; other accounts are lines of the journals |
| settlement and cash-out transactions of the ledger | `journals`, one per bet and kind: the kind is the variable part of the idempotency key |
| `auditLogs` EVENT_RESETTLED | `corrections`, a number per event |
| open `NEGATIVE_BALANCE_AFTER_RESETTLEMENT` cases | `flagged`; nothing closes a case |

So what makes a slip correlated, which event settles a leg and which bets a
correction touches go by the event the leg *names*; a selection that is not among
the outcomes of that event is LOST (`settlement-engine.ts:73-76`). Requests with
false events are among the slips of both instances.

Decimals are integers scaled by 10000, as the code scales them before it
multiplies bigints. `SettleFrom` is `settleEventMarkets`; `ResettleEvent` calls it
on the state it has prepared, in the same step, as the code does in one
transaction. The sequential loops over bets are written as simultaneous updates:
a bet's journal and payout depend on that bet only, and the wallet updates
are sums; the running clamp of `heldCents` gives the same result as the clamp of
the sum. A risk case is opened when the running balance of a user is negative
after one of the claw-backs; as claw-backs only lower it, that is when it
is negative after the last.

### Payments

`initiateDeposit` is not a transaction, and is three steps: the check of the key
(`StartDeposit`), the pushes at the provider (`PromptCustomer`, once for each
attempt that reached it) and the creation of the payment (`CreateDeposit`), or
`FailDeposit`. `Callback` and `Withdraw` are transactions. The sweep is
`StartSweep` (the list), `AskProvider` (the query) and `ActOnAnswer` (the
callback it makes up, or FAILED). A transaction that throws, here or elsewhere,
is a rollback: the deposits in flight become `stale`, and the row such a deposit
creates is visible to nobody. `AnswerPrompt` is the customer.

A callback carries the provider's final word. The provider does not contradict
itself: this is the assumption on the environment behind
`StatusIsProvidersWord`. The credited amount is the payment's, as in the code; the
push asks for whole shillings (`Charged`), and the difference shows only in the
reconciliation. `reconcile` changes no state: `Unmatched` and `Unlisted` are its
two lists of discrepancies over a statement that names *any* set of answered
pushes, so a statement of any age is covered.

### Postgres

`PrismaDatabase` runs callbacks read committed. A call begins, reads the wallet,
posts its journal and writes its rows; `Abort` may end it at any point. Each reading
sees what is committed at that moment. The rows a transaction has written are
locked until it ends, so its writes and its commit are one step. The journal is
another matter: `LedgerEngine` opens a transaction of its own, which commits by
itself, and so is a step of its own that an abort does not undo. `overlapped` is a
history variable: the users of whom two transactions have been open together.

### Results

`match` is the truth at the provider, `event` what the database holds of it. A
score poll and a result query are two steps each, the question and the write, and
several are in flight. `Settle` is a settlement or a correction with one of the
`Rulings`: it evaluates all the markets of the event. The evaluator has one operator
per market type, and counts lines in quarters of a goal, so that a quarter line is
an integer; what a name is read as (`Read`) follows the code's string
comparisons. `RuleBook` is the reference definition, written from the rules of
the game and from the *selection's* side, where the evaluator computes from the
home side and by cases; `Plain` are the selections for which the two agree, see
section 5 for the others.

### Bonuses

The engine's bonuses live in a Map that no transaction rolls back, the money in the
database. `Store`, `Forfeit` and `RecordWager` change the Map and begin to await a
transaction; `Record` and `Convert` are that transaction, and `Lose` is its
failure, after which the Map stays as it is. `Look` is the loop of
`checkExpiration` over the user's bonuses, with the awaits in between at
which other calls run. `lost` is a history variable: bonuses ended by a
transaction that threw.

### Markets

One market of one event. A call is taken apart at its awaits: what it read is in
`got`, the selections it has still to write in `todo`. The desk's `suspendMarket` and
`resumeMarket`, and those of a goal, read the market, wait and write. A placement is a transaction
(`placing`, with the stores as they were in `saved`) which reads the selection,
then the market, and later writes its bet; settlements wait for it, nobody else
does. If it throws the stores go back to `saved`, together with
everything the feed and the desk wrote meanwhile, and the calls in flight are
`detached`: what they write is seen by nobody. The provider's odds may be
anything (`Prices` is any set of naturals): only `updateSelectionOdds` refuses odds below 1.01.
The history variable `hold` is "firm" while a suspension the feed must not lift is in
force and nothing was under way when it was decided ("raced" if something was).

### Accounts

`db` is the sequence of the stores that have replaced each other: a call works on
the one it took when it began (`ctx`), and everybody who begins takes the last one.
Backup codes and device profiles are Maps beside it. Registration looks for the
email, then the phone number, then creates the user; login, setup and enabling of
a factor, self-exclusion, cooling-off and KYC read the user, await and write.
KYC contains the calls of the provider and of the sanctions list, with documents
below, at and beyond each limit. A placement is a transaction that may replace
the stores. History variables say what was true undisturbed: `firm` is the status
last given while nothing else was under way, `known` how much of it held during
all of a call, `overlap` which registrations met, `undone` which risk cases a
rollback took away.

### Channels

A message is a record of what it says (channel, kind, stake, legs and
picks or an alias, session); a delivery is one arrival of it, and one message may have
several. `Pick` and `Selected` are the conversion of its text to legs: an unknown pick
on USSD is the home side, and so is whatever team an alias names, since an alias leads to a match
only. A handler looks up the user by phone, creates user and wallet if there is none
(two writes), and places the bet, or quotes a cash-out and executes it, one step per
await. The placement's key contains the time it was asked for (`asked`); a second
placement under one key answers with the first. A channel that was given no betting
service, or no cash-out engine, answers as if it had acted (`HasBetting`,
`HasCashout`).

Money comes in on the web only: `Register` (the look-up), `CreateUser`, `SignIn`, and
`PayIn`, which credits the user id of the token and creates the wallet if there is
none. It races with the first messages of the same phone, and either may make a user
the other has not seen. `BeginPlacement` and `BeginCashout` take the snapshot (`saved`, of users
and wallets); a placement or cash-out that throws puts it back under the creations in
flight, which are then `detached`. Transactions of others are `PayIn` and `Settle`; web
placements and corrections are left to `Betting`.

## 3. The runs

| Run | Instance | States | Shows |
|---|---|---|---|
| `betting_corrections` | 2 users, 2 bets, 2 events with a selection each, a choice of 4 slips (an accumulator, two singles and one under a false event), results WON or LOST, up to 2 corrections per event | 73 617 | held = stakes of open bets; available = deposits − stakes + standing payouts; negative only if flagged; ledger = wallet for uncorrected users; implementation of `BetBook` |
| `betting_outcomes` | 1 bet, the 6 outcomes the evaluator can give each leg, 6 slips whose stakes and odds round, two of them with false events, 1 correction per event | 40 152 | types; every journal is accepted; payment by the official results of all legs, dead heats included where the code can see them |
| `payments` | 2 users, 3 deposits (2 under one key), 3 withdrawals (2 under one key, 1 over the approval threshold), 2 pushes, any user under review | 176 992 | balances; the final status of a deposit is the provider's; one payout per key; a clean report means booked, to the cent |
| `postgres` | 1 user, 2 deposits with 3 callbacks (one twice), 2 withdrawals under one key, 2 bets | 496 524 | a wallet no two transactions overlap on is right; no payment before its journal |
| `results` | one market of each type, two quarter/half lines and a handicap in a name, match of up to 1 goal a side, rulings 0–2 goals, voids and dead heats, 2 polls | 56 840 | every plain selection has the status of the rules, whatever came before; no place is paid twice; only a match that is over is finished |
| `bonuses` | 2 users, 3 bonuses of both kinds, 1 expiry check, 2 wagers | 30 841 | wallet = ledger; a bonus ends once; cash is wagered; *what began to end is booked in the end* |
| `markets` | 1 selection, 1 bet, 2 updates (one inadmissible), 1 sync, scan, goal, exposure check and desk call, odds of the feed below and above 1.01; 3 calls of them in one behaviour, 1 score or result | 1 405 446 | a suspension made alone holds against the feed; no bet is written once the result is in |
| `accounts` | 2 users, 2 registrations of one phone, 3 logins (1 privileged), 2 setups, 1 call of each other kind, 3 device sessions; 4 calls in one behaviour | 841 516 | the six properties of accounts |
| `channels` | 9 deliveries of 2 phones, one delivered twice, one by alias of the away team, one to a channel without services; 3 in one behaviour; a web registration of the first phone, 1 deposit, 2 instants | 413 919 | wallets add up; bets are found; accepted as asked; cashed out once |
| `betting_correction_journals`, `markets_versions`, `postgres_double_spend` | the instances above (the first with one bet) | – | a violation each, see section 5 |

Bounds. `MaxCorrections` bounds the corrections of one event: the code bounds them
by a time window only. Two corrections are needed for a journal reversed twice
and a claw-back after a claw-back; two bets of one user on the same events, for
a bet placed with winnings that are then taken back. Two events are the least
for an accumulator, and each has one selection because outcomes of different
selections are independent for the engine. Stakes are a few cents, odds 1.5 to 4,
chosen so that halves, shares and taxes round. In `payments`, two pushes are
enough for a retry (two pushes of one deposit) or for two deposits paid.
`MaxCalls` (`markets`, `accounts`) and `MaxArrivals` (`channels`) say how many of the
calls that could be made are made in one behaviour, whichever they are: the
hazards listed take two calls and a rollback or a placement, which is not
counted in `markets`. In `results` one goal a side is enough for an answer to be
older than the event, and rulings do not depend on the match; `SYMMETRY` is over
the two polls there, and over the two deliveries of one cancellation in `channels`,
which differ in nothing. `MaxGoals`, `MaxTime`, `MaxDeposits` and
`MaxWrites` bound counters that only grow.

Deadlock is checked in the runs of betting, payments and results, where something
can always be done. In the others every call is made once and ends, so a
behaviour may stop.

Fairness. `Bonuses` alone assumes some: weak fairness of `Store`, `Look`, `Await`
and `Record`, the steps of a call that has begun. Node runs every continuation it has
queued, and a transaction resolves or rejects. It is not assumed that a call is
ever made, or that a bonus lapses. `EndedIsBooked` then says that a bonus whose status
is final has its journal in the end, or its transaction threw. Elsewhere the code
guarantees nothing of the kind: settlement, correction and sweep are started
by an operator or by nothing in the repository, `fetch` has no timeout, and a
withdrawal waiting for approval waits for ever.

## 4. The proofs

All theorems hold for every value of the constants that satisfies the assumptions
named in the modules: finite sets of calls (the stores are finite), amounts in `Nat`,
a tax rate in `0..Scale`, a dead-heat factor strictly between 0 and 1, outcomes the
evaluator knows, calls that are each of one kind, and so on. `Cents` makes a sum a cardinality; `CentsTheorems`
proves the rules of sums (disjoint unions, differences, replacing the amount of one
element, re-indexing). Each proof module has the same layout: an inductive
invariant `IInv`, a lemma per action, `Invariance`, and one short theorem for each
property. TLC agreed with every `IInv` before it was proved. `SettlementProofs` has
three parts: the arithmetic, `Results` (whose specification, invariant and theorems have
`Results` in their names, because both modules are in scope) and `Betting`.

**Betting.** `IInv` is type correctness, finiteness of `journals`,
`HeldBacksOpenBets`, `AvailableIsFundsStakesPayouts` and `OpenBetsUnpaid` (a bet that
is not closed has payout 0). The last conjunct is the strengthening: without it the
wallet equation is not inductive, because settling a bet sets its payout and adds
it to the balance, which is right only if nothing was standing on it.
`HeldBacksOpenBets` is needed for the clamp: the released stakes are part of what is
held, so the clamp never bites. The part of settlement that settlement and
correction share (`SettledInvariant`) is proved once.

| Theorem | Rests on |
|---|---|
| `Invariance`, `TypeCorrect`, `HeldBacks`, `AvailableFollows` | the induction above |
| `NegativeFlagged` | `IInv`; only a correction lowers a balance below zero |
| `SettlementsPost` | stakes of at least 2 cents and odds of at least 1 (finding 6 shows that the first is needed); `SettlementJournalPostable` |
| `LedgerFollows` | `LedgerInv`: the property, and that an open bet on no corrected event has no journal (`OpenBetsUnposted`), so that the key of its settlement is fresh |
| `PaidOfficially`, `NoneLeftOpen` | `LegsFollowResults`: each leg of an existing bet carries the last official outcome of its selection, or LOST once an event it only names is settled; `OpenBetsPending`: an open bet has a leg to come, so what decides it is a settlement of an event one of its legs names. Nothing is assumed of the requests; only the bets on several events with a dead heat among their results are left out of the property (finding 5) |
| `ExposureSuffices` | `JournalPaysWithin`: no verdict, factor, rate or cash-out returns more than the potential payout or, at odds below 1, the stake. It is what `RiskEngine` counts on when it adds up potential payouts |
| `EvaluatorMeetsEngine` | `Results`: whatever the evaluator gives a selection is an outcome the engine settles, with the same status of the leg. This is what lets `Betting` draw outcomes from a set |
| `Refinement` | `IInv`; initial states map to initial states, each action to a step of `BetBook` or a stutter |
| `SettlementJournalAmounts`, `SettlementJournalPostable`, `FreeBetPaysProfit` | arithmetic of products and integer division |

**Payments.** `IInv` is types, `Linked` (a payment exists once its call has
returned, an answer names a push made for that very deposit, and what the sweep has
learned is what became of the push), `WithdrawalsStand` (no withdrawal is
undone), `StatusIsProvidersWord` and the balance equation. A late callback, a second one and one after a sweep are
all the same case: the status is no longer PENDING. `BalanceFollows`, `ProvidersWord`,
`OnePayout`, and `CleanReports`, which counts nothing: a clean report means each
item has a payment and each payment an item, and pushes are made for one deposit.

**Postgres.** `SeenCovers` (what a spending has read covers it), `PostedFirst` (a
callback posts before it reads the wallet, a withdrawal after), `AloneUnlessOverlapped` (a user
outside `overlapped` has at most one open transaction, and that one has read what is
committed still): without overlap the lost update is impossible, which is `RightAlone`.
`JournalAhead` needs no such condition.

**Results.** `OutcomesOfApplied` (a settled market's outcomes are the evaluator's
for the *last* ruling) is the point of the invariant. `ByRule` follows with
`EvaluatorFollowsRules`, which proves for every score, line and selection that the
evaluator's arithmetic on a plain selection agrees with `RuleBook`; `EachPlaceOnce` by
counting winners. `ToldWhenOver` (who has been told that the match is over was told so
when it was) gives `AtFullTime`.

**Bonuses.** A user's bonuses are gone over one at a time, by loops that meet. The
strengthening says what a loop may rely on after its awaits: `GrantedInOrder` (a
bonus is in the list once its grant has resolved), `AwaitsWhatItEnded` (who awaits a transaction has ended that bonus
himself, and nobody else awaits it), `NoneLeftBehind` (a wager that has come to
recording has left no lapsed bonus active behind it), `WageredIsStaked` (what a bonus
counts as wagered are stakes of the user, each counted for one bonus only). They give
`BonusEndsOnce`, `WalletFollows` (the clamps never bite) and `CashWasWagered`.

**Accounts.** The difficulty is the replaced stores: a property of the last store is
not kept unless it holds of `saved`, and a call may write to any store in `db`. The
lemma `StoresEvolve` shows that every step either writes within stores, in one of the
few ways the calls do, or appends the saved one. `FirmStands`, `KnownIsFirm` and
`ReadAsKnown` carry a status given undisturbed through the calls that begin after
it; `CodesOfDone` and `UsedIsGone` follow the backup codes; `SecretsAreOwn` the
factors; `RegistrationsOverlap` the pairs that met. They give `StatusStands`, `LockedOut`,
`CodesOnce`, `FactorShown`, `OneUser` and `SharingFlagged`.

**Markets.** Every call writes what it has read some steps ago, and a refused
placement writes what was there before all of it; the invariant says whose writes
can still hurt. `FirmInv`: while a suspension is firm the saved stores have it too, every
scan that has listed the market holds replaced stores, and no sync that still writes
has read a suspension it may lift. It is inductive because a suspension is firm only
if nothing of the kind was under way (`Raced`), and what begins later reads the
suspension. `SavedInv` and `GoalInv` (a goal that is setting a price has one left to
set) are for the types; `BetInv` (one placement runs at a time) and `ResultInv` (once a
placement has read its selection the results are not in until it ends, because what
decides them is a transaction and a refusal puts back stores of before) give the action
property `AcceptedInTime`. The others are `TypeCorrect` and `FirmStays`.

**Channels.** First messages and a registration that race make several users of
one phone, of which only the oldest is ever found. `OwnerInv`: money is only had by
those who have registered, and their wallets are in the snapshot as well when a
transaction runs, since a deposit waits for it. `WhoInv`: the user a handler has found has its phone number and, if
that user has registered and has not been taken back, is the oldest of it. So a
covered bet is of a registered user who is the oldest, in the stores and in the
snapshot (`BetInv`), and as the snapshot is the beginning of the list (`SavedInv`) no
rollback and no later user changes that. `CallInv` and
`ReplyInv` say of each delivery what its handler has established when it gets to a place
and what its reply means from then on; `SlipInv` that a delivery has no bet
before its handler is done and an open bet is unpaid; `MoneyInv` is the wallet equation
of every caller, a user or not; `RunningInv` that one transaction runs; `CashOutInv` that the bet of a processed
cancellation exists and is closed. They give `MoneyAddsUp`, `BetsStayFound`,
`AsAccepted` and `CashedOutAtMostOnce`.

Only model-checked: the liveness property `EndedIsBooked`; what it needs of safety, that
an ended bonus is booked, lost or in the hands of a call, is in `BonusEndsOnce`. Out of
the prover's reach are liveness under fairness, ENABLED, induction over data and recursive operators; no
module uses the last. Every other property of a run that passes is a theorem.

## 5. What the models found

`PROJECT.json` quotes the documents. The first three are runs that expect a violation.

1. `betting_correction_journals` – a correction that gives a bet the same kind of
   verdict again finds the idempotency key of the journal it has just reversed
   and posts nothing: the wallet is paid and the ledger is not
   (`settlement-engine.ts:226`, `ledger-engine.ts:99`).
2. `markets_versions` – two updates of one selection read the same version and both
   write the next one: one version number names two prices (`odds-engine.ts:96`).
3. `postgres_double_spend` – under Prisma two transactions of one user read the
   same balance and both spend it (`prisma-db.ts:173`).
4. An accumulator with won and void legs is settled as LOST
   (`settlement-engine.ts:106`).
5. A dead heat in an event settled before the last one is forgotten: the payout
   depends on the order of settlements (`settlement-engine.ts:163`).
6. Half losing one cent is a journal with an empty line; the settlement of the
   whole event is undone (`settlement-engine.ts:290`).
7. A rollback anywhere while a deposit waits for the provider loses its payment
   (`in-memory-db.ts:250`, `payment-service.ts:41,84`).
8. Two requests under one key, both waiting for the provider, make two payments
   (`payment-service.ts:54`).
9. A handicap in the name of a selection is added to the home side's lead,
   whichever side the selection is (`rule-evaluator.ts:131`).
10. A placement reads price and market at two moments and compares no version: a goal
    between them may move the price and reopen the market, and the bet is accepted at
    the odds of before (`odds-engine.ts:188`).
11. Fresh odds lift a suspension that was decided after the market was read
    (`feed-ingestion-service.ts:154`); `FirmHolds` is about the others.
12. The check for correlated selections trusts the event ids of the client
    (`bet-placement-service.ts:61`).
13. The tax of a dead heat is rounded half up, not down (`tax-calculator.ts:26`).
14. A bet by team alias goes to the home team of the match, whichever team it names
    (`sms-parser.ts:182`).
15. A handset is told to pay in via Paybill, which credits nobody, and the user it was
    given cannot sign in (`sms-parser.ts:267`).
16. A KYC submission overwrites a self-exclusion (`kyc-service.ts:64`).

What else the models contain, as the code does it, and a reader should know:

- Betting: placement posts no journal, so the two user accounts differ from the
  wallet while a bet is open (`docs/LEDGER.md:70`; `LedgerMatchesWallet` compares
  the sums); the journal of a cash-out is not reversed when its bet is reopened
  (`settlement-engine.ts:451`); an accumulator with half-won legs is paid half its stake at the
  odds of all its legs, the void ones included, and once however many are half won
  (`settlement-engine.ts:111-121`); `ExposureSuffices` is the bound that remains.
- Payments: M-Pesa deposits keep the CheckoutRequestID (`mpesa-adapter.ts:220`), a
  statement of the portal has receipt numbers; the model's statement names pushes.
  A withdrawal over the threshold is never approved or rejected.
- Postgres: two deliveries of a callback can both credit; a withdrawal that fails
  leaves its journal.
- Results: a 1X2 selection named by its team wins on any result but a draw, on either
  side, and one of draw-no-bet is settled as the away side; `TOTALS_2_5`, which the
  feed creates, is unknown to the evaluator and void; a total that is the line
  loses on both sides; a score update puts the event back to LIVE
  (`sports-service.ts:103`); a result finishes an event without writing its score.
- Bonuses: the Map is lost with the process; a bonus whose transaction throws has
  ended and is not paid (`bonus-engine.ts:381,473`); a free bet can be converted
  like a wagering bonus.
- Accounts: a refused placement undoes a self-exclusion made meanwhile; a
  provider's negative or failed answer ends VERIFIED (the Smile adapter's fallback);
  backup codes are lost with the process.
- Channels: a pick the menu does not know becomes the home side
  (`ussd-simulator.ts:186-198`); the withdrawal menu withdraws nothing (126-147);
  a message delivered again in another millisecond places a second bet; a channel
  without a betting service says that a bet was accepted, one without a cash-out
  engine that a cancellation was processed (`sms-parser.ts:158,303`,
  `ussd-simulator.ts:252`); what a registered user has deposited who is not the oldest
  of the phone cannot be staked from it.
- Markets: the feed writes odds below 1.01 (`feed-ingestion-service.ts:127-133`).

## 6. What is not modelled

Within the modelled parts: the clock of the correction window (a correction may
happen at any time, up to the bound); outbox events (nothing reads them); float
products of accumulator odds (the odds of a request are the scaled product);
tenants other than one, currencies other than KES; the CLOSED status of a user, which
nothing sets; the market parameters as a source of an outright's winners, which nothing
fills; callback tokens, IP ranges and token
caching; settlement and cash-out under Prisma; daily limits, which nothing calls; the
parsing of texts, amounts and identifiers. With `MockPaymentProvider`, which does no
I/O, the creation of a payment could also fall between two awaits of a running
transaction; `Payments` is about providers that are called over the network, whose
answers arrive between transactions.

Whole components, with the reason in `PROJECT.json`: Redis locks and rate limits are
called by no production code; a tenant does not change after it is provisioned;
fraud signals and sanctions name matching are scoring; cryptography, tokens and RBAC
are library calls and a table; rules, notifications, observability, CLI, UI,
realtime, admin, AI, web applications and infrastructure are presentation, I/O and
read-only queries without protocol state.

## 7. What could come next

1. A composition of `Betting` and `Payments` over one wallet: a risk case opened by a
   correction blocks withdrawals. Property: no withdrawal pays out money a correction
   has taken back while the case is open.
2. Settlement, correction and cash-out as read-committed transactions in `Postgres`.
3. Larger instances of `markets`: two selections of one market, four calls.
