# Wasla CORE: a TLA+ development

CORE coordinates three platforms: MARKET sells, MOVE executes, CORE holds the
money and the record of what was done. It is one TypeScript service over
PostgreSQL. Its hard behaviour lies in a few places: durable queues that several
processes drain, an event bus with a consumer inbox, and money commands that
read outside the transaction in which they write. This directory models those
places, checks them with TLC on small instances, and proves with TLAPS, for every
instance, each safety property, each action property and each refinement that
those runs check.

Paths below are relative to the repository (`src/platform/...`, `db/...`). The
PostgreSQL adapters are the code translated. The in-memory backend serves one
process and interleaves less.

## 1. Inventory

| Component | State | Operations | What makes it correct |
|---|---|---|---|
| Outbox and relay (`platform/eventing/outbox.ts`, `pg-outbox.ts`, `publisher.ts`, `reclaim.ts`, `fencing.ts`) | `outbox` rows: status, attempts, reclaims, next_attempt_at, claimed_at, claim_token | append with a command's transaction; claim, reclaim, mark published / failed / dead; drain; revive | one holder per row; decisions from a current copy; fan-out atomic with publication; budgets exact; every row settles |
| Inbound ingress and dispatcher (`ingress.ts`, `pg-ingress.ts`, `dispatcher.ts`) | `inbound_event` rows of the same shape | accept once; drain | as above; a processed row is final; every accepted event settles |
| Event bus and inbox (`bus.ts`, `pg-inbox.ts`) | `inbox` pairs (consumer, event) | claim, run handler, release, retry | each consumer handles each event; once if nothing goes wrong |
| Replay and revival (`platform/replay/`) | an advisory lock, the audit journal | replay rows through the bus, unfenced; revive dead rows | a replay never takes a processed row back and charges nothing |
| Money (`modules/money/`) | wallets, `payment_authorization`, `ledger_transaction` | credit, authorize, capture, refund, void, expiry sweep | totals agree with the ledger; consent is a ceiling; one reference, one movement |
| Fulfillment (`modules/fulfillment/`) | `fulfillment` rows | order intake, acceptance, rejection, completion, cancellation | one final closure, one event for it, the money where the row says |
| Event delivery (`delivery.ts`, `pg-delivery.ts`, `delivery-http.ts`) | subscriptions, `event_delivery` rows with leases | register, switch on and off, fan-out, delivery worker, suppression, revival | as the outbox; a switched-off endpoint is left alone; every POST is charged to a budget |
| Notifications (`modules/notification/`) | recipients, `notification` rows with a status of their own for the lease | register, fan-out within a tenant's scope, dispatcher, provider attempts | as the outbox; nobody is messaged more often than the budget; every message settles |
| Subscription and billing (`modules/subscription/`) | plans, subscriptions, periods, usage, one hold per period | subscribe, collect, cancel, renewal sweep, expiry, usage, entitlement | a period is paid once and an entitlement was paid for; a cancellation stands |
| HTTP retry keys (`platform/http/retry.ts`, `pg-retry.ts`, `router.ts`) | `idempotency_key` rows, a rate window | limit, claim, complete, release, takeover, replay of an answer | the work under a key is done once within the horizon; a replayed answer is that of the same request |
| Identity and organization (`modules/identity/`, `modules/organization/`) | identities with their links and principals, sessions, memberships, organizations | register, issue, revoke, grant, create | one account, one identity; no half of a lost race remains |
| Reputation (`modules/reputation/`) | `reputation_signal` rows | record, retract, derive a standing | each change announced once; the standing follows from what was announced |
| Geography (`modules/geography/`) | countries, regions, cities, service areas | register, add, define, resolve a point | a region code means one place, whoever adds it at the same time |
| Persistence, HTTP parsing, normalization, observability, audit, bootstrap | - | the unit of work; translation; readings; wiring | the unit of work commits all it staged or nothing |

How they interact:

- A command (HTTP, or a handler of an inbound event) commits its rows, its
  outbox events and its audit entries through one unit of work.
- The relay publishes outbox rows on the in-process bus, and queues the external
  deliveries and notifications in the transaction that marks the row published.
- The dispatcher publishes inbound rows on the same bus. Its subscribers are the
  fulfillment's handlers. They reach the money module through the payment port,
  and stage the money's writes in their own unit of work.
- Replay publishes selected inbound rows on that bus without a claim.
- Delivery workers and notification dispatchers drain the rows that the fan-out
  queued, each in a loop of its own.
- Billing charges a period through the money module: a hold under the period's
  reference, then its capture in the transaction that settles the period.
- Every write over HTTP passes the router: authentication, rate limit, retry
  claim, handler, record of the answer.

Three things are hard everywhere. A worker may stall or die between any two
statements. Messages and retries come late, twice, and at the same time. And a
command decides from rows it read on the connection pool before its
transaction began. `hazards` in `PROJECT.json` lists where each of these bites.

## 2. The modules

| Module | Models | Uses |
|---|---|---|
| `LeaseRow` | one queue row and its transitions, shared by outbox, inbound rows and deliveries | - |
| `OutboxRelay` | the outbox, its relays, revival | `LeaseRow` |
| `ExclusiveWork` | abstract specification: what a leased queue promises | - |
| `InboundDispatch` | inbound rows, dispatchers, bus, inbox, replay | `LeaseRow` |
| `Settlement` | one authorization, its ledger, the schema's constraints | - |
| `Money` | concurrent money commands | `Settlement` |
| `Fulfillment` | fulfillment handlers with the payment port and the payment API | `Settlement` |
| `EventDelivery` | subscriptions, fan-out, delivery rows and their workers | `LeaseRow`, `ExclusiveWork` |
| `NotificationQueue` | recipients, fan-out, messages and their dispatchers | `LeaseRow` (time only), `ExclusiveWork` |
| `Billing` | subscriptions, periods and their holds under concurrent commands | - |
| `RetryClaim` | a keyed request from the rate limit to its recorded answer | - |
| `Access` | identities, sessions, memberships, organizations | - |
| `Reputation` | signals, retractions, the derived standing | - |
| `Geography` | countries, regions, cities, service areas | - |
| `MCQueues` | the three outgoing queues, for TLC | `OutboxRelay`, `EventDelivery`, `NotificationQueue` |
| `MCCommands` | the modules whose commands read and commit later, for TLC | `Money`, `Billing`, `RetryClaim`, `Access`, `Reputation`, `Geography` |
| `MCInboundDispatch`, `MCMoney`, `MCBilling`, `MCFulfillment` | one component, for TLC | that component |
| `LeaseRowProofs` | lemmas: what each statement makes of a queue row | `LeaseRow` |
| `OutboxRelayProofs` | theorems about the outbox, and that it is an `ExclusiveWork` | `OutboxRelay`, `LeaseRowProofs` |
| `QueueProofs` | theorems about deliveries and notifications, that each is an `ExclusiveWork`, and about the three queues together | `MCQueues`, `OutboxRelayProofs` |
| `InboundDispatchProofs` | theorems about the inbound side | `InboundDispatch`, `LeaseRowProofs` |
| `SettlementProofs` | lemmas: sums over finite sets, and ledgers that grow | `Settlement` |
| `FulfillmentProofs` | theorems about fulfillment and its money | `Fulfillment`, `SettlementProofs` |
| `MoneyProofs` | theorems about the money module | `Money`, `SettlementProofs` |
| `CommandProofs` | theorems about geography, access, reputation, retry and billing, and about the six command modules together | `MCCommands`, `MoneyProofs` |

An operator placed before a definition and marked "A mutant" is that definition
with a plausible mistake in it. `PROJECT.json` says which property must notice.

### LeaseRow

A row is `[status, attempts, reclaims, wait, claimed, token]`. `wait` is
`next_attempt_at` minus the clock. The same column is the retry time of an
unclaimed row and the lease of a claimed one, as in the schema. A worker reads
the clock once per drain and uses that reading until the drain ends
(`publisher.ts:91`); `age` is how old the reading is. So "due" is
`wait + age <= 0`, and a retry delay counts from the old reading. `Horizon` only
says how late the model distinguishes: later than that is all the same.

`Claim`, `Reclaim`, `MarkDone`, `MarkFailed`, `MarkDead` and `Revive` are the SQL
statements, `Accepts` is the fence in their `where` clauses: the row's token is
the caller's, or the caller presents none.

`for update skip locked` makes each claiming or reclaiming statement take effect
at one instant on rows no other statement is changing. It may also pass over a
row that another transaction has locked at that instant. In the model it then
finds the row in the state before or after that change, so it selects in
due order; a lock that makes a drain come back with fewer rows looks like a drain
that ran a moment earlier or later.

### OutboxRelay

Variables: `row` (the table), and for each relay `pc`, `age`, `batch` (the
records claimDue returned and not yet finished) and `current`. `fannedOut` is the
set of events whose deliveries and notifications are queued. `Append`, `Poll`,
`ReclaimExpired`, `ClaimDue`, `Publish`, `AckPublished` and `Fail` are the steps
of `drainOnce`, one per statement or transaction. `Fail` is a throw of the bus or
of the fan-out transaction. `Crash` may come anywhere. `ReviveDead` is the
operator.

### InboundDispatch

`Accept`, `Poll`, `ReclaimExpired`, `ClaimDue`, `AckFails` and `AckDispatch` are the
dispatcher. The `try` of `drainOnce` encloses `markProcessed`: `AckFails` is an
acknowledgement that throws, its write committed or not, after which the row is
charged as for a failed handler if the claim still stands. Before that the bus walks
the event's subscribers: `InboxClaim`, `HandlerCommits` or `HandlerThrows`, `Release`,
`ReclaimInbox`, one for each statement of `LocalEventBus.deliver`. `StartReplay`, `ForgetInbox` and `AckReplay`
are a replay of one record in `pending_only` or `reapply` mode; it goes through
the same bus steps. `InboxError` is a throwing inbox statement. `handled` counts
committed handler runs and `thrown` the throws of a handler, up to `ThrownCap`; both
are history, read by no action.

A dispatcher claims one row at a time in the model. A longer batch makes later
rows wait with their lease running, which the time that may pass between the
claim and the first delivery already covers.

### Settlement, Money

A hold is named by its business reference, which is unique, and its row is
`[status, amount, captured, refunded]`. The ledger is a set of entries.
`AfterCapture`, `AfterRefund` and `AfterVoid` are what the commands make of the
row they read. `Sound` is the CHECK constraints and `Agrees` the deferred triggers
of `db/migrations/0009_partial_capture_and_refunds.sql`.

A command of `Money` is a record in `cmd`: it reads (`Start...`, `ReadPosted`,
`ReadHeld`), decides (`Decide`), and commits (`Commit...`). Nothing connects the
reads with the commit, because the code reads on the pool and its transaction
writes the whole row by id. Under READ COMMITTED the row lock of the update lasts
to the commit and the deferred triggers see what has committed, so that the
commits of one hold come one after the other; that is why a commit is one step.
A refused commit changes nothing.

Left out: currencies (one per wallet), the suspension of a wallet, the money
events, and collisions between a caller's credit reference and the
`capture:`/`refund:` references CORE makes.

### Fulfillment

A handler is a record in `cmd`: it reads the fulfillment (`ReceiveOrder`,
`Accept`, `Reject`, `Complete`, `Cancel`), then the hold (`Inspect`, `ReadHold`,
`ReadLedger`, `Release`), and commits everything in one transaction (`Commit`).
`Commit` runs the statements in the order they were staged: constraints of the
hold and the ledger, the conditional write of the fulfillment, its own
constraints, the deferred triggers. A lost conditional write leads to `Reread` and
an answer from the row that won: `MarkExecution`, `TraceJob` or `Reply`.
`ReadFails` is a throwing read of the payment port, which the code does not
distinguish from a refusal. `CallCapture`, `CallVoid`, `CallDecides` and
`CallCommits` are the payment API on the same holds; the expiry sweep does
what a void does.

Holds exist, whole or not at all, before the first message: making them is
`Money`'s. MOVE only reports on fulfillments whose creation was published.

### EventDelivery

Variables: `subscribed` (the registry), `fanOut` (the subscriptions each event's
fan-out has read), `delivery` (rows of `LeaseRow`'s shape), `sender` (what each
worker's drain holds), and `reviving` for the operator. `posted`, `late` and
`granted` count what the properties speak of. `FanOutRead` and `FanOutCommit` are
the two halves of the fan-out; a subscription may be switched in between.
`StartDrain`, `RecoverDeliveries`, `ClaimDeliveries`, `ReadSubscription`, `Send`,
`RecordAnswer` and `SuppressDelivery` are the worker, one per statement or request.
An answer is a 2xx, a refusal that is not retried, or none. Nothing deletes a
subscription or an outbox row, so the branches for a missing one
(`delivery.ts:820-839`) cannot be taken and are absent.

### NotificationQueue

This table is leased differently. The lease is the status `processing`, the
attempt is charged by the claim, and there is one budget, which an abandoned
attempt spends like a failed one (`AfterAbandonment`). `TellRead` and `TellCommit`
are the fan-out to the recipients of the event's tenant (`InScope`); `StartRound`,
`RecoverNotes`, `ClaimNotes`, `SendNote`, `NoAdapter` and `RecordOutcome` are the
dispatcher. `broken` is an adapter that throws. A registered recipient always has
an address, since links are never withdrawn, so the unroutable branch is absent.

### Billing

One plan, the agreements made to it, `MaxPeriods` periods each. A command is a
record in `job`: it reads (`StartCollect`, `ReadPeriod`, `ReadAgreement`,
`FindCovering`, `StartSweep`, `RenewNext`) and commits whole rows by id
(`TakeHold`, `SettlePeriod`, `MarkUncollectible`, `CommitCancel`, `OpenPeriod`,
`ExpireSubscription`). The hold and the settlement are two transactions, and the
process may die between them. `elapsed` counts the ended periods of an agreement,
which is all the clock decides. `ReleaseHold` is the expiry sweep or a void through
the money API. Amounts are 0 for a free plan or 1. Usage is the form without `at`.
A capture of a billing hold through the money API is left out. `contested`
records that two commands ran at the same time.

### RetryClaim

`record` is the table, `serving` the request each server is handling. `Receive`
passes the rate limit, `ClaimWon`, `ClaimLost` and `ClaimThrows` are the claiming
statement, `Find` reads the record a lost claim met, `HandlerSucceeds`,
`HandlerRefuses` and `HandlerBreaks` the handler, `CompleteClaim` and
`ReleaseClaim` the fenced records of its end, `LeavesClaim` a death or a failed
write. Horizon and retention are ages of the record.

Three variables are history, read by no guard: `worked`, how long each handler has
run; `done`, whether the work of a key was done with nothing to excuse a repeat; and
`excuses`. A repeat of the work is excused by four failures and nothing else. In
`DoWork`: a handler that works on past the horizon (`Overdue`), or that threw after it
had committed part of its work. In `ClaimWon`, if the record it replaces has lapsed
(`Lapsed`): work whose outcome a death or a failed write left unrecorded until the
horizon, or a record past its retention. `Lapsed` and `Overdue` read ages and not the
guard `Free`, so that a claim that took a live or answered record would do the work
twice without an excuse.

### Access

An identity and its principal are one row, since they are only written together.
`Authenticate` and `Authorize` come once, at the read; the commits
(`RegisterCommit`, `IssueCommit`, `RevokeCommit`, `GrantCommit`) go by what was
read then and meet the unique keys. The initial state is the bootstrap credential.
No operation suspends, merges or updates an identity. Roles carry only the
permissions these commands ask for.

### Reputation

One subject; a reference names one signal. `RecordSignal` is the conditional
insert, `RetractRead` and `RetractCommit` the retraction. `DeriveStanding` is the
derivation, with its groups and rounding. Every report may arrive again and in
any order.

### Geography

`SearchRegion` and `InsertRegion` are the two halves of `addRegion`, which answers
with the region there is. A place is a point of a line and `Resolve` uses only
distance; the order of its matches is left out.

### Composition

The modules of `MCQueues` and of `MCCommands` share no row and no worker, so a
behaviour drives one of them (`queue`, `driven`) and leaves the others at their
initial state. Components that do share rows are composed within a module: the
bus, the inbox and the dispatcher with replay; fulfillment with its holds
and the payment API; billing with its holds.

## 3. Runs

| Run | Instance | Shows |
|---|---|---|
| `queues` | 2 workers in each queue, batches of 2, 3 tokens, lease 1, 2 attempts, 1 reclaim; 2 outbox events; 1 delivery, revived once; 1 event with a platform-wide recipient and one of another tenant | `HeldCopyIsCurrent`, `OneHolder`, `FanOutWithPublication`, `StopsSending`, `SendsAreBudgeted`; each queue implements `ExclusiveWork` (`WorkIsExclusive`, `DeliveryIsExclusive`, `NotificationIsExclusive`) |
| `queues_live` | the same with 1 row in each queue, 1 revival in the outbox, fair | `QTypeOK` with the budgets, `DeadHasSpentABudget`, `MessagedWithinBudget`, `EveryRowSettles`, `EveryDeliverySettles`, `EveryNotificationSettles` |
| `inbound_dispatch` | 1 event, 2 dispatchers, 1 replay, 1 consumer tried twice, 2 throws counted | `TypeOK`, `HandledOncePerThrow`, `ProcessedIsFinal`, `OnlyTheHolderCharges` |
| `inbound_dispatch_live` | 1 event, 2 dispatchers, 2 consumers, fair | `UndisturbedIsExactlyOnce`, `EveryEventSettles` |
| `commands` | 2 processes in each module: 1 hold of up to 2 units with 2 keys and the sweep; 1 agreement of 2 periods and 4 commands; 1 retry key, 2 different requests, 3 claims; 1 account, 3 identities, 2 tenants; 3 signals; 2 countries, 2 codes, 2 regions | money: `AggregatesAgree`, `ConsentIsACeiling`, `ReferenceMovesMoneyOnce`, `AggregatesOnlyGrow`; billing: `EntitledHasPaid`, `PeriodPaidOnce`, `UncontestedBillsAgree`, `CancellationStands`; retry: `KeyedWorkDoneOnce`, `ReplayAnswersItsRequest`; `OneIdentityPerAccount`; `ListenersAgree`; `CodeMeansOnePlace`; `CTypeOK` |
| `fulfillment` | 1 order, 1 hold of up to 2 units, 2 jobs, 2 handlers, 1 API call, 1 failing read | `TypeOK`, `OneClosureEach`, `MoneyFollowsExecution`, `CapturedIsPaid`, `PricedIsAdmissible`, `ClosureIsFinal` |

Why these bounds are enough for the interesting cases to happen:

- Two relays and two events in batches of two give a stale holder with a current
  one, and a batch that is half done when it is recovered. A third relay only
  repeats the role of one of the two. Three tokens are as good as an endless
  supply: a relay that claims holds none, the other relay's batch has one, and at
  most one other row carries another.
- Lease 1 with horizon 1 or 2 reaches a lease that has expired, one that has
  not, and a clock reading older than the lease.
- Two attempts and one reclaim put both budgets' boundaries within reach,
  together and separately. The code's defaults are larger and mean the same.
- One hold of two units allows partial captures, several refunds, and a capture
  that just exceeds the remainder. Two clients are enough for every lost update,
  and the sweep is a third writer.
- In `fulfillment` the API call is the third party to two racing handlers. A
  second order adds nothing to the races for one: orders share only
  the uniqueness of a job reference, and a hold if they name the same one.

- One delivery is enough for its two workers, the operator's revival and the
  switch of its subscription to meet. One recipient that must not be told is
  enough for the tenant scope.
- Four billing commands on one agreement reach subscribe, a failed or half-done
  collection, a cancellation or sweep that crosses it, and a retry. Two periods
  give a renewal.
- Two counted throws and one consumer give a slow dispatcher whose release removes
  another's inbox entry, and a retry that runs beside it: a third run with a single
  throw would be seen. `inbound_dispatch_live` and the two violation runs on this module
  count none, since their properties do not speak of throws.
- Three claims on one key are the first, a takeover and one more by the
  requester that was turned away; two fingerprints give a reused key.

`MaxRevivals`, `MaxRevivalsOf`, `MaxReplays`, `MaxDirect`, `MaxFaults`,
`MaxAmount`, `ThrownCap`, `EventCap`, `MaxCommands`, `MaxUsage`, `MaxPeriods`,
`MaxFunds` and `MaxClaims` are bounds of the model and not of the code. `commands`
allows a module to stop: when the bound is reached nothing is left to do.

Six more runs check a sentence of the documentation that the code does not
keep. Each ends in a counterexample.

| Run | The sentence | What happens |
|---|---|---|
| `processed_was_handled` | "This is at-least-once by construction" (`dispatcher.ts:39`), "Delivery is at-least-once" (`bus.ts:38`) | a crash between inbox claim and handler loses the event for that consumer |
| `one_worker_handles` | "exactly one insert wins, so exactly one worker handles the event" (`pg-inbox.ts:10`) | a retry does not look at the answer of its claim |
| `voided_hold` | "Re-capturing a voided hold is not possible" (`0017_execution_after_cancellation.sql:30`) | a capture that read the hold before the void writes over it |
| `holds_funded` | a hold larger than the wallet is refused (`docs/documented-conflicts.md:87`) | two authorizations read one balance |
| `execution_recorded` | "What it must not do is lose the question" (`fulfillment/service.ts:558`) | a late acceptance writes back a row without the marker |
| `capture_explained` | "A period that reads `settled` with no capture behind it, or a capture with no period explaining it, is the one thing a billing system may never produce" (`subscription/service.ts:419-422`) | a collection commits between a cancellation's read of the period (`:585`) and its commit, which voids the paid period |

`UncontestedBillsAgree` is the same sentence for histories without overlapping
commands, which do keep it, through crashes and retries.

Met while modelling, without a run of their own:

- `outbox.ts:65` says that `reclaims` is never reset, and revival resets it
  (`pg-outbox.ts:383`), as the comment at `outbox.ts:143` says.
- Two concurrent subscriptions of one owner to one plan both succeed: the look for
  an existing one (`subscription/service.ts:263`) is not repeated by any
  constraint.
- A charge that read the subscription before a cancellation writes its status back
  over it, and a renewal sweep goes on with the list it took
  (`service.ts:661-694`). `CancellationStands` names that step, the commit of a
  charge that read the agreement live and was overtaken, as the one way in which an
  ended agreement is live again, and holds of every other step and of every command
  that read it ended, overlapping or not.
- A cancellation at a moment that no period covers voids nothing: an unpaid
  period stays collectible (compare `service.ts:566-568`). After a crash between
  hold and settlement a cancellation leaves the hold to its expiry.
- Usage reported without `at` and retried after a period ended is recorded
  against the new period.
- A handler that throws after its first transaction releases its retry claim
  (`router.ts:742`), and a claim taken over after the horizon runs the command
  again while the first may still be at it. `KeyedWorkDoneOnce` allows one repeat for
  each of them.
- A handler's throw can cost two extra shares of work: its own retry, which runs
  whatever the inbox says (`bus.ts:105`), and the entry its release removes, which may
  be another publisher's (`bus.ts:101`). `HandledOncePerThrow` bounds what comes of it.
- A retraction that arrives before its rating finds nothing and is dropped; the
  rating, once it comes, stands.
- `delivery-http.ts:48-50` says that deliveries already queued stay queued when a
  subscription is switched off; the worker suppresses them as dead, and a revival
  is refused until the subscription is active again.
- `notification/service.ts:293-296` says that two workers cannot send the same
  message concurrently. A send that outlives its lease allows it;
  `MessagedWithinBudget` bounds how often.
- The loser of two concurrent registrations of one account, or of one region,
  gets the database's error and not the answer a later caller gets.
- The description of the activation route names a 409 for an active plan; the
  code answers 200.

### Fairness

`FairQSpec` assumes of each outgoing queue that time passes; that each worker's
loop polls again, which `src/server.ts:16` does for the relay with a timer that no
failure of a drain stops; that an item in hand is eventually sent, acknowledged or
failed unless the process dies; and that a worker gets its recovering and its
claiming statement issued once in a while (strong fairness), that is, it is not
killed at every single poll. Crashes are otherwise unbounded, and so is stalling:
time may pass any number of times between two steps. Nothing under `src/`
schedules the delivery worker and the notification dispatcher: they are
assumed to be polled as the relay is.

`EveryEventSettles` assumes the same of the inbound dispatchers, which nothing
under `src/` schedules either. Handlers
are assumed to return or to throw in the end, or their process to die. No
fairness is assumed of operators, clients or messages.

## 4. Proofs

The theorems hold for any sets of events, relays, clients, orders and so on, for
any budgets, delays, limits and amounts, and so without the bounds of section 3.
Every safety property of a passing run is stated by one, every action property,
and each of the three refinements.

| Module | Theorems | Properties proved |
|---|---|---|
| `OutboxRelayProofs` | `Typing`, `ExclusiveHolder`, `CurrentCopy`, `DeadLetters`, `AtomicFanOut`, `Exclusion` | `OneHolder`, `HeldCopyIsCurrent`, `DeadHasSpentABudget`, `FanOutWithPublication`, `WorkIsExclusive` |
| `QueueProofs` | `DTyping`, `BudgetedSends`, `LateSends`, `DeliveryExclusion` | `SendsAreBudgeted`, `StopsSending`, `DeliveryIsExclusive` |
| | `NTyping`, `BudgetedMessages`, `NotificationExclusion` | `MessagedWithinBudget`, `NotificationIsExclusive` |
| | `QTyping` | `QTypeOK` |
| `InboundDispatchProofs` | `Typing`, `Finality`, `HolderCharges`, `HandledPerThrow`, `ExactlyOnce` | `TypeOK`, `ProcessedIsFinal`, `OnlyTheHolderCharges`, `HandledOncePerThrow`, `UndisturbedIsExactlyOnce` |
| `MoneyProofs` | `Bookkeeping`, `Typing`, `NoDrift`, `Ceilings`, `OncePerReference`, `Growth` | `AggregatesAgree`, `ConsentIsACeiling`, `ReferenceMovesMoneyOnce`, `AggregatesOnlyGrow` |
| `FulfillmentProofs` | `Typing`, `Closures`, `Finality`, `Admissible`, `Paying`, `Following` | `TypeOK`, `OneClosureEach`, `ClosureIsFinal`, `PricedIsAdmissible`, `CapturedIsPaid`, `MoneyFollowsExecution` |
| `CommandProofs` | `BTyping`, `PaidOnce`, `Entitlement`, `Agreeing`, `Cancellation` | `PeriodPaidOnce`, `EntitledHasPaid`, `UncontestedBillsAgree`, `CancellationStands` |
| | `RTyping`, `KeyedOnce`, `Replays` | `KeyedWorkDoneOnce`, `ReplayAnswersItsRequest` |
| | `ATyping`, `OneIdentity`; `STyping`, `Listening`; `GTyping`, `OnePlace` | `OneIdentityPerAccount`, `ListenersAgree`, `CodeMeansOnePlace` |
| | `CTyping` | `CTypeOK` |

### The outgoing queues

The inductive invariant of the outbox is

    IInv == Shape /\ RowsOK /\ TokensApart /\ OneRecordPerItem
              /\ HeldCopyIsCurrent /\ FanOutWithPublication

`OneHolder` is not inductive by itself: a claim might issue a token that some
stalled relay still carries. `TokensApart` says that the records of two relays
never share a token, which holds because a claim's token is fresh for rows and
batches alike. `HeldCopyIsCurrent` then rests on every change of `attempts` also
taking the token away. `RowsOK` keeps the two budgets per row.

`Exclusion` maps a row's owner to the one relay whose batch carries the row's
token, or to "nobody". Each action of the relay is shown to be a step of the
abstract queue or a stutter: a claim gives rows that nobody owns to one owner, a
stale acknowledgement changes no owner, a crash leaves the row to a claim without a
worker. It needs `BatchOnlyInWork`, that a relay which polls has emptied its batch.

`DInv`, for deliveries, has the same parts and two reserves. `SendsReserved`
says that the POSTs made of a delivery, plus one for every worker that still has it
to send, are covered by what its attempts, its abandonments, its standing claim and
its revivals paid. The property alone is not inductive, because a POST charges
nothing: the charge is the claim, made before. `LateReserved` is the same for
a subscription that was switched off, where each worker owes at most one.

`NInv`, for notifications, has a reserve as well (`SendsCharged`), and
`RecordsCharged`: a dispatcher's record is of an attempt within the budget and, as
long as the row carries its token, of the row's present attempt. `QInv` puts the
three together for `QTyping`; the queue that a behaviour does not drive stutters.

### The inbound side

`IInv` says where each publisher is and what it then holds (`PlacesOK`), and that
a dispatcher's copy of the attempts is current while its token stands. From that
follow `Finality` and `HolderCharges`, each by cases on what a step may do to
one row (`RowMoves`). `ExactlyOnce` needs `CalmWhileQuiet`: as long as an event has
not failed, been abandoned or been replayed, the one dispatcher at work on it has
handled what it has passed, and what it has claimed in the inbox is handled or in
hand; a dispatcher whose acknowledgement threw after its write may still carry the
record of a row that is processed. It is false without the quietness, which is what
the runs `processed_was_handled` and `one_worker_handles` show.

`HandledPerThrow` asks for no quietness. Its invariant, `Tally`, counts shares: a
publisher in a handler or about to retry holds one, a publisher about to release holds
two, and an inbox entry that is absent is one more, for whoever inserts it. Runs and
shares together never exceed one plus the throws. A claim turns the absent entry into
the run it starts; a throw brings the two shares that a release spends, on the entry
it removes (whoever it belonged to) and on the retry; a crash only loses shares. That
is why the bound is one run per throw in spite of the unfenced release. The number of
publishers at one place is a cardinality, so dispatchers are assumed to be finitely
many.

### Money and sums

`Bookkeeping` is `IInv == TypeOK /\ CommandsFit /\ DueRowsExist /\ RowsSound /\
AggregatesAgree`. `CommandsFit` is needed because a command's copy of a row is
arbitrarily old: it says only that the row existed when it was read, which keeps a
stale write from inventing a hold. Nothing needs to be said of how old the copy is,
since the commit checks the written row against the ledger. `Growth` needs more:
that the ledger only gets entries, that a larger set of amounts has a larger
sum, and that a row written back has the amount of the row it overwrites
(`Matching`).

What a sum over any finite set is would be proved by induction on the set, and the
provers cannot use the library's induction theorems. `SettlementProofs` reaches it
by the least number principle: among the sets for which the claim fails there would
be one of least cardinality, and taking one element out of it contradicts that. So
`TotalWith`, `TotalOfUnion`, `TotalGrows` and `TotalByGroup` are proved for any
finite set, and with them the sums of ledger entries and the standing of a subject.

### Fulfillment

`FInv` says what a handler carries at each of its steps, so that what it prices is
what the constraint admits (`Admissible`), that a closed row it once read is still
that row (`Finality`), and that the events of an order are those of its status
(`Closures`). `MoneyInv`, on top of it, has two parts. `Paid` says that what a
handler or an API call has read of a hold is backed: captured holds stay captured,
staged movements are of holds that exist and have the amount read; with the ledger
it gives `Paying`. `Followed` says it of an order with a hold of its own that
nobody calls the API for (`Sole`): until the order closes the hold is untouched, and
each of its handlers carries exactly the movement that its closure will record.

`Following` is stated for a hold that one order declares. The attempt to prove it
without that condition fails, and rightly: nothing keeps two orders from declaring
one authorization (`fulfillment_authorization_idx`, in
`db/migrations/0004_fulfillment_lifecycle.sql:17`, is not unique), and then one
order's completion captures what the other still records as held.

### The other command modules

Each has an inductive invariant of its own.

- Billing's `BInv` separates what a command holds whoever writes meanwhile
  (`JobOK`: its price, and that what it is about to settle was captured) from
  what holds because nobody else writes (`AloneOK`). `PaidOnce` and `Entitlement`
  follow from the first, `Agreeing` from the second, and so does the half of
  `Cancellation` that says a charge revives nothing unless it was overtaken. `PlanFirst`
  is needed so that no command sees the price change: no command of a subscription
  starts before there is a plan, and a plan's price is never edited.
- The retry record's `RInv` has an exact count: the work was done as often as it
  was excused, plus one if the record stands for it (`WorkTally`). The inequality
  of the property is not inductive. What it rests on is `InTime`: a handler within the
  horizon still owns its record, which is as old as the handler has run. Nobody takes
  such a record, by the guard `Free` of the claim, so that the work is never done twice
  within the horizon.
- Access and Geography need that rows refer to rows that exist. In `OnePlace` the
  answers a caller got are regions that were inserted, and those never share a code
  in a country.
- Reputation's `SInv` ties each signal to its announcements; `Listening` then sums
  both over all signals and over the groups by kind.

`CTyping` puts them and `MoneyProofs` together as `MCCommands` does.

### What the proofs changed

- `MoneyFollowsExecution` has the condition on shared holds, see above.
- Guards of a `CASE` in `Billing` overlapped, which TLC does not notice: it takes
  the first. They are disjoint now (`AuthorizeCharge`).
- `Reputation` sums over sets with `SumOver`, without an operator that takes
  operators, so that its sums can be reasoned about. It says what it said.
- `RetryClaim` and `Access` state assumptions their instances already met: finite sets
  of servers, keys and claim tokens, and that granted roles are names of roles.

### Assumptions

They are the ASSUMEs of the modules, which TLC evaluates for its instances:
budgets, limits and times are naturals; the placeholders (`NoToken`, `NoRecord`,
`NoNotice`, ...) are not members of the sets they stand beside; each hold has a
wallet, and amounts are positive. No worker is called "nobody", the abstract owner
of an unclaimed row. `Dispatcher`, `Sender`, `Courier` and `Server` are finite, since
processes are counted; `Source` is finite, since sums are taken over it; `RetryKey` and
`ClaimToken` are finite, with more tokens than servers and keys together, so that a
fresh one always exists, as `randomUUID` provides. `Subscribers` is a
non-empty sequence. Granted roles are names of roles. Ratings are within 1..5.

### What stays with TLC

`EveryRowSettles`, `EveryDeliverySettles`, `EveryNotificationSettles` and
`EveryEventSettles` are liveness under weak and strong fairness. They rest on
ENABLED, which the prover does not reason about, and are checked by the runs
`queues_live` and `inbound_dispatch_live` on their instances. The six violation
runs are counterexamples and have nothing to prove. Properties are proved of each
component's own specification; the runs check them through `MCQueues` and
`MCCommands`, in which a component that is not driven stutters. Only the type
invariants are proved of the compositions themselves.

## 5. What is not modelled

- Event envelopes and normalization translate message fields; every model
  abstracts payloads. So it is with templates, rendering, signatures and bodies.
- Observability and audit read what the other components keep; nothing decides on
  their readings.
- The HTTP surface before and around a keyed write and the authentication of a
  caller: matching of paths, parsing of bodies and queries, headers.
- Of the rules by which the in-memory backend mirrors the schema, only those that
  decide whether a concurrent write commits; column shapes are left out.
- `dry_run` replay, which changes nothing, the scope filters and the cursor of a
  replay, the selection and the journal of a revival.
- The wiring of the process, but for the bootstrap credential and what it
  schedules.

Currencies, audit texts and metrics are abstracted everywhere.

## 6. Plan

1. Done: `LeaseRow`, `OutboxRelay`, `ExclusiveWork`, their runs and proofs.
2. Done: `InboundDispatch` with the bus, the inbox and replay.
3. Done: `Settlement`, `Money` and proofs; `Fulfillment`.
4. Done: `EventDelivery`, `NotificationQueue`, each an `ExclusiveWork`.
5. Done: `RetryClaim`, `Billing`, `Access`, `Reputation`, `Geography`.
6. Done: proofs of all safety and action properties of the passing runs, and of the
   three refinements.
7. Proofs to come: the components' invariants carried over to `QSpec` and `CSpec`;
   an abstract fulfillment, which opens and closes once with its money, implemented
   by `Fulfillment`; a sum invariant of the money of all holds of a
   wallet; the enabling conditions that the liveness arguments use, as predicates.
8. Perhaps two agreements in `Billing`, which would compete for one wallet.
