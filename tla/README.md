# A TLA+ development of lior-paris-wallet

The repository is a multi-currency wallet service: NestJS on MySQL (TypeORM),
Redis for a cache and for BullMQ queues, Stripe Checkout for deposits, SendGrid
for email. The modules here model what it does with money, with the events that
report it, and with the users who own it; TLC checks them on small instances,
and TLAPS proves every safety property and refinement of them for every
instance. Paths below
are relative to `src/src/` of the repository unless they start with `src/`.

1. [Inventory](#1-inventory): components, their state, operations and hazards
2. [Modules](#2-modules): which module models what, and how
3. [Runs](#3-runs): what TLC checks, with which bounds and fairness
4. [Proofs](#4-proofs): what TLAPS proves, from which assumptions, and how
5. [Divergences](#5-divergences): where code and documentation disagree
6. [Not modelled](#6-not-modelled)
7. [Plan](#7-plan)

## 1. Inventory

```
 client --HTTP--> transfers ----+                      +--> domain-events --> notifications --> SendGrid
 client --HTTP--> wallet -------+--> MySQL --> outbox -+      (BullMQ)         (BullMQ)
 Stripe --HTTP--> webhook ------+     |      publisher              ^              |
 client --HTTP--> auth, users --+   Redis cache                     +- dead-letter <+
                    |  UserRegistered (in memory)
                    +--> wallet listener
```

| Component | State it keeps | Operations | What it calls or shares | What is hard | What makes it correct |
|---|---|---|---|---|---|
| Transfers (`features/transfers`) | `transfer` rows, the wallets' balances, ledger entries, outbox rows | `initiateTransfer`, `executeTransfer` | wallet rows under row locks, the balance cache | concurrent requests, duplicates, lock order, failure between the row and its execution, a user deleted on the way | no lost update, nothing executed twice, both legs or none, no deadlock |
| Deposits and webhook (`features/wallet`) | `transaction` rows, balances, ledger, outbox | `deposit`, `settleByProviderRef`, `failByProviderRef`, `handleWebhook` | gateway, Stripe's events, the cache | session made but not recorded, events repeated, reordered, concurrent; crash in a handler | paid is credited once, only what is paid is credited, expired fails |
| Balance reads (`WalletService.getBalance`) | cached wallets, 60 s | read, fill, expire | filled from the database, deleted by transfers and settlements | a late fill overtakes the deletion | a stale balance has a known cause |
| Payment gateways (`features/payments`) | none | `resolve`, `processDeposit` | Stripe through the circuit breaker | session created after the breaker's timeout | part of deposits |
| Outbox publisher (`infrastructure/outbox`) | `outbox_event` rows, one flag per server | a cron call every 5 s: `publishPendingEvents` | adds jobs to `domain-events` | overlapping calls, several servers, failures between add and mark | nothing marked unpublished, nothing starved |
| Queues and notifications (`infrastructure/queue`, `features/notifications`) | jobs in three queues, attempts, `dlqCount` | `DomainEventsProcessor`, `NotificationsProcessor`, `onFailed`, `DeadLetterProcessor` | SendGrid, user rows for the addresses | retries of half-done jobs, stalled workers, rounds through the dead-letter queue | everyone is told, no job dropped or forked |
| Authentication (`features/auth`) | user rows | `register`, `login`, `changePassword`, `JwtStrategy.validate` | emits `UserRegistered` | registrations of one email at once | one user per email |
| Users (`features/users`) | user rows | `updateUserDetails`, `deleteUser`, policy | TypeORM's `save`; cascades to wallets | entity read, changed and saved while others write | rows change only as allowed |
| Wallet provisioning (`createWallet`, `ensureWallet`, `WalletEventListener`) | wallet rows | create on request or on the event | the unique index on user and currency | check and insert apart, event in memory only | one wallet per currency, each with its user |
| Admin seed script (`src/scripts/seed-admin.ts`) | user and wallet rows, from outside the server | look, promote or insert, add the wallet | TypeORM's `save` | no transaction around its two inserts; races the running server | one administrator under the email, and nobody else changed |
| Circuit breaker, HTTP layer, configuration | none of their own | | | | see section 6 |

The hazards of this code, at their lines and with the properties that watch
them, are the list `hazards` of `PROJECT.json`.

## 2. Modules

### Granularity

One action is what happens between two awaits: Node.js runs that part without
interruption, and every await is a point where other requests, other servers,
Stripe, BullMQ or the scheduler come in. What a method read before an await is
kept in its own variables and used as it was read. The writes of a database
transaction are one action, at the COMMIT, because nobody sees them before;
the `SELECT ... FOR UPDATE` that take row locks are actions of their own. A
request is a slot that moves through its method and is reused once it has
answered, so a run has any number of requests, and the number of slots bounds
only how many are handled at once. Actions whose name says *Fails* (or
`Fail`) stand for a call that throws, a lock wait that times out, a server that
stops, and a lost acknowledgement.

### The modules

| Module | Models | State and actions |
|---|---|---|
| `WalletStore` | the tables that transfers and deposits share | `users`, `live` wallets, `balance`, `lock` (row locks), `ledger`, `outbox`, `cache`; operators for taking and releasing locks; `DeleteUser` with its cascade |
| `Bank` | the abstract specification: movements and payments, each atomic, affordable and once per key | `funds`, `moved`, `paidIn`; `Move`, `PayIn` |
| `Transfers` | `TransfersService`, `TransfersRepository` | a program counter over the awaits of `initiateTransfer`; `Arrive`, `FindRecipient`, `FindExisting`, `FindSender`, `CreateTransfer`, `LockFirst`, `LockSecond`, the rejections, `Commit`, `Invalidate`, `Fail`, `RemoveUser` |
| `Deposits` | `WalletService.deposit`, the settle and fail paths, `StripeWebhookController`; sessions and event delivery of Stripe are external | request slots, handler slots, `session`, the events Stripe still has to deliver |
| `WalletSystem` | transfers and deposits on one store | instances `T` of `Transfers` and `D` of `Deposits` over the same `storeVars`; a step of the system is a step of one with the other's request variables unchanged |
| `BalanceReads` | `getBalance` and the cache, on top of `WalletSystem` (extends it; `SystemStep` is its `Next`) | reader slots; `Owed`, the wallets a writer is about to invalidate; `tainted`, a history variable: wallets whose cached value lost its deletion |
| `Outbox` | `OutboxPublisher`, `OutboxService` | `created`, `retry_count`, `processed`, `jobs`, the flag `processing`, calls and their `batch` |
| `Notifications` | both processors, `onFailed`, the dead-letter processor; BullMQ and SendGrid are external | the state of each domain-events job; a bag of notification jobs and dead letters, each with its attempts, its rounds and whether it has stalled; tallies of what happened to them |
| `Pipeline` | outbox and queues composed | instances `O` of `Outbox` and `N` of `Notifications`; the step of `O` that adds the i-th job for row `e` is the step `Publish(<<e, i>>)` of `N` |
| `Accounts` | registration, the wallet listener, `createWallet`, updates, password changes, deletions, the admin seed script; TypeORM's `save` is external | the user table, number of wallets per user and currency, request slots with the entity they read, listeners; `overtaken`, a history variable |
| `..._proofs` | the theorems about a module (section 4); `WalletStore_proofs` holds the lemmas on the store that transfers and deposits share, `WalletSystem_proofs` also the theorems about `BalanceReads` | |
| `MC...` | values of the constants for TLC | |

`Transfers` and `Deposits` each extend `WalletStore` and each implement `Bank`
under a refinement mapping: `funds` is the balance column, a movement is a
`transfer` row whose status is COMPLETED, a payment a `transaction` row whose
status is COMPLETED. `Bank` is the contract between them; that transfers create
and destroy no money is read off its `Move`. `WalletSystem` implements it with
both mappings at once, which is the statement that neither component disturbs
the other.

How the pieces compose:

```
 Bank <-- implemented by -- Transfers, Deposits, WalletSystem
 WalletStore <-- EXTENDS -- Transfers, Deposits
 WalletSystem: T == INSTANCE Transfers, D == INSTANCE Deposits   <-- EXTENDS -- BalanceReads
 Pipeline: O == INSTANCE Outbox, N == INSTANCE Notifications

 WalletStore_proofs <-- EXTENDS -- Transfers_proofs, Deposits_proofs
 WalletSystem_proofs: TP == INSTANCE Transfers_proofs, DP == INSTANCE Deposits_proofs
 Pipeline_proofs: OP == INSTANCE Outbox_proofs, NP == INSTANCE Notifications_proofs
```

Choices a reader should know:

- **Idempotency keys.** Deposits book under the client's key, transfers under
  `${key}:out` and `${key}:in`, in one unique index. Keys are sequences so that
  the suffixes are what they are in the code; the transfer run has a key whose
  `:out` entry a deposit already took, and `wallet_system` has a deposit under
  `k1:out` racing the transfer `k1`.
- **Locks.** `executeTransfer` locks both wallets in the order of their ids,
  `settleTransaction` one. A request that waits is one whose lock action is not
  enabled. Ids are numbers here, with their order.
- **A retried transfer.** `failTransfer` exists in the repository but nothing
  calls it; it is no action, and no `transfer` row is ever FAILED.
- **Only Stripe.** The branches of `deposit` for a gateway that declines, or
  that settles at once, cannot be taken with the only registered gateway and
  are left out.
- **Payments that clear later.** `DelayedMethods` says whether the Stripe
  account offers them. Session creation names no `payment_method_types`, so
  that is up to the account.
- **TypeORM's save** selects the row again, and updates the columns in which
  the entity differs, or inserts the entity if the row is gone; the three
  statements are three actions.
- **BullMQ** runs a job again when its worker stopped over it, and fails it the
  second time, whatever attempts it has left (`maxStalledCount` is 1 by default
  and no queue sets it). Whether that failure counts as an attempt differs
  between its releases; `SendStallsAgain` allows both, and the guard of
  `onFailed` decides whether a dead letter is written. A dead letter and a job
  of `domain-events` that stall twice end the same way (`ReprocessStallsAgain`,
  `Stall`). How often workers stop is not limited in the model, only in the
  runs. A failed `add` may have taken effect. The listener `onFailed` runs once
  per failed attempt and is not repeated.
- **Limits as constants.** `MAX_RETRIES` (5 in the code), `ATTEMPTS` (3),
  `MAX_DLQ_REPROCESS` (3), `Limit` (50) are constants: the runs take smaller
  values where the counting is the same.
- **The seed script** is one more request slot in `Accounts`. `caller` is the
  administrator it is making, so `ChangesAreAuthorised` judges it as such. It
  finds an administrator made by an earlier run and returns, also when that run
  stopped before it had made the wallet.
- **Not distinguished:** an event whose payload has no address (`userEmail` is
  undefined when the user is gone), which `send` logs instead of mailing, from
  one that is mailed; a cache deletion that is carried out but whose answer
  is lost; the user's name and email, beyond uniqueness; what `Accounts`
  requests are answered; the random wallet tag, whose collision is one more
  reason for a failed insert.

## 3. Runs

`tlc -workers 2 -config X.cfg M`. Every bound is a constant of the cfg.

| Run | Instance | Shows |
|---|---|---|
| `transfers` (`Transfers.cfg`) | 2 slots, 3 users, 4 wallets in 2 currencies, amounts 1..2, 7 inputs, one user may be deleted, any call may fail; 80 000 states | the ledger explains every balance, nobody is overdrawn, nothing booked or executed twice, transactions compute with current rows, both legs or none, no circle of waiting, rows never go back, `Bank` is implemented, every request is answered |
| `transfers_duplicate` | the same | violation, section 5 |
| `deposits` (`Deposits.cfg`) | 2 requests, 2 handlers, 2 sessions, two keys into one wallet, repeated and reordered events, payments that clear later; 227 000 states | every URL handed out can be found by the webhook, one settlement per payment, only what is paid is credited, rows never go back, the key of a request that failed half-way stays dead, `Bank` implemented |
| `deposits_liveness` | 2 handlers, 1 session, card payments only; also an unknown method, a wallet that does not exist and the deletion of the user | paid is credited, expired fails |
| `deposits_delayed` | 1 handler, 1 session, payments that clear later | violation, section 5 |
| `wallet_system` | a transfer into the wallet deposits go to, two deposits (one under the key of the transfer's debit entry), 1 handler, 1 reader, the receiver may be deleted; 344 000 states | the ledger reconciles with `transfer`, `transaction` and the outbox, a stale cached balance has one of two causes: a deletion pending or failed, or a fill that came late; `Bank` implemented by both together |
| `outbox` | 2 events, 2 servers, 3 calls (two overlap), batch of 1, 3 retries, 5 faults; 195 000 states | nothing marked unpublished, the flag guards one call, duplicates within their causes, every event published or out of retries |
| `notifications` | one transfer job with two mails, 2 attempts, 1 round, 2 stops, 3 faults; 542 000 states | everyone is told, each notification in one place, attempts and rounds add up, everyone mailed unless the job was failed or the notification given up or lost |
| `notifications_unstored` | one deposit job, the code's limits, 3 faults | violation, section 5 |
| `pipeline` | 1 event, 1 server with 2 overlapping calls, 2 jobs at most, 2 attempts, 1 publisher fault, 1 worker fault, 2 stops; 398 000 states | fewer failures and stops than the retries of a component lose no email, every further email has a cause |
| `accounts` | an administrator, a customer, a newcomer who registers or is seeded, 2 slots, 8 inputs; 428 000 states | rows unique and wallets owned, rows change only as allowed, the default wallet appears |
| `accounts_roles` | two inputs | violation, section 5 |

**Why these bounds.** Two slots give every pairwise interleaving, which is
where lost updates, double execution and the race of check and insert live;
longer circles of waiting need three requests or more and are covered by the
theorem `NoDeadlockHolds` for any number; so is every other safety property by
its theorem. Amounts 1..2 with openings 0..2 put
transfers on both sides of the balance check and exactly on it. The batch of
one is smaller than the table, so older rows stand in front of newer ones. Five
faults are more than the three retries of a row, so a row is given up while
others are still tried. In `notifications` three faults are more than the two
attempts of one round and reach into the second one, and two stops fail a job, a
notification or a dead letter for stalling twice; together they reach every
exception of `PublishedIsMailed`. In `pipeline` the faults on both sides stay
below what `SavedIsMailed` excepts, and two stops are where its last exception
begins: one stop with a fault on either side has no excuse. `wallet_system` has
one slot of each kind, because each component's own run already has two: what is
new there is one of each against the others. Every property was also seen to fail when one
definition is changed as a plausible bug would change it: the operators just
above the definition (`TransferKeyFreeAlways`, `SenderFirst`,
`SwallowsTheError`, ...) are those changes, and `mutants` in `PROJECT.json`
pairs them with properties. They are in no next-state relation.

**Symmetry** of request, handler and session slots is used only in runs without
temporal properties beyond action and refinement properties.

**Deadlock** is checked everywhere except where the system really may stop: in
the `Deposits` runs whose only user may be deleted or whose keys and sessions
(each used once) run out with everything delivered, and in `Notifications`
when all jobs have ended.

**Fairness.**
- `Transfers`: weak fairness of every step of a request's own code (Node.js
  runs what is pending), strong fairness of taking a lock: InnoDB grants a row
  lock in the order of requests, so a waiter whose lock is released again and
  again gets it. Failures are never required to happen, and never required to
  stop.
- `Deposits`: Stripe delivers an event again until it is acknowledged, and a
  handler's steps go on. Strong fairness of the successful steps says that
  failures do not hit every single delivery, which is the assumption under
  which redelivery means anything.
- `Outbox`: weak fairness of the scheduler starting calls on each server and
  of a running call. Faults are bounded, so calls succeed in the end.
- `Notifications`: weak fairness of workers; every step ends an attempt or a
  round and faults are finitely many, so no job is passed over for ever.
- `Pipeline`: the fairness of its two components.
- `Accounts`: weak fairness of a pending listener and of the script's last
  step, to success or failure.

## 4. Proofs

Every safety invariant, action property and refinement that a passing run
checks is a theorem: TLC shows it on the instance of section 3, TLAPS for every
value of the constants. Each proof module extends the module it is about; the
two about compositions take the components' proof modules as instances.

| Module | Theorems (`Spec => ...`) |
|---|---|
| `WalletStore_proofs` | no theorems: the lemmas on locks, ledger and types that the next three share |
| `Transfers_proofs` | `Types`, `OneExecutorHolds`, `ReadsCurrentHolds`, `AuditTrailHolds`, `NeverOverdrawnHolds`, `BookedOnceHolds`, `DoubleEntryHolds`, `NoDeadlockHolds`, `TransferRowsStayHolds`, `TransfersImplementBank` |
| `Deposits_proofs` | `Types`, `SettledOnceHolds`, `CreditIsPaidHolds`, `UrlIsTraceableHolds`, `TransactionsStayHolds`, `DeadKeysStayHolds`, `StoreBooksHold` (trail, overdraft and unique keys for settlements), `DepositsImplementBank` |
| `WalletSystem_proofs` | `SystemTypes`, `ReconcilesHolds`, `SystemImplementsBank`; of `BalanceReads`: `ReadsTypes`, `StaleHasCauseHolds` |
| `Outbox_proofs` | `Types`, `FlagGuardsOneCallHolds`, `ProcessedIsPublishedHolds`, `DuplicatesHaveCauseHolds` |
| `Notifications_proofs` | `Types`, `EveryoneIsToldHolds`, `InOnePlaceHolds`, `AttemptsAreCountedHolds` |
| `Pipeline_proofs` | `MailsHaveCauseHolds` |
| `Accounts_proofs` | `Types`, `RowsAreUniqueHolds`, `ChangesAreAuthorisedHolds` |

Each theorem `XHolds` states the property `X`; a comment above it says what it
means for the code.

### Assumptions

They are the named `ASSUME`s of the modules, evaluated by TLC on every run.
Most say what kind of thing a constant is: inputs are what the schemas let
through, amounts are positive (`@Min(1)`), a user has one wallet per currency
(the unique index), limits are natural numbers and positive where the code's
are. The rest, and why the code justifies them:

- `Null` (SQL's NULL, or a local variable without a value) is no row, id, key,
  number or connection: `NullAssumption`, `NullTransferAssumption`,
  `RowsAssumption`, and `ComponentsAssumption` for both components together.
- The request slots of transfers and the slots of deposits are different
  connections (`ConnectionsAssumption`): a row lock belongs to one of them.
- Wallets, outbox rows and servers are finitely many (`WalletAssumption`,
  `EventsAssumption`, `ServersAssumption`; `PublisherAssumption` in `Pipeline`).
  Requests, users, keys, sessions, handlers, calls and jobs may be infinitely
  many.
- Failures and worker stops are not limited: `MaxFaults` and `MaxStops` are any
  natural numbers.
- No email is in two rows at the start (`SeedAssumption`), as the unique index
  demands.

### The arguments

None of the invariants is inductive alone. What was added, and why:

**Transfers.** Three layers, each proved with the one before it as a
hypothesis. `Control` is `TypeOK`, `LocalsOK` (what a request's variables hold
at each step of its method) and `OneExecutor`; `LocalsOK` is needed because a
commit uses values read five awaits earlier. `Isolation` is `LocksOK` (who
holds which lock at which step) and `ReadsCurrent`: a row in a request's
variables is current because its lock is held, and only the holder writes it.
`Books` is `AuditTrail`, `NeverOverdrawn`, `BookedOnce`, `DoubleEntry`; only
`Commit` changes the books, and `CommitBooks` shows that it changes all four
together. `NoDeadlockHolds` follows from `LocksOK` without an induction: a
request that waits holds the lower of its two wallets, so waiting goes up in
the order of ids. In the refinement a commit is a `Move`, the rest stutters.

**Deposits.** The same layers. `Control` adds to the types: one request
executes a key (`OneExecutor`), a session belongs to one request and is unknown
to any row before the UPDATE of `provider_ref` (`RequestsOK`, `SessionsOK`),
the events Stripe has sent say what is true of their sessions and stay true
(`EventsOK`), a status has its event behind it (`StatusOK`), and a handler's
row is the one of its event (`HandlersOK`). `CreditIsPaid` and `UrlIsTraceable`
follow from these. `Isolation` is one lock per handler and the balance under
it. `Books` adds `Settled`: a COMPLETED row has its entry and its event, and
every entry of type DEPOSIT belongs to such a row. `Settle` is the only step
that changes the books, and nothing re-reads the status before it: what stops a
second settlement is the ledger's unique key, which is taken exactly when the
row is COMPLETED. That no late expiry takes a COMPLETED row back follows from
`EventsOK` and `StatusOK`: the session was paid, so no expiry was sent.

**Both on one store.** `SystemInvariant` is the two components' invariants and
`EntryKinds` (every ledger entry is of a transfer or of a deposit). A step of
one keeps its own half by its own theorems; the other half is kept because of
what the step leaves alone, stated once in `WalletStore_proofs`: `LeavesRowsOf`
(it changes no row that another connection has locked), `AddsOnly` (it appends
ledger entries of its own kind), `EventsStay` (it saves no event of the other's
name). `Reconciles` follows: each half explains the entries of its kind, there
is no third kind, and unique keys leave no entry to both. The combined
refinement takes a `Move` from one half and a `PayIn` from the other. Lemmas
named `Same...` say that the instances `T` and `D` of the model and `TP` and
`DP` of the proofs define the same actions.

**Balance reads.** Readers write only the cache, which nobody else reads
(`CacheIsApart`), so `SystemInvariant` holds beside them. `WritersOwe`: every
step that changes a balance puts the wallet among those whose cached value is
still to be deleted, and a step that takes it off that list deletes it, or
records the failure in `tainted`.

**Outbox.** `Ordered`: no two rows were created at once, so with a batch the
oldest row is one row. `Runs`: at most one call per server is active and the
flag tells. `Published`: the row a call is about to mark has a job.
`JobsCounted`: until a row is marked, each job of it was added by a call still
at it (`Added`, at most one per server) or by one that failed; from then on the
calls that still have it in an old batch (`Pending`) are the only ones that can
add another.

**Notifications.** `JobsOK` relates a job's state to what it has still to add.
`Parts` relates each notification job to the tally of its email: rounds and
attempts are the refusals (`Notified`), and there is one such job as long as
nothing forked it (`Single`). A step with a notification moves it on or ends it
(`MovesOn`), makes a new one (`Joins`), or forks it, which only a dead letter
whose worker stops after the add does (`Forks`); a job failed for stalling twice
is one of the first. `Places` counts jobs in all queues: their number
is what was made less what ended; the counting is by the cardinality of the set
of copies, because a sum over a bag is a fold, about which the provers know
nothing. A last section, for the pipeline, shows `AllCovered`: for every finite
set of jobs, emails sent and emails that may still be sent are at most the jobs
published plus failures plus stops.

**Pipeline.** Seen through its publisher's variables, a behaviour of the
pipeline is one of `Outbox`, and through its workers' one of `Notifications`
(`PublisherBehaves`, `WorkersBehave`), so the theorems of both apply to it. The
jobs of a row that exist are those that were added (`OnlyAdded`), at most one
for each server and publisher failure; `AllCovered` for that set gives the
rest.

**Accounts.** `Control` says what a request holds at each await, among it that
its caller is a user that existed. `EmailsOK`: a save keeps the email of the
row it was read from, and requests that save the same user have the same one,
so only inserts bring an email in, and there the unique index refuses what the
earlier look missed. Of wallets the index allows one per currency, and the
cascade of a deletion none (`WalletsUnique`). `PolicyOK`: what the policy let
through is still allowed at the write, because it depends on the caller and the
input, which no other request changes. `NotOvertaken`: unless another write of
the same row came in between, the entity differs from the row only in columns
its client sent and may change.

### Only model-checked

The liveness properties `Answered`, `PaidIsCredited`, `ExpiredFails`,
`SavedIsPublished`, `PublishedIsMailed`, `SavedIsMailed` and
`RegisteredHasWallet`: liveness under fairness and `ENABLED` are beyond the
prover. The properties of section 5 are false, and TLC shows the behaviours.

## 5. Divergences

- `transfers_duplicate`: a transfer that failed after its row was inserted
  answers 202 to every retry with its key, and is never executed
  (`src/README.md:70` promises the existing result). Deposits have the same
  shape: a duplicate is answered without the URL, even when there never was one.
- `deposits_delayed`: a payment that clears after the session completed is
  reported by an event type the webhook ignores, and is never credited.
- `notifications_unstored`: a domain-events job out of attempts leaves no dead
  letter (`src/README.md:542` says permanently failed jobs are stored).
- `accounts_roles`: a user's own update, saved from an entity read before an
  administrator changed the role, writes the old role back
  (`src/README.md:583-586` reserves roles to administrators).

Seen in the same reading and stated as the exception in a property, or allowed
by one, instead of a run:

- An outbox row that failed `MAX_RETRIES` times is never delivered, although
  `src/README.md:68` speaks of at-least-once delivery (`SavedIsPublished`).
- A notification that BullMQ fails for stalling twice has attempts left, so the
  guard of `onFailed` writes no dead letter (`PublishedIsMailed`).
- A deposit under the key of a transfer's debit entry is refused by the ledger's
  unique key at every delivery: paid, and never credited (`Reconciles` allows
  the row to stay PENDING).
- A save overtaken by a deletion inserts the user again
  (`ChangesAreAuthorised`); a listener or a seed script that fails leaves a user
  without the default wallet (`RegisteredHasWallet`).
- A late fill or a failed deletion leaves a stale balance in the cache for its
  60 s (`StaleHasCause`).

## 6. Not modelled

- **Circuit breaker**: a wrapper of the library opossum. Its effect on a
  deposit, an error at once or after ten seconds while the call goes on, is in
  `Deposits`: an open breaker is a request that fails, which may happen at any
  time there, so a model of its states would only restrict the behaviours
  already checked, by a library whose half-open logic is not in the repository.
- **HTTP layer** (pipes, the role guard of the two read routes, filters,
  JSON:API formatting), **reads** (lists and profiles), **login**: no state
  changes.
- **Amounts as 64-bit columns**: TypeORM returns a bigint as a string, the code
  converts it with `Number`, which is exact up to 2^53. The schemas set no upper
  bound on an amount, so the limit can be reached; amounts are unbounded
  integers here, and the theorems say nothing of rounding.
- **Configuration, logging, migrations, email templates**: no state that
  changes while the program runs.
- **Two password changes at once** are in `Accounts` (both may verify the same
  old password and succeed); the repository states nothing they contradict, so
  no property forbids them.

## 7. Plan

Done in this order: `WalletStore`, `Bank`, `Transfers` and its proofs,
`Deposits`, `Outbox`, `Notifications`, `Accounts`, then the compositions
`WalletSystem`, `BalanceReads` and `Pipeline`, and the seed script; then the
proofs of all of them.

Next:

1. State in the vocabulary of `WalletSystem` what follows from its invariant for
   both components at once: that nobody is overdrawn and no balance is lost
   track of, that each executor is alone, and that transfers never wait in a
   circle when settlements lock the same wallets.
2. Carry `EveryoneIsTold` and `InOnePlace` over to `Pipeline`.
3. Shorten the long proofs of `Deposits` and `Notifications` where their lemmas
   overlap.
