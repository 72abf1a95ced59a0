# SinarPay Gateway: specifications, model checking and proofs

This directory holds the TLA+ specifications of the SinarPay payment gateway
(`apps/backend`, NestJS over PostgreSQL, Redis and BullMQ; `apps/frontend`, a
Next.js dashboard). Every definition is translated from the TypeScript source;
`PROJECT.json` ("map") gives the lines of each. The prose of `ARCHITECTURE.md`
describes a larger system (Kafka, MongoDB, a bank adapter) than the code; it is used
only as a source of claims to test the code against.

## 1. The system

| Component | State | Operations | Talks to |
|---|---|---|---|
| Transaction state machine (`transaction-state-machine.ts`) | none | `normalizeTransactionStatus`, `isValidTransition` | everything that writes a status |
| Transaction State Engine (`transactions.service.ts`, `callbacks.service.ts`) | `transactions.status`, `transaction_histories` | `transitionStatus`; its callers: bank callback, simulated payment, refund, five-second cron, the sweep in front of each dashboard read, reconciliation | webhook delivery, database |
| Payment creation (`createTransaction`, `idempotency.service.ts`) | `transactions` row, Redis `idempotency:<merchant>:<key>` | `POST /payments` | merchant's client (retries), Redis, database |
| Webhook delivery (`webhooks.service.ts`, `webhooks-queue.service.ts`, `webhooks.processor.service.ts`) | `webhook_deliveries`, BullMQ jobs | `sendWebhook`, `process`, the `failed` handler | merchant's endpoint, breaker, dead letter queue |
| Circuit breaker | in-process map merchant → breaker | `canAttempt`, `recordSuccess`, `recordFailure` | processor |
| Dead letter queue | Redis `dlq:webhook:<delivery>` | `put`, `get`, `fromDelivery`, `replay` | processor, operators, queue |
| Reconciliation | `reconciliations`, `audit_logs` | daily run, report | engine, settlement simulator |
| Merchant settings and API keys (`transactions.service.ts`, `api-key.guard.ts`, `lib/api/settings.ts`) | `merchants`, the browser's `localStorage` | the guard, list, regenerate, profile, webhook URL, webhook test | every merchant request |
| Accounts (`auth.service.ts`) | `users` | login, `updateCurrentUser` | the Next.js routes |
| Audit log | `audit_logs` | interceptor, `logAction` | requests, reconciliation |
| Payment generator (frontend) | the zustand store, the component's state, its timeouts | submit, simulate, countdown, clear, navigation | payment creation, the simulated bank callback |
| Dashboard session (`proxy.ts`, the routes under `app/api`, the profile page) | cookies of all tabs, the cached login profile | redirects, login, logout, save of the profile | accounts, settings |
| Dashboard views (transactions page, detail dialog) | the zustand store, the query cache | filter, pages, search, detail, refund | the engine, the queries behind it |
| Queries (`transactions.service.ts`) | none | search, detail, analytics, trend | database, the sweep |
| Scripts (`start-local.js`, `stop-local.js`, the database scripts) | processes, containers, tables, the generated client | start, stop, generate, cleanup, push, seed | everything |

What is hard about it:

* **Everything awaits.** No handler opens a database transaction. Between two awaited
  calls any other handler may run, so a status that was checked can be another one when
  it is overwritten, and a sequence of writes can stop after any of them.
* **The same thing happens twice.** Merchants retry requests, the bank repeats
  callbacks, BullMQ repeats attempts, operators replay, the cron and every read sweep.
* **Several places hold one fact**: row and history, row and cache, job and delivery
  row, delivery row and dead-letter record, settlement file and row.
* **Callbacks fire into a later state**: a browser timeout or the answer of a simulation
  is applied to whatever the view shows by then.
* **Tabs share cookies and nothing else**: a page acts with the session another tab left.
* **Scripts share a machine**: two starts and a stop work on the same processes, tables
  and containers, each knowing only its own progress.
* **Any call can be rejected** while the process stays up, and a rejected write may have
  been made: a webhook that was acknowledged is then attempted again.
* **Process memory is lost on restart**: the breaker, a handler in flight, the
  dead-letter write that nobody awaits.

What makes each part correct, in short: a status only follows the table, is final once
final, and its history is true and complete; a refund needs a payment; the bank's
outcome reaches the merchant's queue; an idempotency key stands for one transaction and
its answers are true; a webhook is delivered or buried and only lost in ways that are
known; a breaker that is open stays quiet and limits what a failing merchant is sent; a run of the reconciliation corrects each transaction at most
once and its report says what it saw; the payment form never charges twice, never uses a
key again after a success, and its view never gets stuck; a regenerated key reaches the
browser that asked for it, and what was changed is audited; an e-mail has one account and
a save changes the account its user saw; a list is one the table really held; a backend
that serves has everything prepared, whoever starts and stops around it.

## 2. The modules

| Module | Models | Extends / instantiates |
|---|---|---|
| `TransactionStateMachine` | statuses, aliases, table | |
| `TransactionLifecycle` | abstract: what others may rely on about a status | `TransactionStateMachine` |
| `TransactionEngine` | `transitionStatus` and all its callers, one action per database call | instantiates `TransactionLifecycle` |
| `IdempotentCreation` | abstract: a slot is bound once, answers name its transaction | |
| `CreatePayment` | `createTransaction`, cache, unique index | instantiates `IdempotentCreation` |
| `CircuitBreaker` | one breaker as a value, methods as operators | |
| `WebhookDelivery` | queue, processor, dead letter queue, replay, restart | extends `CircuitBreaker` |
| `Reconciliation` | the daily run against a moving table | extends `TransactionStateMachine` |
| `PaymentGenerator` | the browser's payment form, result view, timers and store | instantiates `IdempotentCreation` as its server |
| `MerchantSettings` | merchants, API keys, guard and handlers, audit entries, the settings pages of a browser | |
| `LocalLauncher` | start and stop scripts, the database preparation, the backend's processes | extends `MerchantSettings`, whose backend it starts and kills |
| `DashboardSession` | accounts, cookies, login, logout, the profile page with its two calls | |
| `TransactionsView` | search and detail queries, the transactions page, the refund dialog | extends `TransactionStateMachine` |
| `MC*` | model values and symmetry sets for TLC | the module of the same name |
| `*Proofs` | theorems | the module of the same name; `LocalLauncherProofs` also holds those about `MerchantSettings` |

### TransactionEngine

A worker is a handler in flight, its `job` a record of where it stands. `pc` names the
next awaited call of the handler: `scan` and `next` are the sweep's `findMany` and loop,
`find`, `update` and `history` the three calls of `transitionStatus`, `row` and `enqueue`
the two of `sendWebhook`. A refused transition is `Refuse`: the exception leaves the
loop and the handler, and the caller gets its answer from `pc = "rejected"`. `ret` is
the handler's place to go on at after the transition; a refund goes on at `scan`,
because `refundTransaction` answers through `getTransactionDetail`, which sweeps first.
`Abort` is a failing call or the end of the process: the handler stops and nothing is
undone. `held` and `raced` are auxiliary: what statuses a row has had, and on which
transactions two handlers stood between their read and their write at the same time.

Abstracted: amounts, currencies, times other than "the minute is over", the QRIS string,
the merchant's ownership of the row (a 404 or 403 precedes every write), and the read of
the row between a callback's transition and its webhook (the row cannot be deleted).
The creation of a row is only its insert and its first history entry here; `CreatePayment`
has the rest. Which rows a reconciliation tries to correct is left open here;
`Reconciliation` has the file.

### CreatePayment

A handler passes `get` (Redis), `lookup` (unique pair), `insert`, `qris` (second write),
`store` (Redis) and `reply`. `insert` refuses a pair the table already has; nobody
catches that error, which is `conflict`. A response carries whether the QRIS string is
there and whether it calls the transaction pending, the two facts that can be wrong. The
history write between `qris` and `store` is the engine's. The cache can lose an entry at
any time (its 24 hours are over, or Redis lost it).

### WebhookDelivery

BullMQ is external and modelled from its use: a job has up to `Attempts` attempts, waits
between them, raises `failed` after each, and an active job of a dead process is handed
out again. `Load` joins the row's read with the URL test and `canAttempt`, which run
without an await between them; `Fetch` joins the POST with the reading of its body and
the breaker's update. Outcomes are the classes the processor distinguishes: 2xx, 4xx,
anything else that was answered ("5xx"), no answer, and an answer whose body fails. The
clock is abstracted to "the cooldown is running" (`cooling`). `burying` is the dead-letter
write the `failed` handler starts and nobody awaits. A signing error is not modelled
(it would need a merchant whose stored secret cannot be decrypted).

Every call that the services await can be rejected while the process is up (`Rejected`):
`Queue.add` in `sendWebhook` and in `replay`, the read and each row update of `process`,
its dead-letter write, the deletion of `replay`. A rejected write may have been made all the
same. A rejection leaves `process` with an exception, so that BullMQ attempts the job again,
whatever the merchant had said; a rejected `Queue.add` of `sendWebhook` leaves a PENDING row
that nobody comes back to. The unawaited dead-letter write has no handler for its rejection,
which ends the process: it is a `Restart` before the write. BullMQ's own bookkeeping (moving
a job from one state to another) is assumed to work while the process is up, and to hand out
again the jobs of a stopped one; it allows each job one such stall, so the model is exact for
one restart.

Four auxiliary variables count what went wrong, so that the properties can say how much
follows from it: `acks` (POSTs that `process` saw answered 2xx), `lapses` (ends of a delivery
that could not be recorded), `lost` (webhooks nobody pursues any more, each with its
cause), `strain` (POSTs that failed since the merchant last answered, its breaker last
finished cooling, or the last restart).

### Reconciliation

A run reads the settlement file, reads the rows, and goes through the rows one by one:
compare, and for a mismatch the bank calls paid, the three calls of `transitionStatus`
and the audit entry; then the upsert of the report. The file comes from the same table
(`SettlementSimulatorService`): its first line is always SUCCESS. Meanwhile transactions
are created, age out of the 24 hours, and are settled by other handlers, whose
transition is split at its read and its write, so that it can overlap the run's. Runs
do not overlap each other: only the daily schedule starts one.

### PaymentGenerator

`request` is the store's `isSubmitting` together with the key `createPayment` awaits an
answer for. The page can be left and opened again (`mount` counts): the component's
state starts anew, while the store, the timeouts and the calls in flight go on; `setState`
of a component that is gone does nothing, but its timeout still empties the store's
result. A reload loses everything in the browser and nothing that was sent. The server
is the abstract specification that `CreatePayment` is proved to implement: `Serve` is its
`Bind`, `Succeed` its `Tell`. So what is shown here of the form rests on that promise and
not on details of the server. A failed attempt leaves its request lost, served, or still
to be served. Amounts and drafts are left out: what a key reused with another amount
gets is a property of `CreatePayment` (`ResponsesTrue`).

### MerchantSettings

`request` is one HTTP request of a settings page from `Send` to its end. `Guard` is
`ApiKeyGuard` (the merchant with the key, if active), and a second, later action is the
handler: `regenerateMerchantApiKey` replaces whatever key the row has by then, and
refuses an id that is not the guard's merchant. `Deliver` is what the page does with an
answer: a regenerated key goes into `localStorage` (`stored`), a list into the page's
state (`shown`), which is where the next regeneration takes its id from. A browser that
has stored nothing uses the built-in demo key (`getMerchantApiKey`). `auditing` holds
the inserts of the interceptor that nobody awaits; `Stop` takes them along
(`unaudited`). `SeedMerchant` is the upsert of `seed-admin.js`, keyed by the demo key:
after a regeneration it creates a second merchant. Names and URLs are "seeded"/"none"
or "own"; the secret, encrypted and shown once, is left out.

### LocalLauncher

`step` is where a run of `start-local.js` stands, and after `Spawn` where its
`npm run dev` does: a start ends in `running`, `broken` (the watcher waits, the backend is
down), `ended` or `failed`, with the reason in `cause`. The database scripts are one
action each, because each is one process that ends or goes on; kills
(`ClearProjectNodeProcesses`, `ClearPorts`, `Interrupt`) may come between any two.
The code's `clearPrismaClientLocks` is two actions, since the `kill -9` is a shell of its own
and the client is removed after it: `ClearProjectNodeProcesses` kills,
`ClearPrismaClientLocks` removes, and another start can boot between the two. `raced`
(auxiliary) names the starts whose backend did.
`backend`, of `MerchantSettings`, is the process bound to port 3000; its requests are
served while the containers are up and answered 500 while they are not (`ServeNothing`).
`Crash` is the unhandled rejection of a failed audit insert. Only Linux is modelled: the
Windows branches kill by image name. Docker is external: its engine comes up at some
time, and a container accepts connections some time after it runs.

### DashboardSession

One browser whose tabs share `cookies`. `proxy` is the redirect in front of every page;
`Login` and `LoggedIn` are the call and its answer, so that two tabs can overlap.
The profile page saves with two calls, `NameSaved` (API key) and `Put`/`Check`/`Write`
(the token in the cookies by then); `Check` and `Write` are the two queries of
`updateCurrentUser`, with the hashing of the password between them, and `Write` meets the
unique index. `Saved` puts the answer into the query cache (`profile`). `save` outlives
its page, as the handler does. `overtaken` is auxiliary: whether a login or a rename came
after a profile was loaded. A profile counts as loaded when the server reads the row:
`LoadProfile` is request, read and arrival in one step, and an answer that arrives late,
after the tab's own save, is left out. Passwords are abstracted to whether they match, names to
nothing, roles to a Boolean.

### TransactionsView

The table moves by itself along the transition table. `FindMany` and `Count` are the two
statements of `searchTransactions`, which `Promise.all` starts together; a change between
them marks the search `torn`. `list` is the query cache by filter and page, `detail` the
cached details, `wanted` the detail queries under way, of which `reading` holds what the
backend read for them: `ReadDetail` is the read, `LoadDetail` the arrival. `Leave` and
`Return` are navigation; `mount` counts how often the page was entered. Store and query cache
survive it, `isRefunding` does not: `refund` is kept by mount. `Click` to `Refunded` is
`handleRefund`, a closure of its mount: after its await it refetches what that mount's
query observes (`Observed`), which is the dialog's transaction while the mount is there and
the last key afterwards, the null key if the dialog was closed. So a refund clicked, closed
and left behind can be offered again after the return, to a transaction that is refunded
already; `OfferExplained` says that only this, a refund by somebody else or a failed answer
leads there. The collection of cached details nobody observes (after five minutes) is not
modelled: such an entry is like one that was never loaded.
`LoseAnswer`, `LoadDetail` and `Reply` can fail: an answer is lost, or the sweep in front
of the query was refused (`TransactionEngine`). A search text is one more filter.

## 3. The runs

All runs use deadlock checking off: the system may rest when no request arrives, and the
models stop at their bounds.

| Run | Question | Distinct states |
|---|---|---|
| `EngineSafety` | one transaction, two requests and a cron run at once, four requests, one stop: audit trail, history, notifications, settled once, refund rule, refinement of `TransactionLifecycle` | 1.7 M |
| `EngineLiveness` | two transactions: overdue payments end, handlers answer, bank outcomes are queued | 130 k |
| `Create` | one key, two amounts, two requests at once, one stop: uniqueness, true answers, blank rows, refinement of `IdempotentCreation`, and a retrying merchant is answered | 99 k |
| `WebhookSafety` | one webhook, overlapping replays, one restart, one rejected call: breaker, dead letter queue, acknowledgements, rows | 3.6 M |
| `WebhookLiveness` | two webhooks, one breaker, one restart, one rejected call: delivered or buried in the end, or lost in a way that is counted | 1.0 M |
| `ReconcileSafety` | two runs, one stop: report, corrections, audit log agree; what can be corrected | 563 k |
| `Generator` | form and view against the promise: no double charge, no reused key, hidden panels come back, overdue results leave the page | 95 k |
| `System` | two starts and a stop of the launcher around a browser with two requests: the newest key, the audit log, what a serving backend has, that one start survives | 3.7 M |
| `Session` | two accounts, two tabs, two logins and two saves: one account per e-mail, cookies that belong together, whose account a save changes | 4.5 M |
| `View` | a table that moves under pages, filters, details, refunds and a page that is left and entered again: empty pages, totals, stale offers; the list becomes what the table holds | 2.8 M |

Each property of these runs has a mutant in `PROJECT.json`: a definition changed as a
plausible bug would change it, under which TLC refutes the property.

The remaining runs refute one statement of a document each; `PROJECT.json`
("findings") quotes them:

| Run | What happens |
|---|---|
| `EngineIllegalChange` | a transition decided on an old status overwrites a final one |
| `FirstStart` | on a database without tables the cleanup in front of `prisma db push` fails, and the start with it |

Other differences between documents, texts of the pages and code have no run of their
own; the properties that hold are worded around them:

* A stop between the status write and the history write loses the history row
  (`ARCHITECTURE.md:147` wants every transition logged): `AuditComplete` allows one per stop.
* A stop between the transition and the delivery row loses the notification, because the
  bank's repetition is refused (`ARCHITECTURE.md:155` wants the event stored):
  `NotifyAccounting` and `BankOutcomeQueued` allow it per stop.
* A correction of a final state by the reconciliation (`ARCHITECTURE.md:149`) goes through
  the same table, which refuses it, and the refusal ends the run: `ResolvedByCorrection`
  and `OnlyNewestCorrected` say what is corrected.
* A request that finds the row before its QRIS string is written answers, and caches, an
  empty string (`test/idempotency.e2e-spec.ts:96` expects both answers alike):
  `BlankRowsAccounted` says when a row can stay blank.
* Concurrent first requests with one key: all but one end in `conflict`, a 500.
  `RetryAnswered` says the retry is answered.
* A refund writes no delivery row (`ARCHITECTURE.md` 3.3 announces a webhook): in the model
  only a callback comes to `row`.
* A read whose sweep meets another handler is answered 400: `Refuse` with `op = "query"`.
  The reply of a refund is built behind such a sweep, so that a stored refund can be
  answered 400: `OfferExplained` counts it among the reasons of a stale offer.
* `replay` queues the job and then deletes the dead-letter record, and so can delete the
  record of the new failure (`ARCHITECTURE.md:158` keeps failures for investigation):
  `NeverForgotten` allows it as the cause `erased`.
* After a network error or at an open breaker the delivery row stays PENDING although the
  webhook ends in the dead letter queue: `RowsTruthful` promises nothing of PENDING.
* A restart between the last failed attempt and the unawaited dead-letter write loses the
  webhook, and so does the rejection of that write, which ends the process:
  `NeverForgotten` allows it as the cause `unburied`.
* A rejected `Queue.add` leaves a PENDING row without a job while the process stays up, and
  nobody polls for such rows (`ARCHITECTURE.md:155` wants the event stored): `NeverForgotten`
  allows it as the cause `unsent`.
* A row update that is rejected after the merchant's 2xx makes BullMQ send the webhook
  again, and after the last attempt it lies in the dead letter queue although it was
  acknowledged: `AcksAccounted` and `RowsTruthful` count such lapses.
* A restart forgets the breakers, which are in memory: `BreakerLimits` counts from there.
* A backend can serve without its generated client for as long as another start, which had
  killed before that backend came up, takes to remove and generate it again, or for good if
  the terminal ends that start in between:
  `BackendPrepared` allows it for backends in `raced` only.
* A payment found to be SUCCESS here and FAILED or absent at the bank is called RESOLVED
  without a correction, and the upsert leaves a `bankTxnId` that today's file does not name.
* The three-second timeout of the result view is never cancelled and clears a payment
  created after it was set (`TimerFires`). A timer that only cleared its own result would
  be no repair: the panel would stay hidden, which is the mutant of `PanelReturns`.
* The API keys page says a regeneration invalidates the old one immediately
  (`settings/api-keys/page.tsx:104`); a request past the guard goes on with it, and two
  regenerations at once both answer with a key of which one works.
* A failed audit insert is an unhandled rejection and ends the backend: `Crash`.
* The seed runs at every start. It resets webhook URL, name and status of the merchant with
  the demo key and the administrator's password, or, after a regeneration or a change
  of the administrator's e-mail, creates a second merchant or administrator.
* The cleanup keeps all duplicates, where its comment (lines 8-9) deletes the older ones:
  Postgres folds the alias `latestDate` to lower case, so both sides of the comparison are
  undefined. `Cleanup` leaves `duplicates` alone and `Push` then refuses the index.
* `npm run stop` stops the backend, says `README.md:29`; on Linux the shell of the first
  `pkill -f` matches itself, the other three commands are skipped, and the message that
  everything is off appears nevertheless: `KillApps`, and the second line of
  `BackendPrepared`.
* The launcher waits for the engine, says `README.md:40`; what it polls is the compose
  plugin's version, which answers without an engine. `waitForHealthy` waits for running
  containers only, so that the cleanup can meet a database that is not up yet.
* Refresh tokens are not rotated (`API_CONTRACT.md:14`): an old one stays valid
  (`auth.service.ts:40`). Nothing in the dashboard calls that endpoint.
* The profile page can show "Profile berhasil diperbarui." beside the second call's
  error; a late answer replaces a newer cached profile; the cached profile survives a
  logout; a name saved late re-creates the merchant's cookies. `AccountChanges` and
  `CookiesTogether` are worded around these.
* `isRefunding` and its error are not kept by transaction: a dialog opened meanwhile shows
  those of another. Nor do they outlive the mount: after leaving the page and coming back
  the button is there again while the first refund is under way, and, if its answer found
  the dialog closed, after it. The second request is refused by the state machine.
* The trend's buckets are UTC dates of local midnights (`transactions.service.ts:401-419`):
  east of UTC, transactions after UTC midnight fall into no bucket.

### Bounds, and why they are enough

* Engine: a race needs two handlers in the window of one row; the instance has three
  workers, so a third handler meets the result of the race. Four requests let a payment
  be created, settled, refunded and queried (or raced) in one behaviour. `MaxAborts = 1`
  puts one stop at every place; the accounting properties are stated relative to
  `aborts`, so they are not true merely because there is one. Two transactions let one
  refused row cut short the sweep of another.
* Creation: two handlers meet at the index, and each can come back as the retry that finds
  row or cache; a second id lets a second insert happen if the index would allow it; two
  amounts are what a reused key needs. One merchant keeps the liveness property checkable;
  that slots of several merchants and keys do not disturb each other is what the
  theorems of `CreatePaymentProofs` add.
* Webhooks: `Threshold = 3` is the code's own value, and `Attempts = 4`, one more, stands for
  its 5: a breaker opens in the middle of a job, one attempt meets it open or probes it, and
  the last attempt is one of those. Three jobs for one delivery are its own and two
  replays, by two operators at once; two deliveries share the breaker in `WebhookLiveness`.
  One restart and one rejected call (`MaxFailures`) come at every place, in either order; the
  properties count both and the theorems hold for any number.
  `Workers` has one element, the default concurrency of a BullMQ worker;
  `OpenMeansQuiet` depends on it, as its comment says.
* Reconciliation: the limits 50 and 100 become 2 and 2; a row that the file does not name
  is one created between the two reads, which is the same case for the run as one beyond
  the limit. Two runs make the second meet the first one's report.
* Generator: two payments are what a timer, a simulation or a key left over from the
  first one needs; the page is opened twice and reloaded once, at every moment.
* Settings and launcher: an overlap needs two starts, and two regenerations of one browser
  two requests; one stop meets them at every step; a second merchant is what the seed
  creates after a regeneration. Every initial state of machine and tables is tried.
* Session: two users and two tabs are what a change of session under a page needs, two saves
  what the check-then-write of one e-mail needs, a third e-mail what a rename beside
  the seed's needs.
* View: pages of one row give two transactions a full page, a last page and a page that
  empties. Filters besides "ALL" behave alike. One lost answer at every place;
  `OfferExplained` names it among its reasons. Two mounts (`MaxMounts`) are the
  one that asked for a refund and the one that sees its outcome. With two moves of the user
  (`MaxMoves`) the page is left with the dialog open; close, leave, come back and open again
  takes three, and is covered by the theorem `OffersExplained`, for any number of moves and
  mounts.
* Symmetry is used in safety runs only. Where such a run checks an action property or a
  refinement (`EngineSafety`, `Session`), that is a safety property that treats
  the permuted values alike. Runs with liveness properties use none.

### Fairness

`EngineLiveness`: weak fairness on each handler's progress (Node resumes a handler whose
call returned), on the cron (it fires every five seconds) and on a payment's minute.
Nothing makes a request arrive and nothing makes a handler stop or not stop.
`Create`: weak fairness on handlers, strong fairness on the retry of a merchant
without an answer, because handler slots, a bound of the model, may be taken by others.
`WebhookLiveness`: weak fairness on the worker (a POST ends within three seconds, a body
within the runtime's own limit), on BullMQ's wake-ups, and on calls already made, which end
with an answer or a rejection. The cooldown needs none: a job that meets an open breaker
uses up an attempt.
`Generator`: weak fairness on the countdown's tick (an interval of one second) and on
timeouts; nothing makes the server answer or the merchant do anything.
`View`: weak fairness on the page's own refresh (`refetchInterval`, 15 seconds) and on the
statements of a search under way; users' moves and lost answers are bounded, so in the
end the page is left alone or is not there; `ViewConverges` speaks of the first.

## 4. The proofs

The theorems hold for every value of the constants, under the named assumptions of the
modules: `NoTxnAssumption`, `BoundsAssumption` (engine), `NoneAssumption`,
`MaxAbortsAssumption` (creation), `ThresholdAssumption`, `AttemptsAssumption`,
`MerchantOfAssumption`, `NoneAssumption`, `BoundsAssumption` (webhooks),
`NoneAssumption`, `BoundsAssumption` (payment page), `KeysAssumption`, `NoneAssumption`,
`RowAssumption` (settings), `LimitsAssumption` (reconciliation), `ViewAssumption`
(transactions page), `LauncherAssumption` (the backend processes are those the starts
spawn), `SeedAssumption`, `IdsAssumption`, `ProfileAssumption`, `BoundsAssumption`
(session). Most say that `None` is none of the values it stands beside. TLC evaluates
them in the runs. Each proof module has the same shape: lemmas about the operators,
`Init => IInv`, one lemma per group of actions for `IInv /\ Next => IInv'`, and the
theorems from these with PTL.

* **`TransactionEngineProofs`**. `HistorySound` and `RefundNeedsPayment` are not
  inductive: they say nothing of a handler about to write. `IInv` adds `JobSound` (from
  its read on, a handler holds a status the row really had and from which its goal is
  legal; each caller only pursues its own goals), `HeldSound` (`held` contains the
  status) and `WindowSound` (on a transaction that did not race, what a handler has read
  is still true). With `WindowSound` an update of a transaction without a race is a
  legal step of the abstract lifecycle, and with `JobSound` an update of a raced one is
  its `Overwrite`; so the engine implements `TransactionLifecycle` (`ImplementsLifecycle`).
  `TypeCorrect`, `HistoryTellsTheTruth` and `NoRefundWithoutPayment` follow from `IInv`.
  Over the refinement, the lifecycle's own promises hold of the engine: no step leads back
  to PENDING, even a stale write (`NeverPayableAgain`), and a final status of a
  transaction that did not race stays (`FinalStaysFinal`).

  The three counting theorems look at a step only as far as it counts (`StepCases`): it
  creates, updates, records, announces, enqueues or aborts, or it is `Aside`, which writes
  nothing and moves no handler that owes a write. `AuditStaysComplete`: an update adds a
  status and a handler that owes its history row, a record takes both away, and only an
  abort can leave a status in `Lost`. `NotificationsAccounted` adds that a handler about
  to notify has the bank's outcome in the history (`AnnouncementsBacked`). `SettledOnce`
  rests on one lemma about a set of statuses that no edge of the table leads back into
  (`OneWay`): a move out of it happens once (`MadeOnce`), which is used for leaving PENDING
  and for the refund. A proof that failed showed that the guards of `Reason`'s CASE
  overlapped; they are disjoint now.
* **`CreatePaymentProofs`**. `ResponsesTrue` is preserved because rows only become more
  complete: a response that was true of a row stays true (the lemmas on `TrueOf`).
  `JobSound` says a handler between insert and second write knows the id of its own
  slot's row. `UniqueTransaction` needs the index (`Insert`) and fresh ids.
  `ImplementsPromise` maps a slot to the id of its one row. `BlankRowsStayAccounted`
  counts: a row becomes blank for ever only with the abort of the handler that was about
  to complete it, which ids that are never drawn twice make unambiguous.
* **`WebhookDeliveryProofs`**. `JobsSound` (a live job has an attempt left) carries the
  type of `made` over replays and restarts; `WorkSound` (a busy worker owns an active
  job) keeps two workers off one job; `BreakersConsistent` is preserved operation by
  operation (lemmas on the breaker's operators). `OneWorkerKeepsQuiet` proves
  `OpenMeansQuiet` for a `Workers` set of at most one element: the only step to a POST is
  `Load`, which asked the breaker (`QuietWorker`), and no other step starts a cooldown.
  `BreakersLimit` adds `StrainSound`: while a breaker is closed the failures it has counted
  bound the merchant's strain, when it opens they equal the threshold at most, and from
  then on only the end of a cooldown, which starts the count again, lets a POST through.
  It needs the quiet breaker, and so one worker.

  What becomes of a webhook needs a second invariant beside `IInv` (`FatesInvariant`):
  `RowSound` ties row, jobs, dead letter queue and replays together, `LostSound` and
  `HandsSound` say that what is not in somebody's hands has a cause in `lost`, and what a
  replay is about to delete is not needed unless a later record took its place
  (`overtaken`), and `FateSound` what the only job of a webhook tells of it while the
  process stays up and its end could be recorded. From it follow `WebhooksNotForgotten` and
  `RowsStayTruthful`, for any number of workers, rejected calls and restarts.
  `AcksStayAccounted` counts the jobs whose acknowledgement is used up (`SpentOf`), the
  restarts and the lapses; it is stated for one worker, which is what the processor starts,
  because with two workers one restart can undo the end of two jobs, and the bound of one
  acknowledgement for each restart is false.
* **`ReconciliationProofs`**. None of the five properties is inductive: they speak of the
  run's local list, and the table moves below it. `IInv` adds `TableSound` (a row never
  becomes PENDING again, whoever writes), `RunSound` (no row twice in the list, where the
  loop stands), `FileSound` (every SUCCESS in the settlement file but the newest was the
  row's own status, so the row is settled) and `CorrectionSound` (how far the correction
  at hand has come). `NewestAlone` is then `FileSound` at the row the loop is at, and
  `CorrectedAtMostOnce` that what is corrected stays settled.
* **`PaymentGeneratorProofs`**. `NoDoubleCharge` needs to know what the server may still
  serve: `IInv` adds that every request under way is for an answered, a forgotten or the
  current key, that an answered key has its transaction, and that the form's key is
  neither answered nor forgotten. The last is also what makes `NewPaymentIsNew` true of
  the step `Succeed`. `PanelReturns` is inductive as it stands. The server is assumed to
  keep `IdempotentCreation`, which `ImplementsPromise` proves of `CreatePayment`.

* **`LocalLauncherProofs`, the settings**. `AuditAccounted` is inductive with types.
  `LockoutExplained` is not: a key drawn in the handler is only stored later, and the
  stored key may be replaced by an older answer. `SettingsIInv` adds `KeysApart` (a key
  is drawn once and held by one row), `OverlapsSeen` (two regenerations of one browser
  under way are recorded) and `KeysTraced`: for every row with a drawn key there is the
  request that drew it, and if the browser has stored it, every regeneration still under
  way was sent with that very key and has not drawn another.
* **`LocalLauncherProofs`, the launcher**. Every step of the launcher is a step of `SettingsSpec` or
  leaves its variables alone (`LauncherImplementsSettings`): the scripts reach the backend
  through `Stop`, `Boot` and `SeedMerchant` only. So the theorems on the settings hold in
  the composed system without being proved again. `ServesPrepared` needs `SeededFirst`,
  and `RacesKnown`: a backend beside a start that is about to remove the client came up after
  that start's kill, and is in `raced`. So a removal meets only such a backend, and leaves
  behind it a start that will generate the client or one the terminal ended
  (`ClientAwaited`).
  `OneSurvives` needs to say who will bring the app up: `SomeoneCarries` names a start that
  will get through unless something else goes wrong. Whoever removes the client becomes
  one in that step, a start without a client that fails was none, and whoever frees the
  port of a backend finds everything ready, because that backend was prepared. So the
  number of starts does not matter.
* **`DashboardSessionProofs`**. The index makes `OneOwner` inductive with types.
  `AccountChanges` speaks of a save when it writes; `IInv` carries the reasons along from
  the moment the profile was loaded (`ProfileExplained`) through the save
  (`SaveExplained`): a profile that is not of whoever is signed in, or not what its row
  holds, has been overtaken. `Known` says rows are never deleted.

* **`TransactionsViewProofs`**. First what a page is: newer ids have lower ranks, ranks are
  below the number of ids, so every number below it is the rank of exactly one id
  (`Ranking`, the pigeonhole of FiniteSetTheorems), and a page has as many rows as the
  count leaves for it (`PageSize`), for any page size. `IInv` then follows totals and pages
  from the table through the search into the cache (`PagesExist`, `SearchesCoherent`), as
  long as no row leaves the filter or the table does not change between the two
  statements; `OffersAccounted` says of every hidden refund, and of every answer on its way
  that will hide one, who will show it: an excuse, a query under way, or the handler of
  some mount that has yet to refetch.

Every safety property and every action property that a passing run checks is a theorem.
Only model-checked are the properties under fairness (`OverdueEnds`,
`EveryRequestAnswered`, `BankOutcomeQueued`, `RetryAnswered`, `EventuallySettled`,
`OverdueCleared`, `ViewConverges`), because the prover has neither fairness nor ENABLED,
and the two findings, which are counterexamples. `AcksAccounted` is checked and proved
for one worker, as are `OpenMeansQuiet` and `BreakerLimits`. Type invariants and inductive invariants that a theorem establishes are
not properties of a run. Induction over data is outside the prover's reach here; the
counting proofs do without it, through the facts on cardinality in FiniteSetTheorems. No
module declares a RECURSIVE operator, so that every module can be proved about.

## 5. Not modelled, and why

* `getMerchantAnalytics` and `getMerchantTrend` beyond the sweep in front of them: sums over
  one read, without state. The dashboard page, CSV export, sorting and the session store
  only show what other parts hold.
* Refresh tokens, `createUser`, `createMerchant`: nothing in the dashboard or the backend
  uses them. Password hashing and roles are pure checks.
* Signatures and encryption: cryptography; only what a failed check prevents matters
  (`StartCallback`).
* Bootstrap, configuration, validation, logging, texts of errors: no state the properties
  speak of.
* The Windows branches of the scripts, and Docker beyond "engine" and "containers".
* Cascading deletes of the schema: the only delete, the cleanup's, never selects a row.

## 6. Plan

Done, in this order:

1. `TransactionStateMachine`, `TransactionLifecycle`, `TransactionEngine` and its proofs.
2. `IdempotentCreation`, `CreatePayment` and its proofs.
3. `CircuitBreaker`, `WebhookDelivery` and its first proofs.
4. `Reconciliation`, checked.
5. `PaymentGenerator` and its proofs.
6. `MerchantSettings` and `LocalLauncher`, composed, and their proofs.
7. `DashboardSession` and its proofs.
8. `TransactionsView`, checked.
9. Proofs of `Reconciliation`, of the fates of webhooks, of the counting properties of
   engine and creation, of the surviving start, and of `TransactionsView`.
10. Calls that are rejected while the process is up (`WebhookDelivery`), the launcher's kill
    and removal as two steps, a page that is left and entered again (`TransactionsView`),
    with their proofs.

Left:

1. `NotificationPath`: the engine's outcome, `sendWebhook` and the delivery in one
   statement: a settled payment is announced to its merchant at least once unless the
   process stopped, and every announcement is true.
2. A bound on acknowledgements for any number of workers.
3. Analytics as operators checked against a reference definition over bounded inputs.
