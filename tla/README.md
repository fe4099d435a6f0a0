# Hypertron API: a verified model

Hypertron API is a NestJS service. It creates payments for merchants, watches the
Stellar ledger (through Horizon) for the transactions that pay them, and tells the
merchants by webhook. Its state is in MongoDB (through Prisma), its background work in
BullMQ queues on Redis, and it runs on any number of pods. This directory holds TLA+
models of its core, the TLC configurations that check them, and theorems about them
that TLAPS proves. Sources are named below relative to the repository's `src/`.

## Inventory

| Component | State it keeps | Operations | What is hard | What makes it correct |
|---|---|---|---|---|
| payment state machine (`modules/payments/payment-state-machine.ts`) | `Payment.status`, `transactionHash`, timestamps | `toPending` ... `toCanceled`, each a load, an `updateMany` that compares and sets, a reload and an event | merchant, reconciler and cron race on one payment; crash between two awaits | one outcome per payment, terminal statuses final, a transaction pays one payment, each move announced |
| event log (`modules/events`) | `PaymentEvent`, unique per payment and type | `emit`, then a webhook fan-out job whose failure is swallowed | stale snapshots, lost events | one event per move, never older than the move |
| payment creation (`modules/payments/payments.service.ts`) | payment, checkout link, memo | `create`, `cancel`, reads | retries, failures half way, cancel during create | a reported payment is complete |
| idempotency (`modules/idempotency`) | record per (business, API key, key) | `check`, `reserve`, `complete` | two retries at once, failed or dead owners | one payment per key, replays are the original |
| customers (`modules/customers`) | customer, `paymentCount`, `lifetimeValue` | `upsertByEmail`, aggregates | find-then-create, read-modify-write | one customer per address, each payment counted once, its amount in the total |
| reconciler (`modules/reconciler`) | finality jobs in BullMQ | poll every 30 s, finality check, expiry every 60 s | stale verdicts, several pods, redelivered jobs, outages | grounded outcomes, links and totals agree with payments, nothing left behind |
| Stellar verifier (`stellar-verifier.ts`) | none | `verify`, `checkRecord` | which record decides, decimal amounts | a match passes all seven checks |
| Horizon client, circuit breaker (`infrastructure/stellar`) | breaker state per network | `listPayments`, `getTransaction` | retries, half-open probes | failures stop calls, recovery resumes them |
| webhooks (`modules/webhooks`) | endpoints, deliveries, jobs | fan-out, attempt, retry, manual retry | crash between row and job, retry races | each event is delivered or given up, never forgotten |
| webhook signing (`webhook-signer.ts`, `webhook-payload.ts`) | encryption key of the deployment, secret of the endpoint | sign, encrypt, decrypt | a rotation between load, signature and answer, redeployment, late requests | what is received in time verifies with the secret of the row its attempt loaded |
| API keys and guards (`modules/auth`, `common/guards`) | keys with status | generate, verify, rotate, revoke | rotate and revoke races, use during revocation | a revoked key is refused, a replacement retires its key, nobody acts for another business |
| developer API (`modules/developer`) | none | keys, endpoints, test deliveries, lists | session and wallet move meanwhile | as API keys |
| merchant settings (`modules/internal`) | one document per merchant | upsert by business, then by wallet | unique conflicts of two pushes | a wallet speaks for its present business |
| lists (payments, customers, deliveries) | none | pages by cursor | rows inserted and changed between pages | what stays is shown once |
| amounts (`common/utils`) | none | normalise, compare, add | different scales of one number | they agree with the numbers |
| checkout links, rate limiting, filters, interceptors | counters of the throttler | guards, pipes, errors, request ids | errors before the id is known, shared budgets | every error but the report of `/health` has the documented body, a merchant's calls use its own budget |
| the rest | none of their own | health, metrics, tracing, OpenAPI, configuration, scripts | - | - |

Who calls whom: `create()` reserves the key, then writes customer, link, payment and the
first event, and calls `toPending`; the poll and the finality job call `toConfirmed`,
`toCompleted`, `toFailed` and `toExpired`; the merchant's cancel calls `toCanceled`, the
expiry cron `toExpired`. Every transition ends in `emit`, every event in a webhook job.
`toConfirmed` is followed by the update of the checkout link and the enqueueing of the
finality job, `toCompleted` by the link and the customer's totals.

`PROJECT.json` lists all components (the unmodelled ones with the reason), the map from
definitions to source lines, and the hazards at the lines where they bite.

## Modules

- `PaymentStatus`: the statuses and the transition table (`ALLOWED_FROM`), shared by all.
- `PaymentLifecycle`: the abstract contract. Every transition is one atomic step along
  the table, confirmation attributes a transaction no other payment has, and each move
  is announced at most once, after it was made.
- `PaymentStateMachine`: `transition()` await by await. `Load` is the `findUnique` and its
  checks, `UpdateMany`/`UpdateConflict`/`UpdateNothing` are the three results of the
  `updateMany`, `Lost` the reload of the loser, `Reload` that of the winner, `Emit` and
  `Dispatch` are `EventsService.emit`. `call[w]` is the stack frame of one caller,
  `call[w].seen` the status in its possibly stale copy. `Interrupt` ends a call at any
  await (crash or rejected database call).
- `PaymentCreation`: `create()` with `IdempotencyService` and `upsertByEmail`, one action
  per await; `pc[r]` is the await request `r` is at. `Reject` and `Abandon` are the error
  paths, `Die` the crash. The move to pending is one atomic step of the contract, which
  the state machine implements.
- `Settlement`: the abstract contract of the reconciler, without pods, polls, jobs and retries. A
  status moves along the table, an outcome has its ground in the ledger or the clock at the moment
  it is recorded, the attribution is made once, the link shows it, and the totals change only by
  counting a completed payment.
- `Reconciler`: the poll (`Poll`, `PollNext`, `Horizon`, `Load`, `CompareAndSet`,
  `SyncCheckoutLink`, `EnqueueFinalityCheck`), the finality check (`Finalize`, `Find`,
  `GetTransaction`, the same transition, `ReadCustomer`, `UpdateCustomer`), and beside
  them `Cancel`, `ExpireOverdue`, the customer (`Pay`) and the clock (`PassExpiry`).
  `Return` and `Throw` are how a handler ends. BullMQ is modelled from how the code uses
  it: a job id makes `add` a no-op while such a job exists, a throw consumes one attempt,
  a dead pod's job is redelivered once. A pod keeps at most one reconciler job at a time
  (`concurrency: 1`). Events are left to `PaymentStateMachine`. `lockLost` and `overlapped` are
  history: whose job was taken from a live pod, and whose pods updated the customer at once.
- `WebhookDelivery`: the fan-out job (`TakeFanout`, `FindEndpoints`, `CreateDelivery`,
  `EnqueueAttempt`, `FanoutDone`), an attempt (`TakeDeliver`, `Load`, `FindEndpoint`, `Send`,
  `Record` or `MarkFailed`, `EnqueueAttempt`), the manual retry (`RetryDelivery`, `Reset`,
  `EnqueueAttempt`) and the endpoints (`UpdateEndpoint`, `RemoveEndpoint`, `DeleteRows`,
  `DeleteEndpoint`). `worker[w]` is one task of a pod, a job or a request; `Finish` is BullMQ
  completing a job after its handler returned, so that the id of a job stays taken until
  then. `jobs[d]` holds the jobs of a delivery by the suffix of their id, and `epoch` tells
  a deleted row from one created again. `answers`, `acked`, `redone`, `broken` and `steady`
  are history that only properties read.
- `HorizonClient`: the breakers of one pod (`maybeHalfOpen`, `onSuccess`, `onFailure`, `Exec`) and
  the worker that calls through them: `TakePoll` and `reconcilePayment` ask for one pending payment
  after the other, `finalizePayment` for a transaction; a request is `Answered`, `NotFound` or
  `Transient`, waits its `Backoff`, and may load memos (`MemoLoaded`, `MemoFails`). `Succeed` and
  `Fail` are the ends of `exec()`. `streak` and `quiet` are history.
- `Dashboard`: credentials and who may change them, request by request, one action per await: the
  bearer check (`UseKey`, `FindCandidates`, `Compare`), the session (`Arrive`, `Permits`,
  `ResolveSession`), the key routes (`ListKeys`, `Generate`, `FindKey`, `CommitRotate`,
  `CommitRevoke`), the endpoint's secret (`FindEndpoint`, `RotateSecret`, `UpdateEndpoint`), attempts
  that sign (`TakeAttempt`, `LoadEndpoint`, `Send`) and the core backend's push of settings
  (`Push`, `Upsert`). `req[r]` is the stack frame of a request; `since[r]` is history: what it
  could have seen since it arrived.
- `Pagination`: a client follows `next_cursor` over the rows of one of the three lists while
  rows are inserted and deliveries change their status.
- `PaymentMatching`: decimal strings and the arithmetic on them (`amount.util.ts`), the seven
  checks of `StellarVerifier`, the reconciler's reading of the verdict and the customer's sum.
- `WebhookSigning`: payload, encryption of the secret, signature, and the verification a
  receiver is told to do. An attempt loads the endpoint's row (`LoadEndpoint`) and later decrypts
  and signs with it (`SendSigned`); a rotation writes the row (`RotateSigningSecret`) and is
  answered later (`ShowSecret`), so each may fall between the steps of the other; beside them the
  redeployments, the payment and the clock. `serial` is history: whether rotations were all answered
  one after the other.
- `RequestPipeline`: the stages around a handler in Nest's order, the filter that turns what they
  throw into an answer, and the throttler's counters. `admitted` and `recent` are history: how long
  the window a call was let through in lasts, and when its caller made its last `Limit` requests.
- `PaymentStateMachineProofs`, `PaymentCreationProofs`, `ReconcilerProofs`, `DashboardProofs`,
  `HorizonClientProofs`, `WebhookDeliveryProofs`, `RequestPipelineProofs`: theorems and proofs about
  the module each is named after. `ReadsProofs`: those about `Pagination`, `PaymentMatching` and
  `WebhookSigning`.
- `MCPaymentStateMachine`, `MCPaymentCreation`, `MCReconciler`, `MCWebhookDelivery`, `MCDashboard`:
  symmetry sets for TLC. `MCHorizonClient`: the payments and networks of its instance.
  `MCReads` puts the four modules that share no state side by side, one `part` per behaviour.

Definitions whose comment begins "Mutant" are plausible bugs of the definition that
follows them. No specification uses them: they exist to show that each property can
tell a wrong program from this one.

### Assumptions about the environment

A MongoDB single-document write is atomic, so `updateMany` with an id and a status filter
is a compare-and-set. The unique indexes of `schema.prisma`, and the partial unique index
on `transactionHash` that `PrismaService` installs at startup, exist. Generated
identifiers and memos are distinct, so `duplicate_hash` and the P2002 branch of
`reconcilePayment` are not reached from `Reconciler` (`PaymentStateMachine` covers them).
A call that the database applied although its reply was lost is the applied step followed
by a failure at the next await, or an explicit choice where there is none (`complete`).
Random tokens never collide; HMAC and AES-GCM are perfect: a tag is the tuple of what it was
computed from, and a key or secret that a request creates bears the request's name. The reconciler worker
has concurrency 1, so the breakers of a pod have one caller. Nest runs guards before
interceptors before pipes, and global filters last to first; the throttler's storage is the
library's (external).

### What is abstracted

Names, memos, addresses, descriptions and payloads; the body of a request is one
top-level field and its nested metadata, which is what `hashBody` tells apart. In `Reconciler`
a ledger operation is `valid`, `wrong` (asset, issuer or amount) or `late`, in the order
the verifier checks (`PaymentMatching` decides that from amounts and addresses); the operation a
poll finds is any of those with the memo (Horizon ingests late, a memo may fail to load) or
none. The windows of 200 payments and 50 operations are not modelled; the order of the poll is in
`HorizonClient`. `removeOnFail: 100` (500 for attempts) never evicts. `WebhookDelivery` leaves out
payload, signature and delays (`WebhookSigning` has the first two); the answer is
`ok`, `retryable` or `rejected`, and the events of its instance are of one merchant and one type.
In `Dashboard` all keys share a prefix, so that `verify` compares with each of them, and the
`lastUsedAt` of a key is a pending write only. `Pagination` compares numbers for times and ids.
The queue is there (`DISABLE_REDIS` is not set). Prisma's emulated foreign key keeps an
endpoint that has deliveries from being deleted, and manual retries get different ids.

### Not modelled

The index repair of `PrismaService` at startup (commands to MongoDB whose outcome, the unique
indexes, the models assume) and its environment filter (it leaves queries as they
are and throws when one scoped by a business names no environment);
the client of the core backend (health only) and the receive address of merchant settings;
the insertion of an endpoint and the reads of one row (no property tells them from the rows a
model starts with); the answers of the health check other than its errors, metrics, tracing, OpenAPI, configuration and the scripts, which
keep no state another part reads. The exceptions `PermissionException`, `RateLimitException`,
`ServiceUnavailableException` and `UnprocessableEntity` are never thrown by a handler, and
`isCircuitOpen` is never called.

## Runs

| Run | Instance | Shows |
|---|---|---|
| `psm_race` | 2 payments, 2 callers, 1 transaction, interruptions | the safety properties of the state machine, that terminal is final, and that it implements `PaymentLifecycle` |
| `psm_announce` | 1 payment, 2 callers, no interruptions, fair | every move is announced |
| `creation` | 3 requests, 2 keys, 1 address or none, failures and crashes | one payment per key, replays are the original, answers are backed, records keep their owner |
| `creation_key_stuck` | 2 requests | **violated**: a failed creation leaves its key in flight |
| `reconciler` | 2 payments, 2 pods, 2 operations, 2 attempts, outages, failures, crashes, lost locks | outcomes are grounded, links show the attribution, payments are counted once while their job keeps its lock, and an amount is missing only where two pods updated the customer at once |
| `reconciler_live` | 2 payments, 1 pod, 2 operations, nothing fails, fair | confirmed payments settle, completed ones are in both totals (no two pods overlap here) and on their link, overdue ones close; the code implements `Settlement` |
| `reconciler_stuck` | 1 payment, 1 pod, outages | **violated**: an open circuit at the finality check loses it |
| `webhook` | 1 event, 2 endpoints, 2 tasks, 2 attempts, 1 dashboard request, 1 failure | the schedule ends, delivered means answered, nothing is delivered or counted twice, a completed fan-out missed nobody |
| `webhook_live` | the same with 1 endpoint, fair | every delivery settles that keeps its job |
| `horizon` | 3 payments on 2 networks, one with a missing account, threshold 2, 1 retry, reset 2 ticks, 2 finality checks, 2 outages, fair | breakers count failures in a row, probes are spaced, payments of a sound network are asked about for ever |
| `dashboard` | 3 requests, 2 businesses, 2 wallets | revoked keys are refused, replaced ones retired, nobody acts for another business, attempts sign with a fresh secret, rotated secrets do not come back |
| `reads` | 4 rows at 2 times, pages of 1 or 2; digits 0, 1, 9 in 3 places, precision 2; 2 encryption keys, 3 secrets, 3 seconds, tolerance 1; 2 calls, limit 1, window 2 | pages are complete, amounts agree, a verdict is earned, a request is accepted exactly if it is timely and its attempt loaded the secret the merchant has, errors keep their contract, budgets are separate |

Bounds. Two callers are enough for every race on one payment, since a compare-and-set has
one winner; the second payment is there for the unique index and for what a poll does with
a stale snapshot. Three requests allow a key's owner, a racing retry and a later replay.
`MaxOps = 2` allows a right and a wrong operation, or two right ones that two pods find.
Two of the five attempts show the retry and its exhaustion. The same holds of the seven
attempts of a delivery and the five of its fan-out. Two tasks let a replayed fan-out or a
redelivered attempt run beside the first, and a request beside an attempt; one failure is
enough to lose a lock, a pod or a job at every await, and the second endpoint is the one
that was still to come. Three requests let two rotations (or a rotation and a revocation)
race over a key a third one bears, two businesses and wallets let a wallet move; digits 0, 1 and 9
have the carries and the trailing zeros. Threshold 2 and 1 retry show a count below the threshold
and both ends of an attempt; two outages let each network fail, or one fail again after its
recovery; two finality checks let a probe be one. Three secrets let a rotation fall between the load
and the signature of an attempt and another between the first and its answer; three seconds let a
request be in time and late. Symmetry is used only in runs
without liveness. `CHECK_DEADLOCK FALSE` is set where everything may have ended.

Fairness. `WF` of a caller's step says that awaits settle in a live process. `SF` of
`Finalize` says that the queue is first come, first served, so polls do not overtake a
waiting job for ever. `WF` of `TakeJob` says only that a free task gets some waiting job.
`WF` of `ExpireOverdue` is the cron. In `HorizonClient`, `WF` of `Call` says that awaits settle
(each request has a timeout), of `TakePoll` that the 30 s scheduler goes on, of `Tick` that
time passes; finality checks and outages are not fair. Merchants, customers and faults
are never fair.

### Findings

The violated runs are disagreements between the code and what the repository says of it;
`PROJECT.json` quotes the lines. The catch block of `create` stores the in-flight sentinel, so a
key whose creation failed answers 409 for ever (`creation_key_stuck`). An open
circuit ends the finality job as if it were done (`reconciler_stuck`).

Seen while modelling and not the subject of a run:

- A crash between a status and its event loses the event (`Payments_API_v1_Schema.md:229`
  promises it): `MovesAreAnnounced` is checked without interruptions.
- With a lost lock the loser of `toCompleted` is told it succeeded and counts the payment again
  (`CountedOnceUnderLock` promises one count only under the lock).
- Two pods that complete payments of one customer at once lose one of the amounts, without any
  failure: `lifetimeValue` is read, added up in the pod and written back
  (`reconciler.service.ts:366-391`), and nothing adds it again. `paymentCount` is incremented by the
  database and loses nothing. The `reconciler` run reaches this with its two pods;
  `CountedOnceUnderLock` says that an amount is missing only there (`overlapped`),
  `CompletedIsAccounted` and `Settlement` exempt it.
- An attempt that has loaded the endpoint before a rotation signs with the old secret, also after the
  new one was shown: the comments say that attempts re-read the secret "at send time"
  (`webhook-endpoint.service.ts:152-153`, `webhook-delivery.service.ts:473`), but `send` decrypts the
  row loaded at line 161. Its request is refused; the retry of the delivery loads the new row.
- The 503 of `/health` keeps the fields of terminus' report and has no `type`
  (`hypertron-exception.filter.ts:225-228`), although the filter shapes "every error"
  (lines 1-7, `Plan.md:1039`), and the description of the route says that a degraded database
  "does not cause a 503" (`health.controller.ts:29`), which it does. `ErrorContract` names this one
  answer.
- A fan-out that stops between `createDelivery` and `enqueueAttempt` leaves a delivery that stays
  pending, for the replay meets the unique index and goes on (`webhook-delivery.service.ts:123`).
- An attempt is added under the id `r<n>`, which does nothing while a failed job of an earlier
  schedule holds that id (`removeOnFail: 500`) or one is about to complete, so a manual retry can
  stop after its first attempt. `DeliverySettles` exempts exactly the deliveries that met a
  taken id or whose job or request failed (`broken`).
- `hashBody` drops nested members, so bodies that differ in metadata only share a hash;
  `upsertByEmail` can create two customers for one address.
- A 404 counts as a failure (`stellar-horizon.service.ts`): one missing account keeps reopening
  the breaker all payments of its network wait for. `EveryPaymentIsAsked` is about networks
  whose accounts exist.
- The check of `rotate` is outside its transaction (`api-key.service.ts:175` says "atomically"): two
  rotations of a key can both succeed and leave two active replacements, and a rotation
  racing a revocation leaves an active one.
- The newest operation with the memo decides: a wrong one hides an older valid one.
- An error raised before pino's request id (body parser) echoes whatever header the caller sent;
  one raised in a guard has pino's id, before the interceptor checks its pattern.
- `ThrottlerException` is answered by `HypertronExceptionFilter`, for Nest reverses global filters;
  `Retry-After` is the rest of the window while the block may last longer. A budget is per caller and handler, while
  `Plan.md` and the schema document speak of one per key for all reads.

## Proofs

`PaymentStateMachineProofs` proves, for any set of payments, callers and hashes, the
type invariant, every safety invariant of `psm_race`, `TerminalIsFinal`, and that the
module implements `PaymentLifecycle`. None of the invariants is inductive: that an event's
snapshot is not behind its move needs that a caller past its update really entered its
target (`CallsOK`), that statuses only climb (`EnteredOK`, from the rank of the table:
lemma `TableClimbs`), and that the insert never conflicts needs that at most one caller
announces a move (`OneAnnouncer`), because only one compare-and-set of a target ever
succeeds. `IInv` is their conjunction; `UpdatePreserves` treats the update, where all
the parts interact, and `CallStepPreserves` the steps that move one caller only.

`PaymentCreationProofs` proves, for any requests, keys, addresses and bodies, with
failures and crashes, the type invariant, `OnePaymentPerKey`, `ReplayIsOriginal`,
`AnswerIsBacked` and `RecordKeepsItsOwner`. The invariant says that a request past
`reserve` owns the record of its key (`OwnersOK`), what each await has left behind
(`ProgressOK`), that a stored 201 stands for a complete payment of the owner
(`CompletedOK`), and the same of answers (`AnswersOK`). Three lemmas carry the induction:
`LocalStep` (records untouched), `ReserveStep` and `StoreStep` (the two writers of records).

`ReconcilerProofs` proves, for any payments, pods, ledger and attempts, with outages, failing
calls, dying pods and lost locks, the type invariant and the three invariants of the `reconciler`
run. Between the operation a pod reads and its update lie several awaits, so `TaskOK` says what
each task still rests on: a verdict has its ground in the ledger or the clock (`VerdictOK`), a
payment past its update keeps its attribution, and totals read are no larger than the counts.
That rests on what no step undoes (`WorldGrows`): the ledger, the clock, an attribution, a
completion. `LockOK` carries the counting: as long as no pod lost the lock of a payment's finality
job, one pod at most works on it, the job is active, and past `find()` the payment is not counted
yet. `MoveOK` treats every compare-and-set, `LockStep` the locks, `TaskKept` the pods that do not
move; `Advance` and `LetsGoStep` the steps that stay on a job or leave it. A second invariant,
`AmountsOK`, is about `lifetimeValue`: what a pod has read of the customer is what is there, but for
payments whose pods overlapped, so that no other amount is overwritten. `ImplementsSettlement`
is the refinement of `Settlement`: the writes of a pod (`CompareAndSetContract`,
`SyncCheckoutLinkContract`, `UpdateCustomerContract`) are steps of the contract because of what the
invariant says of its task, all else it does is invisible (`Invisible`). `Settlement` lets a
counting lose other amounts, so what is lost is the subject of `AmountsOK`, not of the refinement. TLC
checks the refinement on an instance with one pod and no faults; the theorem has any number, and all
the faults.

`DashboardProofs` proves, for any requests, businesses and wallets, the type invariant and
every property of the `dashboard` run. A property there relates what a request did to what it could
have seen, so the invariant says what each await has read and that the history only grows
(`Grows`) while keys only retire (`KeysKept`): `PlaceOK` (a request is where its route can be),
`CallOK` (a key found active was so since the call arrived), `SigningOK` (the same of a secret)
and `ActorOK` (a dashboard request acts for a business of its wallet), with `KeysOK` for the rows.

`HorizonClientProofs` proves, for any networks, payments, threshold, retries and timeout, the type
invariant, `ThresholdDecides` and `ProbesAreSpaced`. Neither is inductive: a breaker counts what the
history counts, an open one ages no faster than its failures (`BreakerOK`), and a breaker is
half-open exactly while its probe is in flight, so that no other call can end while it is open
(`InFlightOK`). `EndOK` treats the ends of a call, `ExecOK` its begin, `TickOK` the clock.

`WebhookDeliveryProofs` proves, for any endpoints, events, tasks and limits, with failing calls,
dying pods, lost locks, manual retries and removals, the type invariant and the five invariants
of the `webhook` run. The core is `ChainOK`: as long as nobody redid a delivery, its next attempt
is in one pair of hands, a task that `Carries` it or a job that is `Queued`, never both or two of
one kind, and its row counts its answers (`Going`, `CarrierOK`). `RowOK` bounds the schedule,
`RowReadOK` says that what a task read of such a row is still current, `FanoutTaskOK` and
`FanoutOK` that what a fan-out has left to do and what it has created cover the endpoints that
stayed subscribed. `ChainStep` shows which moves of hands are legal; `QuietStep` and `LeaveStep`
treat the steps that touch no row, `EndStep` and `ThrowStep` the ends of a job, `RowStep` the
writers of a row, `TaskKept` the tasks that do not move.

`RequestPipelineProofs` proves, for any finite set of calls, any keys, businesses, limit and window,
the type invariant, `ErrorContract` and `BudgetsAreSeparate`. That types fit their statuses holds of
every answer but the report of `/health`, which has none. A failing stage can only answer what
its place in the pipeline allows, so `CallOK` says for each stage which id the response carries and
which errors can still come. `BudgetOK` ties the library's counter of a caller to its history: the
last requests of the caller, as many as the counter says, are recent by the window and what is left
of the counter's time; while a block lasts, the last `Limit` requests are recent by as much at least;
and no more calls hold an unexpired admission than were counted. That needs that `getTracker` names
the caller, so that two callers never share a counter (`SameCaller`). The proof corrected the
property: it used to count calls, and a call that a client retries spends its budget twice.

`ReadsProofs` treats the three modules a client or merchant reads through.

- `SigningInvariance`, `ReceivedVerifiesHolds`: across redeployments with other keys, a request in
  flight bears its time, the secret of the row its attempt loaded and what its event recorded
  (`RequestOK`), so the merchant accepts it exactly if it is timely and that is the secret shown
  last. `SerialOK` says how far the merchant can be behind: as long as each rotation is answered
  before the next, by the one answer under way. Hence a timely request is surely accepted if every
  rotation had been answered when its row was loaded and none was since (`LoadedOK`).
- `PagingInvariance`, `PagesAreCompleteHolds`: for any rows, limits and changes between pages, what
  was shown is in order, and a row that was there throughout is shown or `Ahead` of the cursor. The
  lemmas on the way say that first rows exist and what they are (`FirstsExist`, `FirstRowsAre`), and
  that a page is an interval of the order with nothing left out (`PageIs`).
- `MatchingInvariance`, `AmountsAgreeHolds`, `VerdictIsEarnedHolds`: the verdict is that of the newest
  operation with the memo (`CheckRecordIs`), amounts compare and add up as the numbers they denote
  for any digits and scales, and the customer's total grows by what was confirmed. `Weighs` is the
  arithmetic: reading digits one after the other and adding up their weights arrive at one number.
  `ScaleIs` and `DescaleIs` follow, with one lemma on division (`TenTimes`).

Inductions over lengths and digits are made first-order by `Least`: a nonempty set of numbers has a
least element, so the counterexamples to a claim, were there any, would have a first one (`UpTo`).
The recursive functions of `PaymentMatching` are shown to exist the same way (`Computed`).

The proofs rest on the assumptions named in the modules: unset values differ from real
ones, flags are Boolean, a poll has a payment to ask about, every payment has a network, digits
are digits, ids, times and limits are numbers, and a window and its limit are at least one.

Only model-checked: liveness under fairness, which is out of the prover's reach (`MovesAreAnnounced`,
`ConfirmedSettles`, `CompletedIsAccounted`, `OverdueCloses`, `DeliverySettles`, `EveryPaymentIsAsked`).
Every other property of a passing run is a theorem.

## Plan

1. An abstract contract of the delivery of webhooks, as the receiving endpoint sees it:
   an attempt at a time, in the order of the schedule, and its refinement.
