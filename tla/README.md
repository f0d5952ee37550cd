# Stellar Intel: TLA+ models, model checking and proofs

Stellar Intel compares anchors, runs withdrawals and deposits through them, and
publishes what it measured to a Soroban contract that anybody can read. This
directory holds TLA+ specifications of the parts of it whose correctness depends
on order, failure and concurrency, the TLC configurations that check them, and
TLAPS proofs of the results that matter most for every size of the system.

    tlc -workers 2 -config MCPublisherTick.cfg MCPublisherTick.tla
    tlapm PublisherTickProofs.tla

## 1. The system

### Components

| Component | State | Operations | Talks to |
|---|---|---|---|
| Reputation contract, registries (`contracts/reputation/src/{anchors,corridors,publishers}.rs`) | a flag per member, a list per registry, a scope per publisher | register, add, revoke, set and clear scope | gates every write of the contract |
| Contract, outcomes (`outcome.rs`, `history.rs`, `aggregate.rs`) | pages of outcomes, head, floor, rolling aggregates | submit, two resets, reads | registries; called by the publisher |
| Contract, custody (`admin.rs`, `upgrade.rs`) | two roles with nominees, a pending upgrade | nominate, accept, cancel, announce, apply | gates the admin calls and the code itself |
| Contract, corridor data (`score.rs`, `migration.rs`, `corridor_rate.rs`, `volume_savings.rs`, `probe_signals.rs`) | metrics (v1, v2), rates, volume, probe signals | publish, add, reset, migrate, reads | registries; called by the publisher |
| Publisher tick (`app/api/publisher/tick/route.ts`, `packages/publisher/src/{batch,gate}.ts`, `lib/reputation/lock.ts`) | the lock row, the batch in hand | acquire, read a batch, gate, submit, stamp, release; then refresh rates, metrics and probe signals (`lib/oracle`) | Postgres, the contract |
| Outcome ledger (`lib/reputation/{postgres,reconcile,disputes}.ts`, `app/api/reputation/*`) | `outcome_log`, `disputes` | append, reconcile, flag, mark published, dispute, resolve | Horizon, the publisher, the browser |
| Intent routes and shared request state (`app/api/intent`, `app/api/v1/intent`, `lib/api/{shared-state,rate-limit,idempotency}.ts`, `lib/intent/replay.ts`) | counters, nonces, stored responses; a copy in each instance's memory | count, look up, claim, build, store, prune | the browser, agents |
| Recurring intents (`lib/recurring/*`) | intents and their history | register, evaluate, pause, resume, cancel, delete | quotes |
| Withdrawal drawer and page (`components/offramp/ExecuteDrawer.tsx`, `app/offramp/page.tsx`, `hooks/useWithdrawStatus.ts`) | the drawer's step, the flow in hand, what is tracked and signed | quote, KYC, build, sign, submit, poll, report, restore | wallet, anchor, Horizon, append route |
| Deposit drawer and page (`components/onramp/*`, `app/onramp/page.tsx`, the same hook) | the same, a preflight of the wallet, a token per tracked deposit | check, authenticate, open, track, report, restore | the same |
| Webhooks (`lib/webhooks/*`) | subscriptions, delivery log, last health snapshot | subscribe, emit, dispatch, retry, diff | the tick and other routes |
| Rate cache (`lib/api/{rate-cache,rates-resolver}.ts`) | comparisons by key, an index by anchor, refreshes in flight | answer, refresh, invalidate, clear | anchors |
| Probes (`app/api/reputation/refresh/route.ts`, `lib/reputation/{probe,health,aggregate}.ts`, `lib/stellar/{sep1,toml-cache}.ts`) | `probe_samples`, a toml cache and last good tomls per instance | sweep, probe, write, judge, report coverage | anchors; the coverage report is the publisher's gate |
| Nightly health ledger (`scripts/validate-anchors.mjs`, `.github/workflows/nightly.yml`, `lib/stellar/{anchors,health-ledger}.ts`) | the committed ledger and its history, pull requests | probe, propose, merge, deploy, answer by date | anchors, GitHub; hides degraded anchors |
| Router (`lib/router/{solve,hops}.ts`, connectors) | none: a plan, a chain of hops in hand | solve, split, fall back, plan and execute hops | quotes, anchors |
| SEP clients, scoring, MCP and GraphQL, SDKs, pages | caches or none | requests and pure computation | anchors, Horizon |

An outcome's way through them: the browser reports it when a withdrawal reaches a
terminal state (`POST /api/reputation/append`). A cron run asks Horizon for the
payments of its transaction and stamps the delivered amount
(`GET /api/reputation/reconcile`). Another cron run, the publisher tick, takes the
shared lock, reads the reconciled rows nobody has marked yet, sends each to the
contract and marks it with the transaction, if the probes of a third cron run cover
enough days. The contract files it on the page of its anchor and adds it to the
aggregate of its corridor. All runs fire every few minutes, may overlap each other,
may be killed at 300 seconds, and share nothing but the database and the ledger.

### What is hard about it

* **Two stores without a transaction between them.** A write lands on the ledger
  and the row is marked in Postgres afterwards; the process may die, or an answer
  may get lost, anywhere in between. The same holds between an event and the
  snapshot it is computed from, and between a payment and the browser that made it.
* **A store with a second one behind it.** Limiter, nonces and stored responses fall
  back to the memory of an instance while a query fails, and come back.
* **A lock without an owner.** The lock row says when it expires, not whose it is.
* **Snapshots.** Every run reads its rows once and awaits a network call for each.
* **Queues in order.** One failure ends a publisher batch, and a row the contract refuses
  ends every batch it comes to.
* **A page structure that hides without deleting**, counters that refuse instead of
  wrapping, and configuration that is stored twice.
* **Time-locked authority** that changes hands while a clock runs.
* **Client flows** that go on behind a closed drawer, with a retry button, a quote that
  expires, a wallet that is switched, and a page that is reloaded.
* **Verdicts about others.** A request of ours that fails must not count against the
  anchor, and a gap in the probes must close the gate.

### What makes each part correct

* Registries: flag and list say the same; a scope never survives its publisher.
* Outcomes: the live history is exactly the sequence of submissions since the last
  reset, whatever the paging; nothing stored is rewritten; no pair jams.
* Custody: code goes live only as announced and after the whole delay; a handover
  leaves no nomination of the old holder behind.
* Corridor data: both views of the metrics agree; better metrics never score lower;
  volume cannot overflow; a rate moves within its band; a refresh that goes through
  leaves the newest figures, whatever else was refused.
* Publisher: one tick at a time; each copy of a row on the ledger is accounted for
  by a mark or by a failure; a published row is final; a reconciled row gets there while
  the gate stays open, if none that the contract refuses is ahead of it.
* Outcome ledger: what is published was paid by the account that signed the row; what
  a row says is never rewritten; a row goes through its stages in order, and one that the
  ledger bears out is settled.
* Intent routes: one transaction per live nonce and one response per stored key, as far as
  the database answers; a bound on what a window admits, also while it does not.
* Recurring intents: no cycle that the user or the terms have ruled out.
* Withdrawals: one flow behind a drawer, no twin payment, each report under its own
  signature, and every signed outcome reported while the token lasts.
* Deposits: none opened for a wallet that cannot be paid, one report each, and a reload finds
  the deposit that was followed.
* Webhooks: the log is what happened; subscribers know what the snapshot knows.
* Rate cache: an invalidation misses nothing; refreshes of a key do not pile up.
* Probes: answers match the ledger; accusations are founded; the gate is earned.
* Nightly ledger: an anchor is hidden for failing on as many nights as asked; the past
  stays as it was told.
* Router: plans keep the intent's terms, refusals have a reason, advice to retry a
  failed chain is safe.

`PROJECT.json` lists every component with its status, and under `hazards` each place
in the code where one of these may go wrong, with the properties aimed at it.

## 2. The modules

| Module | Models | Composition |
|---|---|---|
| `Registry` | `anchors.rs`, `corridors.rs`, `publishers.rs` | extended by the next two |
| `OutcomeHistory` | `outcome.rs`, `history.rs`, `aggregate.rs` | its steps and the registry's interleave |
| `CorridorOracle` | `score.rs`, `migration.rs`, `corridor_rate.rs`, `volume_savings.rs`, `probe_signals.rs` | its steps and the registry's interleave |
| `OutcomeLog` | abstract: a log per anchor that grows and may be hidden as a whole | refined by `OutcomeHistory` |
| `ContractCustody` | `admin.rs`, `upgrade.rs` | stands for the admin gate of the modules above |
| `PublisherTick` | tick route, outcomes of `batch.ts`, `gate.ts`, `lock.ts`, lock queries of `shared-state.ts` | refines `OutcomeLifecycle` |
| `OracleRefresh` | the three refreshes of `batch.ts` behind a batch, `lib/oracle` | the batch is one step; the contract is its guards |
| `OutcomeLedger` | append, reconcile and dispute routes with their queries | refines `OutcomeLifecycle` |
| `OutcomeLifecycle` | abstract: recorded once, then disputed, or reconciled and then published | refined twice |
| `IntentRequests` | the two intent routes, limiter, stored responses, nonces, each with its fallback | |
| `WithdrawFlow` | `ExecuteDrawer.tsx`, the off-ramp page, `useWithdrawStatus.ts`, the payment of `horizon.ts` | its reports are the input of `OutcomeLedger` |
| `DepositFlow` | `DepositDrawer.tsx`, `TrustlinePreflight.tsx`, the on-ramp page, the hook, `session.ts` | |
| `RecurringIntents` | `lib/recurring/{store,scheduler,cadence}.ts` | |
| `RateCache` | `rate-cache.ts`, `rates-resolver.ts`, the invalidation route | |
| `Webhooks` | `lib/webhooks/*`, the subscription routes, the snapshot row | |
| `ProbeLedger` | the refresh route, the probes, the toml cache, `health.ts`, the coverage report | its `ThresholdMet` is the `covered` of `PublisherTick` |
| `HealthLedger` | the nightly job, the committed ledger, its requests and its dated answers | |
| `Router` | the solvers and the fallback of `solve.ts` | |
| `HopChain` | `hops.ts` and the three connectors | |
| `*Proofs` | the theorems about the module of that name | extend it and `TLAPS`; `ContractProofs` has those about `ContractCustody` and `CorridorOracle` |
| `ScheduledProofs` | the theorems about `ProbeLedger`, `HealthLedger` and `OracleRefresh`, which run on a schedule | extends the three, which their distinct names allow |
| `ServicesProofs` | the theorems about the other services of `MCServices`, and about its choice among them | extends `MCServices` and `ScheduledProofs` |
| `MC*` | constants for TLC, and the choice among parts that one run checks side by side | extend one module each; `MCContract` extends `CorridorOracle` and `ContractCustody`, `MCServices` nine modules, and it instantiates a second `ProbeLedger` |

The data is abstract (rows, hashes, accounts are model values), the control is not:
an action is one contract call, one request, or one stretch of a run between two
awaits, with all the guards and writes of the code in it. Where the source has a
constant the module has a CONSTANT with the assumption the proofs need, named
after the code's (`PAGE_SIZE` is `PageSize`). A missing storage entry is modelled as
what the code reads in its place. Definitions that are a near miss of the one after
them (`AnyUnmarked` before `Pending`, `Oldest` before `Newest`) are wrong on purpose:
they are the mutants that `PROJECT.json` names, and each property is shown to fail
under one of them.

### The contract

A Soroban call is one transaction that an error rolls back entirely, so a call is
one step and a refusal is a stutter. `require_auth` is in `ContractCustody`, where
a caller may be anyone, and left out of the other modules, whose admin calls are
the ones that passed the gate. Storage lifetimes (`extend_ttl`) are left out: an
archived entry is restored on access. In `CorridorOracle` a deployment starts either
empty or as an earlier version left it, with v1 metrics that have no v2 record;
`migration.rs` exists for the latter.

### The publisher

`PublisherTick` has a program counter per invocation, at its awaits: reading the
batch and the coverage report (`fetch`), `submit_outcome` (`submit`),
`add_volume_savings` (`volume`), the UPDATE (`mark`) and the release of the lock.
`chain` is the ledger, a sequence of writes. A write may land and be answered,
land and be answered with an error, not land and be answered with an error; the
process may be killed before, during or after each. Time is what is left of the
lock and of each invocation.

What it takes for granted, with the reason:

* A killed tick's request takes effect at the kill or never: the transaction
  carries the publisher account's next sequence number, so it lands before the next
  write of that account or not at all.
* An answer with a transaction hash means that the write took effect. The SDK's
  `signAndSend` waits for that.
* The lock table answers. When it does not, `lock.ts` falls back to the memory of
  the instance, where two ticks may run at once.
* Whatever else runs under the lock touches none of this state.

Two kinds of row never get through, and both can be posted. A `Refused` row fails in
`submit_outcome`: the append route takes a settle time of up to 90 days, the contract of a
million seconds. An `Unaddable` one fails in `add_volume_savings` (`VolumeRefused`): the
route takes an amount of up to 10^15 USDC (`schema.ts:70`, `108`), the contract a volume of up
to 10^12 (`volume_savings.rs:25`, `58`). Its outcome has landed by then, so every tick that gets
to it puts one more copy on the ledger. Past `MaxCopies` these copies are no longer recorded;
any other write is. The coverage is short, met, or has a gap, and a gap stays: the report
counts every missed UTC day since the first probe (`aggregate.ts:597`).

`OracleRefresh` takes up behind the batch. Each phase (`Read`, `Write`, `EndPhase`) asks
for the log anew, so rows come in between them; `Newest` is the `LIMIT` of its query,
`DeriveRate`, `DeriveMetrics` and `DeriveSignals` are the derivations in integers, of sets of
row numbers: where the code sorts values and indexes them, `Nth` picks the value that fewer
than k are below and at least k are not above. A row may have no settle time (`Timed`), and a
pair without any is published with 0. The signals are derived by domain and stored by anchor
(`AnchorOf`), in the order in which the domains sort (`InTurn`), so of two domains of an anchor
the later one's figures stay. `Accepts` is the guards of the contract. `RunBatch` keeps of the
outcomes what decides whether the phases run: the batch was not empty and nothing threw.

### The outcome ledger

`OutcomeLedger` has the table itself, the snapshot each reconcile run still has to go
through and the row whose payment it has just read. `Source` says who sent the
payment a transaction carries, or that it carries none; Horizon not knowing a
payment yet is a failed lookup. Clients may post any row, signed by any
account, and any of them again; the publisher is one step here and `PublisherTick`
has the detail. The limiters and the rate of filings only refuse requests, so any
request may be the one that passes.

### The intent routes

A request in `IntentRequests` walks through `lookup`, `parse`, `claim`, `claimed`, `build`
and `store`. At each query it either uses the shared row, or the query fails (with or
without taking effect) and it goes on in the memory of its instance; what that
memory holds stays there when the database is back. Instances are recycled with
their requests. Prunes that the code sends and does not await run at any later
time, with the clock they were sent with. A reply is its status and the request
that built it, so two replies are the same transaction only if one replayed the other.

### Withdrawals and deposits

A flow is one call of `handleExecute` (or `handleDeposit`), in the state of the await it
stands at; the drawer has a step of its own, which only a flow of the present
visit still writes. Closing the drawer, pressing Retry, a quote that expires, a wallet
switched, leaving the page and reloading it happen between any two awaits. A
submission may be answered, refused, or lost with the payment still to land;
`built` is the sequence number it was built with, and of two payments with one number
one fails. `useWithdrawStatus` is `Poll` and the effect `Append`, which runs in the same
step as what triggers it. Its SEP-10 token is the one the flow began with and may expire at
any time (`TokenExpires`): from then on every poll is refused, and nothing fetches another. `DepositFlow` keeps apart the wallet connected now and the
`payee` of a call, and has what the ledger says of each (`standing`), which only improves:
an issuer who revokes an authorisation after the check is left out, and so is a wallet that is
disconnected with no other in its place. `SaveJwtToSession` may leave the token of a tracked
deposit unstored, which the code does not notice (`session.ts:8`).

### The services of `MCServices`

These parts share no state, so one run checks them side by side: the initial state
chooses one, and the others stay as they begin. Nine of them are extended, with names
that do not meet (`RecurringInit`, `HooksInit`, `ProbeInit`), so that a theorem and the run
are about the same definition; the tenth, a second kind of probes, is an instance.
Whichever is chosen, the run keeps to that service's own specification, which is a theorem too.

* `RecurringIntents`: `evaluateAllDueIntents` reads its list once and keeps its time; any
  exported function may run while it awaits a quote. Whether a quote is good is open.
* `RateCache`: fetches of all requests overlap and are stored in the order they return;
  `inFlight` forgets a key when any refresh of it ends, as the code's `finally` does.
* `Webhooks`: a job per event and subscription, with its attempts and the record it
  leaves; invocations die with their jobs; a health run is `ReadSnapshot`, `EmitChanges`,
  `StoreSnapshot`. A subscription of an earlier deployment may have a target that is blocked
  today: its deliveries are dead letters without an attempt (`NewDelivery`). Anchors join and
  leave the ledger; `unsaved` and `departed` remember of whom subscribers were told what no
  snapshot says, until they are told again.
* `ProbeLedger`: a sweep starts all probes, each fires its write and does not wait. The
  INSERT may be confirmed, fail, or commit and lose its answer, which the sweep counts as
  failed; the anchor may change what it serves at any time, and the probe may see the
  cached document. It runs twice, with different kinds of probes.
* `Router` and `HopChain`: pure but for the fallback's rounds and the chain's progress;
  checked on every choice of a few quotes, and on every chain of up to three hops.
* `HealthLedger`: a run takes its checkout, probes and proposes, and may end anywhere; its
  request is merged or discarded now, later or never, under the commit's own date or a
  new one. That two ledgers made from one do not merge is git's doing (each changes the
  date), and `Mergeable` says so.
* `DepositFlow`: described above. `OracleRefresh`: its bound on the log allows three rows
  without a probe sample, or one row with three, because the two kinds do not meet.

## 3. What is checked

Deadlock is checked too, except in the runs of the intent routes and of the services, whose
requests and events are finite in number and come to an end. States are distinct states.

| Run | Instance | States | Shows |
|---|---|---|---|
| `outcome_history` | pages of 2, 3 pages, counters that stop at 2 | 524 976 | the paged history implements `OutcomeLog`, each call is the log's step of its name, the reader returns the newest live outcomes, a registry's list is its flags |
| `contract_data_and_custody` | 2 corridors, one in the default list, 4 valid metrics and 3 refused; or 3 accounts, 2 hashes, delay 2 of 5 ledgers, 4 upgrade calls | 1 302 052 | v1 and v2 views agree in any order of migrations and writes, better metrics never score lower; the delay is waited out for the announced hash across cancellations, replacements and handovers |
| `publisher_tick` | 3 rows, one whose outcome or whose volume is refused, 2 ticks, batches of 2, 2 attempts, 2 faults, or 1 beside a refused volume | 225 571 | one tick at a time, an account of every copy on the ledger of any other row, the lifecycle (which includes that a published row is final), and that rows get published while the gate stays open, unless they queue behind the refused one |
| `outcome_ledger` | 2 intents, 2 accounts, 2 transactions, 2 runs, 1 dispute, 1 fault | 53 745 | only witnessed rows are published, nothing is rewritten, the lifecycle, and that witnessed rows get settled |
| `intent_requests` | 2 instances, up to 3 requests, 1 nonce, 1 fault, 1 restart | 857 085 | one transaction per live nonce, equal replies for a stored key, each up to the failures it names |
| `intent_limiter` | 1 instance, 4 requests, a maximum of 2 in a window of 2, 4 faults, 1 restart | 130 066 | an instance that counts alone admits less than twice the maximum in a window |
| `withdraw_flow` | a rate of each protocol, 2 flows, 2 page visits | 200 476 | one flow per drawer, no twin payments, reports under their own signature, and that a tracked withdrawal is reported, unless its token expires first |
| `services` | the ten services below, one per initial state | 1 854 955 | seventeen properties, each of one service, and the types of all |

| Service of `services` | Property | In words |
|---|---|---|
| `recurring` | `RunsAreAuthorised` | no cycle is executed while its intent is paused or closed, after the stop date, beyond the limit, or sooner than a cadence after the one before |
| `cache` | `InvalidationReachesAll`, `RefreshesAreFew` | an anchor's index lists each entry that holds its rates; a key has one refresh at a time, and each clearing allows one more |
| `webhooks` | `LogIsHonest`, `SnapshotIsTold` | a record says what happened, unless a write of the log failed, and a dead letter without an attempt is of a blocked target; subscribers were told what the snapshot says of each anchor but those told and then not stored, and those that left the ledger degraded, and of these once they are told again |
| `probes`, `accusing probes` | `RepliesMatchTheLedger`, `AccusationsAreFounded`, `GateIsEarned` | a sweep reports no row that is not in the ledger, and what else is there of it is among those it calls failed; a comparison that counts against an anchor rests on something the anchor said, an uptime or quote row on a document or quote that did not come; the gate opens only when each of the last days was probed |
| `solver` | `PlansKeepTheTerms`, `RefusalsAreFounded` | a plan keeps amount, floor, deadline and budget, and no better quote is passed over; what is refused cannot be had, but for a capped split and the rounding of legs |
| `hops` | `RetryAdviceIsSafe` | advice to retry the whole route is given only if nothing moved and nothing the user holds still can move |
| `deposits` | `PayoutsCanLand`, `ReportedOnce`, `ReloadsFindTheDeposit` | no deposit is opened for a wallet that cannot be paid, unless the wallet was switched meanwhile; no transaction is reported twice; a reload finds the deposit that was followed if its token was stored, and never another |
| `nightly ledger` | `DegradedIsEarned`, `PastDatesAreSettled` | an anchor is hidden only if it failed in as many ledgers in a row, of different nights, as the threshold says; what history answered for a date stays its answer and is of no later date |
| `refresh` | `CleanRefreshIsCurrent` | after a refresh without failures the contract has the newest figures, and of an anchor those of the last of its domains, except a rate outside its band and a median settle time beyond its cap |

Four runs show where a document and the code part (`findings` in `PROJECT.json`):

| Run | The document | What happens |
|---|---|---|
| `publisher_idempotent` | "Soroban writes are idempotent keyed on `intent_hash`" (docs/ARCHITECTURE.md) | the contract keeps no key; a lost answer and a retry put the row on the ledger twice |
| `publisher_delivery` | "At-least-once delivery" (same line) | a row the contract refuses (a settle time over a million seconds, which the append route takes) stays at the head of the queue and ends every batch; the rows behind it are never sent, with no failure at all |
| `ledger_coverage` | "Every terminal intent produces an outcome tuple the publisher writes" | a row posted with its delivered amount is never due for reconciliation, so it never reaches the publisher |
| `deposit_reports` | a declined signature leaves no outcome context, and the hash is bound "to this anchor session" (`app/onramp/page.tsx`) | a deposit begun while the first is tracked inherits its context: if its own signature is declined it is posted under the first one's intent hash and signature |

### Why the bounds are enough

* *Outcome history.* Two entries a page and three pages give every case of the page
  arithmetic: empty, partial and full head page, a roll-over, a reset on either side
  of one, a walk over a full and a partial page, and the trap at the last page.
  Counters that stop at 2 are reached. One anchor, because no call touches two; the
  proofs of section 4 cover any number.
* *Corridor data.* On a scale of 100 the sample metrics reach both clamps, rounding in
  both directions, the settle time of 0 and the score of 0 with and without a
  count; the rates include an odd one (3 may fall to 1), one that may not fall
  further and one whose double overflows; two increments of the cap fill the volume.
* *Custody.* Three accounts are a holder, a successor and a bystander; four upgrade
  calls are enough to announce, replace or withdraw, announce again and apply;
  a delay of two ledgers in five leaves room for a wrong clock.
* *Publisher.* Two ticks can overlap, and a third only repeats what a second does to
  the lock. Three rows in play are one of each kind (completed, not, one that the contract
  refuses) and one more than a batch; `MCPublisherTick` chooses in the initial state whether
  the third is a refused or an unaddable row. Two attempts have a first, a retry and an end of retries. Two faults
  allow a lost answer and a kill, or a kill that leaves the lock and a gap in the
  coverage. The lock outlasts a run by one unit of time, the margin the code has. Two
  recorded copies of an unaddable row are one from each of two ticks, and what the third would
  add touches no other row. One fault is enough beside such a row, which needs none to
  come back.
* *Outcome ledger.* Two runs can both hold a row in hand; two accounts can both claim a
  hash; the two transactions are one with a payment and one without.
* *Intent routes.* `MCLoad` names the bags of requests: three posts of one signed intent,
  the same nonce on both routes or under two deadlines, two unsigned keyed posts,
  refused bodies. Two instances have each a memory the other does not see. One
  failed query can hit any step of any request; one restart forgets one memory. The
  limit is one request, the window two and the stored time one unit, so a clock that
  stops at 2 crosses both. The limiter has a run of its own, because its bounds need more
  requests and failures than the rest can bear: with a maximum of 2 an instance alone may
  admit 3 in a window and not 4, so there are four requests, each of whose queries may fail,
  and a clock that stops at 3 and so holds two shared windows and a local one across them. One instance, since each
  counts for itself.
* *Withdrawals and deposits.* Two flows can meet in one drawer and one page; two visits
  have the reload between them. Two wallets are the one checked and the one switched to.
* *Services.* An intent, a subscription, an anchor's probes do not touch those of another,
  so one of each. Two evaluations, two sweeps, three fetches can overlap. An
  intent's history of three holds a limit's worth of runs or skips and one more. A limit of
  two runs, a stop date, two attempts and a threshold of two days in three are reached
  and passed. Three quotes can be ranked, split and capped; chains of three have a
  first, a middle and a last hop. The refresh reads a window of two out of three rows,
  whose medians 2 and 7 lie outside each other's band, in batches of two, with a settle
  time the contract refuses and one that is missing; the first of two anchors has two
  domains. Two deployments let an anchor change and change back, or leave and return. One
  fault each. Three nightly runs, two of them at once, on
  three days, with a threshold of two and an anchor that leaves the registry,
  are enough for a night counted twice, a streak lost and a late request.

### Fairness

* `PublisherTick`: the cron fires for ever, so some tick that may take the lock does so
  (weak fairness of `\E w : Acquire(w)`, not of each tick); the runtime resumes each
  await, so each tick's successful answers are fair; time passes. Failures are never fair and
  are finite in number (`faults`), so an endless outage is outside the liveness claim. Nothing
  obliges the coverage to be met, and one missed day rules it out for good, so
  `EventuallyPublished` promises a row only as long as the gate is open: it gets published,
  or the gate shuts, or it queues behind a row the contract refuses.
* `OutcomeLedger`: the cron starts runs, and a run goes through its rows. The publisher is
  under no obligation here: what it owes a settled row is `EventuallyPublished`.
* `WithdrawFlow`: `useWithdrawStatus` keeps polling (`Poll`), failed polls included, so that
  a poll is answered while the token is good; and the anchor brings a paid transaction to an
  end (`Settle`). With an expired token `Poll` is disabled for good, and `TrackedIsReported`
  excepts a transaction whose token expired before a poll had seen the end. Nothing obliges
  the user to do anything.

## 4. What is proved

TLAPS checks every proof in the `*Proofs` modules; nothing is left out or assumed but
the ASSUME of each module (`RegistryAssumption`, `HistoryAssumption`, `CustodyAssumption`,
`TickAssumption`, `LedgerAssumption`, `OracleAssumption`, `RequestAssumption`,
`CacheAssumption`, `WithdrawAssumption`, `DepositAssumption`, `RecurringAssumption`,
`WebhookAssumption`, `HopAssumption`, `HealthLedgerAssumption`, `ProbesAssumed`,
`RouterAssumption`, `RefreshAssumption`, and `AccusingAssumed` of the second probes), which
TLC evaluates in each run. They say what the
code's constants satisfy: page size and batch size are positive, a cron run's time is
shorter than its lock, a full count of largest increments fits its accumulator, a cadence
moves time on, there are domains to probe and finitely many, the readiness gate asks for at
least a day, amounts and prices are whole numbers of a scaled unit, and so is the slippage
of a row.
`PROJECT.json` lists the theorems with the property each one generalises. A theorem
without one states something the runs do not repeat: `RateMovesAreBounded`, say, which is
close to its guard, `PublishedIsFinal`, which the lifecycle includes, or
`NominationsAreCurrent` and `SharedWindowsAreCapped`, which few steps can disturb.

**`OutcomeHistoryProofs`.** `HistoryInv` is the types of the history, `PagesShape` and
`AggregateBounds`. `PagesShape` is nearly inductive by itself, but needs the types
to rule out a page number past the last. A submission is split by `WriteHead`: the
head page has room, or it is full and the next page was never written
(`WriteHeadHasRoom`). `SumNeverRefuses` follows from `settleSum <= total * MaxSettle`:
the product of two 32-bit caps is below 2^64. `HistoryOnlyGrows` compares the pages
of one step. `OnlyWhitelistedAreScoped` is an invariant of the registry alone.
The live log of an anchor is a function of head, floor and pages whose index is a
division by the page size. `BlockOf` and `DivModUnique` turn positions into (page,
offset) pairs, `LiveEntryInBounds` uses `PagesShape` to see that each of them holds an
entry, `SubmitAppends` that a write adds exactly the next position. Together: each
step of the paged history is a step of `OutcomeLog` or leaves every log as it is, and
a call is the log's operation of its name (`HistoryRefinesLog`,
`OperationsAlwaysMatchLog`), for every page size. Two loops of the contract are recursive
functions, the removal from a registry's list and the walk of the reader over its pages.
For these `SetInduction` takes the place of the library's induction: a set of numbers that
holds 0 and the successor of each number it holds is all of them. A first induction shows
that the recursive function exists, a second what its values are: a list without one
publisher lists each of the others once (`ListedWithoutIsListed`, hence `ListsAlwaysMirrorFlags`),
and a page read to its start and continued on the page before gives the newest entries
(`IsNewest`, `ReadIsNewest`, hence `RecentIsAlwaysNewestLive`).

**`ContractProofs`, corridor data.** `OracleInv` says that a v2 record is the expansion of the
present v1 record (so it does not matter which one a view answers from), that
an accumulator is at most a full increment per counted settlement, and that rates
and probe signals have their types. `CompositeMonotone` is about the arithmetic alone:
`RoundedBounds` says without division what rounding half up means, and
`RoundingMonotone` that a larger dividend and a smaller divisor never round to less,
for odd divisors too, where the half that is added is truncated.

**`ContractProofs`, custody.** `UpgradesWaited` is not inductive: nothing in it ties the
pending upgrade to the announcement it came from. `PendingIsLatest` does: a pending
upgrade is the last recorded call, an announcement of its own hash, and its eta is at
least the announced time plus the delay, or the saturated maximum.
`NominationsAreCurrent` is inductive.

**`PublisherTickProofs`.** `LockInv` adds `Deadline` to the types: a running tick has less
time left than the lock. That is what replaces the missing owner: when the lock
has run out no tick runs, so whoever takes it, or deletes it, is alone. `BatchInv`
says of the one running tick that its batch holds distinct unmarked rows and that
`sent` is a copy of the row in hand. `StampedWithOwnTx` and `PublishedIsFinal` follow.
For `CopiesAreAccounted`, at most one running tick holds a confirmed copy it has not
marked; every step is of one of six kinds (nothing changes, a copy is confirmed,
strays, is kept, dropped, or its row marked), and each kind balances the account of a row
whose volume can be added. Of another row the account says nothing, and its refusal moves
no other row's.
For `RefinesLifecycle`, `StageInv` says that a batch holds reconciled rows however old
it is, since no step takes a reconciliation back.

**`OutcomeLedgerProofs`.** `LedgerInv` has a part about rows and a part about
snapshots. `RowsSound` says what flags mean: a reconciled row is a withdrawal witnessed by a
payment from the row's signer, a disputed one names a payment from somebody else,
a published one is reconciled. `SnapshotsHold` says what stays true of a row in a
run's list however old the list is: the row exists, is a withdrawal with a
transaction, and is not one the client claimed. Hence overlapping runs agree, what
is published was witnessed, no row is rewritten, and each step maps to a step of
`OutcomeLifecycle` or to a stutter.

**`IntentRequestsProofs`.** `StepEffect` works out once what a request may do in one step: go
on, answer, claim its nonce, pin its row or store its reply, in the shared table or in the
memory of its instance. The rest is `Inv`, in three parts. A key has one row (`OneRow`), and a
request that pinned its reply finds it there until it expires (`PinnedRowIsThere`), so
pinned replies agree. A reply that carries a transaction was built by a request that had
been told of its nonce, and not that it was taken (`ClaimsByStep`, `RepliesAreFounded`); who
claimed a live nonce from the table has it there until its deadline (`NonceIsHeld`), so
nobody else does. What a window admits is bounded where it was counted, in the table
(`SharedBound`) or in a memory (`LocalBound`), which are two theorems. An instance's window
starts with its first request, so at most two of them meet a shared one, hence twice the
limit less one.

**`WithdrawFlowProofs`.** `NoTwinPayments` says nothing of a payment that has yet to land.
`PaymentInv` adds what sequence numbers say of one: it was built for a number the
account has used, or for its next (`NumbersAreUsed`), and on a ledger that had every
payment with a smaller one (`EarlierWasSeen`). `DrawerInv` adds for `OneFlowPerDrawer` that
the terms, whose acceptance begins a flow too, are shown over an idle drawer only.
`ReportInv` is what makes `ReportsAreOwn` true, and it is a narrow reason: a drawer that
is done stays so until the page is left, so whatever is signed, or to be, is what this
page follows (`SignedIsTracked`).

**`ScheduledProofs`, probes.** `ProbeInv`: each document and key that is remembered, in a cache, as the
last good one, or by a sweep, was served at some time, and what was served is never
unsaid (`keysSeen` only grows); so a comparison that accuses was judged by something the anchor
did say (`FoundedOn`). `CountInv` balances a sweep: probes due, rows on their way, rows
confirmed and rows counted as failed add up to all it started, and what it has in the ledger
is what was confirmed and some of what it counts as failed, since an INSERT may commit
without saying so.
`GateIsAlwaysEarned` needs only that no row is dated after today: a range of enough days that
ends today, without a gap, has a row on each of the last days.

**`ScheduledProofs`, nightly ledger.** `NightlyInv` follows a ledger from the run that makes it
(`Made`: out of commit `b`, counting on from it) through the branch (`BranchOK`) to the commit
(`CommitOK`). Only a branch made from the newest commit merges, so nights and versions rise
along the commits and a streak was counted in as many of them in a row (`Counted`).
`AnswerOK` says that an answer was the last commit of its date, and that the date lies
before the deployed ledger's; whatever is merged later has a later date, so it stays the answer.

**`ScheduledProofs`, refresh.** The k-th of a set of values exists whatever the set's size
(`NthIs`: the least value that at least k do not exceed), and rises with k. So the middle of
the values, rounded either way, has at least half of them on each side (`MiddleIsMedian`), the
nearest rank covers its percentage and no smaller value does (`RankIs`), and a rounded
quotient is the nearest share, of the scale at most (`ShareIs`). `CleanRefreshIsCurrent`
speaks of an idle tick only; `RefreshInv` says what holds on the way there, while nothing has
failed: a key still to be written has a figure derived from the rows its phase read
(`RateDue`, `MetricsDue`, `SignalsDue`), every other key of that phase or an earlier one
is current, and rows that came in since are beyond `asOf`. A write turns a due key into a
current one, or the contract refuses it. A refused settle time is a median above the cap
(`TooSlowFor`), and the contract never refuses derived signals, since ranks rise. A
phase of signals goes through the domains in their order, so those still due come after all
that were written (`InTurn`), and an anchor's entry is that of the last of its domains once
none of them is due. A new batch
takes `clean` back before anything is read.

**`ServicesProofs`, rate cache.** An entry is dropped only together with its key in every index,
so what an index of an anchor does not list holds none of its rates; a refresh starts
only where no mark is, and a mark is taken away by the end of a refresh or a clearing.

**`ServicesProofs`, deposits.** `LandInv` follows each deposit from its check to its opening: the
check is of the payee unless the wallet was switched (`CheckedIsReady`), and a standing
once ready stays so. `ReportInv`: what is tracked or stored belongs to a call that is
over, and what was reported is marked or no longer found, so neither a new deposit nor
a reload brings it back. That a reload finds the deposit it left, if the storage took its
token (`ReloadsFindTheDeposit`), follows from the address naming whatever is tracked and
unseen, which is inductive by itself. `DepositTyped` gives the
variables the two leave out: a deposit that has begun has a wallet behind it, since a
deposit begins only with a wallet connected, and one wallet gives way only to another
(`AccountTypes`).

**`ServicesProofs`, hop chains.** `HopInv`: what the user holds is what the successful attempts
handed out, and there is no advice before the end; so advice to retry meets empty hands.
`HopShape`: an execution takes up a whole plan and goes on only while a step of it is left, so
no attempt is without its step and no step without its hop (`HopTypes`).

**`ServicesProofs`, webhooks.** `Honest` says for each stage of a delivery what its log may hold and
what it may not have lost (`DeliveriesOK`). `HealthOK` says of a health run that what it has
read is still what is stored, because no other run stores in between, and that what it is
about to store has just been told. The log's part holds until a write to
the log is lost, which the delivery remembers (`unlogged`). The snapshot's part is kept anchor
by anchor: of one that is in neither `unsaved` nor `departed`, what was told is what is stored,
and a run that stores takes those it has told of out of both.

**`ServicesProofs`, recurring intents.** `RunsAreAuthorised` compares entries of a history and says
nothing of the next. `Authorised` adds that the next cycle is due no earlier than a cadence
after any that ran; `RecurringInv` adds that an intent that is not registered has no
history, so a deletion in the middle of an evaluation leaves nothing behind.

**`ServicesProofs`, router.** Totals and the walk over the ranking are recursive functions, so
each is first shown to exist, then to have its values (`TotalAppends`, `WalkedIs`), and
`TotalsCompare` turns what holds of every quote into what holds of the sums. `WalkOK` says
beside the walk's state what was taken of each quote: it sells what no longer remains, its
legs are different walked quotes within their size, and prices fall along it. Hence
`PlansAlwaysKeepTheTerms`. That a refusal is founded is the optimality of a greedy split, if
the cap admits every live quote. When something remains, every quote was taken whole, so no
allocation sells more (`NothingMoreToSell`). Otherwise there is a price below which nothing
was taken and above which everything was (`ThresholdExists`): moving an amount from the
walk's quotes to others then never gains (`Exchange`), quote by quote, so no allocation is
worth more before rounding, and rounding takes less than a unit from each leg
(`GreedyIsBest`). `RouterProgress` is what the fallback adds: whoever was asked is excluded or
has won, so nobody is asked twice.

**`ServicesProofs`, the run.** `ServicesTypeOK` is a statement about whichever service the
initial state chose. `BeginsItsService` and `KeepsToItsService` say that the run starts as that
service starts and that each of its steps is a step of that service or none of
its variables change; so the run is a behaviour of that service's specification, and the
types proved of the service hold in it. The second kind of probes needs its
instance's steps recognised as steps of the instance the proofs are about (`AccusingStep`,
`AccusingInit`, `AccusingTypes`). The same three facts carry any other theorem about a
service over to the run.

## 5. What is only model-checked

* Liveness (`EventuallyPublished`, `WitnessedRowsGetSettled`, `TrackedIsReported`):
  temporal reasoning from fairness is out of TLAPS's reach, as is ENABLED.
* The four violations of section 3, which are counterexamples and not claims.

Every invariant and every action property that a passing run checks is a theorem, for all
values of the constants that meet the assumptions, and so are both refinements
of `OutcomeLifecycle` and that of `OutcomeLog`.

The library's induction theorems take an operator, which no installed backend can
instantiate. Where a loop is a recursive function an induction over a set of numbers does
instead (section 4, `OutcomeHistoryProofs` and the router), and where it would be a sort, counting
does (the refresh); where it is a library operator nothing does.

## 6. What the code does that a reader may not expect

Met while modelling. A run shows those of section 3. Of the others some are marked with a
property (`LostRunsAreRepeated`, `MissingWasNotTold`, `UptimeIsObserved`,
`SignalsAreOfTheAnchor`, `StaleStreaksAreZero`, `SpendsOnlyWhatWasProduced`): their module
states it, no run lists it, and TLC refutes it when given `MCServices` with that property.
The rest are recorded with the lines they come from.

**Intent routes.** A response stored by a request whose row had expired but was not yet
pruned is not stored (the insert finds the old row), so until a prune the key is not
pinned, against `lib/api/idempotency.ts:35`. Two requests with one key that overlap both
build a transaction. A signed retry after a 500 gets a 409, though the route's comment
says it builds again. A nonce accepted from memory is accepted once more on the shared
path. All four are within the exceptions of the run's properties.

**Withdrawals.** A drawer that is done, shows a form, or shows an error that cannot be
retried stays so until a reload. The flow of a closed drawer goes on to sign and pay. A
quote that expires after the KYC check is paid anyway. A token that expires while a
withdrawal is tracked is never renewed: each poll is refused, and the outcome is not reported. After a lost answer the drawer
says that nothing has been sent; the payment may land, a retry may pay again, and the
first is neither tracked nor reported. `NoTwinPayments` bounds this: a second payment is
one whose builder could see the first on the ledger.

**Deposits.** Besides `deposit_reports`: the preflight follows the connected wallet while the
call keeps its payee (hence `switched` in `PayoutsCanLand`); a second deposit silently
ends the tracking of the first and leaves its token in the session storage.

**Recurring intents.** An intent paused while its quote is awaited may be completed by
that evaluation; one completed by an overlapping evaluation has a failure recorded; a
resumed intent that was paused for skips is paused again by its first skip. The batch
passes no `referenceRate`, so `maxSlippageBps` never applies. It uses its start time
throughout, so a late intent in a long batch runs after its stop date by the wall clock.

**Rate cache.** `clearRateCache` forgets the refreshes in progress, so "single flight"
(`rate-cache.ts:153`) holds up to one more per clearing. A fetch begun before an
invalidation puts the old rates back; an older forced fetch overwrites a newer one.

**Webhooks.** A failed log write after a 2xx leads to another delivery, or a dead letter
for what was delivered. The death of an instance loses deliveries with no record. If
events are emitted and the snapshot is then not stored, and the health flips back,
subscribers stay told wrongly (`LostRunsAreRepeated`); so they do of an anchor that leaves the
ledger while degraded (`MissingWasNotTold`). A blocked target leaves a dead letter that says
0 attempts. Deliveries go on after an unsubscription.

**Publisher.** A completed row with a volume above 10^12 USDC puts a copy of its outcome on
the ledger with every tick and is never marked, so `WritesAreIdempotent` fails of it without
any fault. The refresh phases run only if rows were pending and nothing threw
(`batch.ts:1029`), so a failed write is not "overwritten on the next tick" (`batch.ts:768`)
while the queue is empty or its head is refused. "Never throws" (`batch.ts:767`) leaves
out the client built outside the try (`batch.ts:783`, `848`). A rate outside its band is refused
on every tick until an admin resets it. `route.ts:126` reads all probe samples and
`aggregateProbeSignals` is given no window (`batch.ts:1169`), so the seven days of
`PROBE_WINDOW_DAYS` have no effect. The probe signals of an anchor are those of one of its
domains (`SignalsAreOfTheAnchor`). A pair whose completed rows have no settle time is
published as settling in 0 seconds. The delivered rate of failed rows counts in the
median. With the query's `LIMIT`, figures of a quiet pair are no longer renewed. While
the database refuses, `lock.ts:46` locks in the memory of an instance only.

**Disputes.** Accepting a dispute does not flag its row: neither dispute route calls
`markDisputed`, which `store.ts:79` says is "used by the dispute API".

**Probes.** The uptime probe goes through the toml cache (`sep1.ts:267`), so a warm instance
records an anchor that is down as reachable (`UptimeIsObserved`). A sweep whose INSERT
committed without an answer reports its row as failed, and a request of ours that was lost
counts against an anchor's uptime and quotes (`health.ts:76`). `toSep1TomlData` drops
malformed URLs, so the integrity check that should flag them never sees one. One missed
UTC day leaves a gap for ever, and the gate does not open again (`aggregate.ts:597`). A
streak that ended long ago is reported in full (`StaleStreaksAreZero`;
docs/ANCHOR_REPUTATION.md:107 says zero). A rotated signing key is accepted by a fresh
instance and flagged for ever by a warm one. `compactProbes` is called by tests only. The
sweep's lock may lapse under it, and its release then frees another's.

**Hops.** A connector succeeds by opening a session or handing out an unsigned
transaction, and the chain goes on; the downstream hop runs on an output nobody has
produced yet, and the message says that completed steps moved funds
(`SpendsOnlyWhatWasProduced`; `types/index.ts:612`). Two Soroswap hops share an id, so one
connector executes both (`types/index.ts:664`). A swap's output counts base units where the
yield connector reads decimals.

**Router.** With a cap on anchors the greedy split may refuse an order that other quotes
would fill; the rounding of legs may miss the floor by less than a unit per leg.

**Nightly ledger.** A repeated run on a day does not update the day's branch as
`nightly.yml:221` says: the push comes from a checkout that has never seen the branch,
`--force-with-lease` then refuses to touch it, and the job fails. If the branch was
deleted meanwhile, the push succeeds, but `gh pr view` also finds the merged or closed
request of the day, so there is no second one. A night whose request is not merged does not
count, so "consecutive nights" (`anchors.ts:17`) are consecutive merged ledgers, and a
recovery seen in an unmerged night is lost. Two runs across midnight may give two ledgers
one version, against `route.ts:21`. The ledger falls back to its own threshold
(`prevLedger.thresholdNights`), though `thresholds.ts:37` says that probe and ledger
debounce on the same number.

## 7. What is not modelled, and why

Candidates for the next modules, in this order:

1. The memory fallback of `lock.ts`, by the pattern of `IntentRequests`: what remains of
   `OneTickAtATime` while the database refuses.
2. The anchor health states and service levels behind the sweep (`lib/reputation/health.ts`
   beyond the verdicts), with the debounce of two observers.
3. `reconcile-volume-savings`, which compares with the quoted rate only, where the tick
   falls back to the median, so it may report mismatches that are none.
4. The retries of the client libraries: an overlapping retry after a ten second timeout
   against the intent route, in one module with it.
5. `solveChain` (`solve.ts:556`), once its quotes come from something with state.

Proofs to come: the theorems of these modules.

Limits of what is there: `DepositFlow` has no wallet that is disconnected with none in its
place; `CorridorOracle` takes it that metrics stored by an earlier version are in range; that a
publisher's scope is gone once it is revoked is a theorem (`OnlyWhitelistedAreScopedHolds`) and
not a property of a run.

Left out for good: contract events (emitted, never read back); the SEP-6 reducer (only
its test uses it); the SEP clients beyond what a withdrawal, a deposit and a probe ask
of them (input and output); scores and probe statistics (floating point); reading the
oracle for display (no state); signatures, attestations and hashes (a verdict here);
the publisher's command line; MCP, GraphQL, documentation and pages (views). `extend_ttl`
and archival are the ledger's. The SQLite store is for development.

## 8. Reading order

`Registry`, `OutcomeLog`, `OutcomeHistory`; then `OutcomeLifecycle`, `PublisherTick`,
`OutcomeLedger`; then `IntentRequests`, `WithdrawFlow` and `DepositFlow`; then the services,
in any order. Each module starts with what it models and ends with its properties, each
stated in words above its formula.
