# A verification of the portfolio site's backend

The repository is a personal site: a Go backend (`backend/`), a Next.js frontend
(`frontend/`) and its deployment. The backend is two processes, an **API**
(`cmd/api`) and a **worker** (`cmd/worker`), that share a Postgres database
(through Ent), an SQS queue, Redis and S3. What is difficult in it is not in any
single handler. It is in what two processes, an external runner, an administrator
and a human with a phone do to the same few rows in an order nobody wrote a test
for, and in what is left behind when one of them stops half way. This directory
models that in TLA+, checks it with TLC on small instances, and proves what
matters most for all instances with TLAPS.

## Inventory

| component | state it keeps | operations | who it talks to | modelled |
|---|---|---|---|---|
| job store and queue (`ent/schema`, `queue`) | `scheduled_jobs`, `job_runs`, the SQS queue | the statements and calls below | every job component | `JobStore` |
| scheduler (`jobs/scheduler.go`) | one pass: its now and its snapshot of the enabled jobs | fire due jobs, re-drive, reap, expire, sweep artifacts | store, queue, pushes | `Scheduler` |
| worker poll loop (`cmd/worker`) | the batch it received, the run it works on | claim, handle, finish, delete the message | queue, store | `Worker` |
| admin jobs endpoints (`api/admin_jobs.go`) | nothing between requests | create, update, Run now; service tokens | store, queue | `AdminJobs` |
| finance-sync handshake (`api/finance_sync.go`) | nothing between requests | acknowledge, claim, complete | store, pushes | `FinanceSync` |
| work API (`api/work.go`) | claim leases on artifacts | claim, complete | store | `WorkApi` |
| digest pipeline (`digest`, `fargate`) | sources, artifacts, digests, batches at Anthropic | scrape, assemble, summarise, persist, collect | store, S3, Fargate, Anthropic | `DigestStore`, `DigestWorker` |
| finance ingest (`finance/ingest.go`, `window.go`, `hash.go`) | accounts, transactions, pending rows, watermark | windowed ingest with hash de-duplication | store; the broker at home | `FinanceIngest` |
| bills (`finance/bills.go`) | bills, payments that link a cycle to a row | due dates, overdue, the matching pass, links by hand | store; the ingest starts a pass | `BillCalendar`, `Bills` |
| balance series and finance reads (`balance_series.go`, `read.go`) | none: derived from rows and readings on every read | the two bases of the series, pages, summaries | store, MCP server | `BalanceSeries` (the listings are left out) |
| authentication (`auth`, `api/auth.go`, `api/admin_grants.go`) | users, identities, grants, sessions | login, session on every request, logout, grant and revoke, delete account | Google, store | `Accounts` |
| OAuth server (`oauth`) | codes, rows of access and refresh tokens | consent, exchange, rotate, sweep, verify | authentication, store, MCP server | `OAuthServer` |
| MCP server (`mcp`) | none | tool calls onto the finance reads | OAuth server, finance reads | the point budget, in `BalanceSeries` |
| WhatsApp | batches, written by the request that streams them | send a batch through the sidecar | sidecar, Fargate | |
| Spotify refresher | cached payloads, a last-played record | the refresh loop | Spotify, Redis | |
| bearer tokens, contact form, content endpoints, notifications, e-mail, storage, configuration, frontend | little or none | one-statement CRUD, one external call | | |

Which behaviours are hard, and where each of them bites, is the list of hazards in
`PROJECT.json`; the main ones are: a scheduler pass that acts on a stale snapshot;
a committed run whose enqueue is lost; redelivery, re-drive and dead-lettering of the
same message; a process that dies between any two statements; sweeps that decide on
a row a runner is changing; handlers that read a status and then write by id; payloads
of the bank that arrive twice, late or in part; derived figures that must agree however
little is known; and requests that race for a code, a token family or an address.

## Modules

`JobStore` holds what both processes share and one operator per SQL statement or SQS
call. The atom of the whole development is one statement (or one transaction) or
one call: a handler that issues three is three actions with the interleavings the
database allows between them. Component modules extend it and each add a variable
with what the component remembers between its statements.

| module | models | state | actions |
|---|---|---|---|
| `JobStore` | the two tables, SQS, failures, the clock | `clock job run queue faults` and the histories `starts`, `reports` | statements; `DeadLetter`, `Tock` |
| `Scheduler` | `Scheduler.tick`, `evaluate`, `fire`, `maintenance` and `RecoverOnce` | `sch`: step, now, snapshot, rows a sweep still has to visit | `Tick`, `NotDue`, `InitPointer`, `Fire`, `FireConflict`, `Announce`, the queries and writes of the sweeps, and their failures |
| `Worker` | `run`, `process`, `processScheduled`, `finishRun`, `ack` | `wrk`: step, rest of the batch, run | `Receive`, `Claim`, `NotClaimed`, `ClaimFails`, `Finish`, `Ack` |
| `AdminJobs` | create-job, update-job, start-job-run | `adm`: a slot per request in progress | `CreateJob`, `UpdateJobRead`/`Write`, `StartRunCheck`/`Insert`/`Enqueue`/`MarkFailed`, `RequestFails` |
| `FinanceSync` | ackFinanceSync, claimFinanceSync, completeFinanceSync | `fin`: a slot per request in progress | `AckRead`/`Approve`, `ClaimPick`/`Lease`, `CompleteRead`/`Complete`, `CallFails` |
| `RunLedger` | nothing: what the platform promises about runs | phase, entry, approvals | `Open`, `Approve`, `Begin`, `Close` |
| `JobPlatform` | both processes over one store | all of the above | adds `WorkerCrash` (ticker and poll loop lose what they held), `ApiCrash`, `Lost` |
| `DigestStore` | artifacts, digests, batches, the status of runs; the artifact sweep | `arts rank digests batches runs external mode` | statements; `SweepArtifacts`, `ChangeRunner`, `EndBatch` |
| `DigestWorker` | the digest handlers | `wk`: step, run, day, artifacts, result | `BeginRun`/`FinishRun`, `Scrape*`, `Llm*`, `BeginBuild`, `SummariseInline`, `SubmitBatch`, `Record`, `Consume`, `BeginCollect`, `PollBatch`, `Resolve`, and their failures |
| `WorkApi` | claim-work, complete-work | `call`: a slot per call in progress; history `told` | `ClaimFind`/`Take`, `CompleteCheck`/`Confirm`/`Write`, `CallFails` |
| `DigestPipeline` | the four over one store | all of the above | adds `WorkerCrash` |
| `FinanceIngest` | the bank, the broker, `Ingest` as the transactions it is | `clock bank held sent accts ledger pend tx` | `Begin` (the account row's lock), `Write`, `Commit`, `Rollback`; `Scrape`, `Retire`; `NextDay`, `BankPosts`, `BankHolds` |
| `BillCalendar` | recurrence: `dueOrdinal`, `nextDue`, `prevDue`, `occurrencesBetween`, ... | none | operators over a calendar that repeats |
| `Bills` | `ReconcileBills`, `LinkBillPayment`, the owner's requests, what is shown | `today rows bill payments pass link`; history `trusted` | `LandRows`, `ReconcileNow`, `PassBills`/`Rows`/`Next`/`Link`/..., `CreateBill`, `EditBill`, `DeleteBill`, `LinkRead`/`Write` |
| `BalanceSeries` | `snapshotSeries`, `ledgerSeries`, `listExternalOnly`, `SpendingSummary`, `allotPoints` | `today bank readings` | `Post`, `TakeReading`, each on a later day or the same; the code is operators over the state |
| `Accounts` | logins, sessions, grants, deletion | `user ident grant session`, `req`: a slot per request | `LoginRole`/`Find`/`Update`/`Create`/`Session`, `Authenticate`, `Slide`, `DropExpired`, `Logout`, `LogoutAll`, `WriteGrant`, `RecomputeRead`/`Apply`, `CheckSoleAdmin`, `DeleteUser`, `EndRequest` |
| `OAuthServer` | the consent page, the token endpoint | `browser page code issued token`, `call`: a slot per call; history `bought` | `Authorize`, `Approve`, `Deny`, `RedeemRead`/`Claim`/`Issue`, `RefreshStart`/`Lock`/`Rotate`/`Sweep`, `Abandon`, expiries |
| `MC...` | instances for TLC | | |
| `JobPlatformProofs` | type correctness, proved | | |
| `JobPlatformSafety` | the safety properties and the refinement, proved | | |
| `OAuthProofs` | the safety of the token endpoint, proved | | |
| `DigestProofs` | type correctness and the safety of the digest pipeline, proved | | |
| `IngestProofs` | type correctness and the safety of the ingest, proved | | |
| `BillsProofs` | the recurrence operators and the safety of bills, proved | | |
| `AccountsProofs` | the safety of users, identities, roles and sessions, proved | | |
| `SeriesProofs` | the operators of the balance series and what its reads promise, proved | | |

Some choices worth knowing:

* **Time.** `clock` is coarser than a tick of the scheduler, so any number of passes
  happen at one instant and a pass may also last longer than a unit. A pass's now is
  the instant the ticker fired, which may lie before the pass began: a tick that fires
  during a pass waits in the ticker's channel.
* **Schedules** are a function `Activation[s][t]`; nothing is assumed of it, because
  cron's `Next` returns the zero time for an expression with no activation, and
  `ValidateCron` accepts such an expression. `never` in the instances is one.
* **SQS** is the set of runs with at least one message. A delivery leaves the message
  in place; a delete may leave another copy; a failed send may have delivered; a
  message received too often is dead-lettered.
* **A manual run's** `scheduled_for` is a `now()` that equals no activation, so its
  tick is `Null`.
* **History variables.** `starts[r]` counts how often the work of a run began,
  `reports[r]` how many "run finished" pushes were sent. Nothing reads them.
* **Faults.** Every statement and call may fail where the code handles its failure;
  failures, crashes and dead-letterings share the bound `MaxFaults`.
* **The digest pipeline and the job platform** meet in the status of a run. `JobPlatform`
  shows that a run's work begins at most once; `DigestPipeline` starts from there: a run
  is queued, taken once, and closed. digest.build and digest.collect are messages
  that may come at any time and any number of times.
* **A digest's `from`** is no column: it records the scrapes a text or a batch is made of.
  A build that fetched the Sources itself has none.
* **`told[n][r]`** records until when runner `n` was told that it holds the artifacts of
  run `r`, so a property can speak of what a runner believes.
* **The bank** in `FinanceIngest` shows canonical keys a number of times; a stored row is a
  key with an occurrence number, which is what `dedup_hash` hashes.
* **The calendar** of `Bills` is an instance of the real one with short months and a
  "week" of three days, so month ends, clamping and overlapping match windows all occur
  within eight days.
* **Row locks** in `OAuthServer`: a locking SELECT takes the rows it finds when it starts,
  waits for them together, and then sees them as they are now, but not the rows inserted
  meanwhile; a plain UPDATE sees those. This is what Postgres does at READ COMMITTED and
  what `rotateRefresh` relies on.
* **`bought`** in `OAuthServer` records which code started which family.
* **Requests of `Accounts`** remember the user and the role they came with until they end,
  as the context of the middleware does.
* **Faulty variants.** An operator whose comment starts "Faulty variant" models a
  plausible bug. Nothing uses it; it documents which mistake the property after it in
  `PROJECT.json` would catch.

## What the runs check

| run | instance | what it shows |
|---|---|---|
| `ordinary` | one ordinary job, 2 runs, time 0..2, one fault, one admin request | `TypeOK`; `StartedAtMostOnce`: no run is begun twice; `OneRunPerTick`: no tick yields two runs, whatever the pointer is set back to |
| `gated` | the gated job, 2 runs, time 0..4, one fault, 2 concurrent callers | `ApprovedBeforeStarted`, `PushMeansClosed`, `ExpiredNeverStarted`, `ReapedPastItsLease`; `ImplementsLedger`: refinement of `RunLedger` |
| `platform` | both jobs, 1 run, time 0..3, one fault, one caller, fairness | `QueueCarriesOrdinaryRuns`, `ScheduledRunsLeaveTheQueue`, `ScheduledRunsClose`, `GatedRunsClose` |
| `digest_day` | one day, 2 scrapes, 1 summary, any number of builds, 2 batches, both modes, one fault, fairness | `NeverDemoted`, `OneScrapePerDigest`, `ConsumedMeansRecorded`, `PendingDaysAreDecided` |
| `work_api` | one scrape of 2 sources, 1 summary inline, 2 runners, 2 concurrent calls, time 0..2, one fault | `LiveClaimHolds`, `ScrapeMovesTogether`, `ClaimedWorkIsKept` |
| `ingest` | one account, three days, two payloads in flight, two overlapping requests | `TypeOK`; `NothingIsForgotten` and `LedgerWithinBank`: the ledger is the bank behind the window; `WatermarkForward`, of declared accounts |
| `ingest_pending` | two requests over the pending rows | `PendingIsOneSnapshot` |
| `stale_pending` | one request | `PendingIsReplaced` is violated |
| `bills` | 2 bills, one of three shapes, 2 rows, one pass at a time, 2 links by hand, one edit | `DueDatesAreTheGrid`, `OverdueIsAnAbsence`, `ManualLinksStay` |
| `series` | every history of up to 3 rows and 2 readings over 3 days; windows open or bounded at either end | `SnapshotIsTheLastReading`, `LedgerIsExact`, `WindowIsASlice`: the two bases of the series in every window; `MismatchIsALostRow`, of the whole series; `FlowsTieOut`, `PagesAddUp`, `BudgetIsShared` |
| `accounts` | 2 people, 2 addresses, 2 users, one session, 2 requests | `AccountsWhole`, `FloorHolds`, `RevokedStaysRevoked` |
| `tokens` | 2 codes, 3 rows of tokens, 2 calls | `CodeBuysOneFamily`, `FamilyRevokedWhole`, `OneLiveRefresh` |

**Bounds.** Two runs are enough for every property that relates two runs, and two
callers for every race of two handlers; a third would only repeat one of them. Time
reaches each threshold (the leases and TTLs are 0 or 1 units) with at least one
unit left, and `MaxTime` 2 to 4 lets a second activation happen after a first. One
fault is what any single recovery needs; failures and crashes never mask each other
in the code, because no branch counts them.

In the pipeline, two pending scrapes are the fewest that could be mixed, two sources the
fewest that could be torn apart, two batches the fewest where a build meets another's
pending row. `digest_day` keeps the clock at 0, because only leases and the sweep read it,
and those are in `work_api`, which in turn has no builds and no batches. Rows of
different days never meet in a statement, so one day is enough.

In `ingest`, three days put a row that the bank posts late on either side of the overlap,
and two payloads in flight are the fewest that can commit in the wrong order. In `bills`,
two rows and two cycles with overlapping windows are the fewest where a row fits both.
`series` is exhaustive over short histories: a hole, a lost row and a row without a running
balance need three rows; a reading in the window and a newer one beyond it, which is what a walk
then starts from, need two readings. Its external rows are payments in; that the payments out
tie out as well rests on `FlowsAreTheSummaries`. In `tokens`, a replay, the token it replays and the successor
inserted meanwhile are three rows of one family, and every race there is between two
transactions. In `accounts`, an address that changes hands needs two people and two
addresses; one session is enough, since no statement relates two of them but the delete of
all sessions of a user.

**Fairness.** The platform: only `platform` uses it. The ticker and the poll loop are goroutines
of one process that supervision restarts (weak fairness of their next-state relations,
crashes being bounded); time passes; SQS delivers a message that stays on the queue
(strong fairness, since another batch may be in progress); a request the API accepted
finishes. Nothing is assumed of humans, administrators or the runner. The liveness
properties of runs speak of runs old enough to reach their threshold before `MaxTime`. The pipeline (`digest_day`): the worker goes on with the
handler it is in (weak), digest.collect is delivered again and again while other
work is (strong: the worker may be busy whenever it arrives), and Anthropic ends every
batch. No build, claim or summary has to happen.

**Windows of the balance series.** A window has a beginning, an end, both or neither, and the MCP
tool always gives both (`tools.go:390`). `WindowIsASlice` is in two parts. Wherever a window
begins, its figures are those of the series with the same end, in every history. Wherever it ends,
they are those of the whole series *if* no row of the account carries a running balance, or one in
the window's reach does: in a bucket of the derivation range, or before it (`BankedBy`). Without that
condition it is false, in the model and in the code. Take a row without a running balance and a reading on day 0,
and a row with one on day 1: the whole series starts on day 1, with the bank's own figure, while the window
up to day 0 finds no running balance (the coverage probe, `balance_series.go:575`, sees the
derivation range only), and has a walked bucket on day 0 that the whole does not. The comment at
`balance_series.go:573`, coverage being "all-or-nothing per account in practice", is the condition under which
this does not happen. `LedgerIsExact` has no such exception, only the one for a walk: an anchor that
closes its bucket.

**Disagreements found.** `stale_pending` is the one that has a run: an account whose last
pending transaction settled keeps the stale row, although the whole set is to be replaced
on each refresh. Others were seen in these models and are left to the reader, with the place to look:

* the completion of a gated run is a read and a write by id, so a terminal outcome may be
  replaced and pushed twice (`finance_sync.go:357`, `CompleteRead` and `Complete`);
* the test for an active run in Run now is not atomic with the insert, so a double click
  makes two runs (`admin_jobs.go:510`, `StartRunCheck` and `StartRunInsert`);
* the ordinary reaper, and the re-drive, leave manual runs `running` or `queued` for ever
  after a crash (`scheduler.go:44`, `Overrun` and `Stranded`);
* a completion of the work API never writes a digest, since the stage that has artifacts to
  claim (scrape) is not the one whose completion writes (llm) (`work.go:291`, `CompleteWrite`);
* the watermark of an account that no payload declares, because only rows name it, may go back, although
  `ingest.go:314` says "only ever move the watermark forward". It is compared as it was read when the account
  was resolved, and written by id, with no lock in between: of two overlapping requests, both of which read the old
  watermark, the one with the earlier window may commit last (`ingest.go:313`, `WatermarkRead` and `Commit`). The upsert of a
  declared account locks its row first, which is why `WatermarkForward` speaks of declared accounts. What a regress
  costs is a wider window next time: `NothingIsForgotten` and `LedgerWithinBank` are about both kinds of account;
* a re-run that submits a batch for a failed day leaves its row failed, and nobody collects
  the batch (`result.go:68`, `Persisted`);
* an acknowledgement of an approved run rewrites `claimable_at`; a pass writes the pointer
  of a job that was just disabled; an approved run that no runner leased is reported as
  expired unapproved; an expression with no activation makes a new job due at once;
* a login or a recomputation that derived a role before a revocation writes the revoked tier
  back (`auth.go:231`), and when a verified address is held by somebody else, the user
  keeps the old address but gets the role of the new one (`auth.go:383`), which is why
  `FloorHolds` speaks of users whose address is the one last verified;
* the last two administrators may delete their accounts at the same time (`api/auth.go:260`).

## What is proved

In `JobPlatformProofs`, for every value of the constants that satisfies the assumptions
named in `JobStore` and `AdminJobs` (bounds and thresholds are naturals, gated jobs are
jobs, `Null` is no value of a column):

* `TypeCorrect`: `Spec => [](TypeOK /\ ReferencesHold)`. Type correctness alone is not
  inductive. A pass, a batch or a request remembers ids between its statements, and a
  statement by id on a row that does not exist, or on a job that is not registered,
  would leave the types; `ReferencesHold` says that whatever is remembered or queued
  exists. The argument has one lemma per statement of `JobStore` (what it does to the
  row), one per component (its steps keep its own part), and `OthersKept`: a component
  whose variable does not change keeps its part as long as rows and jobs are not deleted.

In `JobPlatformSafety`, from that invariant:

* **What a step does to rows.** `StepRows`: every step of every component only opens a
  run, begins one, approves one, or closes one that was open (`RowStep`). The theorems
  that follow need no case split on thirty actions: they follow from these four.
* **The inductive invariant.** `SafetyInv` says of each row whether its counters agree
  with its status (`RunLife`), of the queue and of whatever the worker or a request
  remembers that it is about an ordinary job or one just made (`OrdinaryOnly`), of a
  request inside the handshake what its read still guarantees at its write
  (`HandshakeHolds`), and of a pass that its now is not in the future (`PassInTime`).
  `HandshakeHolds` is what makes the safety properties inductive: the handshake writes by id
  after a read, and only what other components cannot undo in between survives.
* **The theorems.** `PlatformSafe` (the invariant), and from it `OneRunPerTickHolds`,
  `StartedAtMostOnceHolds`, `ApprovedBeforeStartedHolds`, `ExpiredNeverStartedHolds`,
  `PushMeansClosedHolds`, `QueueCarriesOrdinaryRunsHolds` and the action property
  `ReapedPastItsLeaseHolds`: every safety property the runs check.
* **The refinement.** `PlatformImplementsLedger`: `Spec => ImplementsLedger`. Each kind of
  row step maps to a step of `RunLedger` (`OpensLedger`, `BeginsLedger`,
  `ApprovesLedger`, `ClosesLedger`), and all others stutter.

In `OAuthProofs`, for any sets of codes, rows and calls:

* **The inductive invariant.** `OAuthInv`. None of the three properties is inductive: whether
  two rotations of a family can both succeed depends on what concurrent calls have read
  and locked. `FamilyRooted` (a family starts with the row it is named after) and
  `LocksHold` (whoever waits for or holds rows of a family includes that first row, and no two
  hold a row in common) give mutual exclusion per family, although the rows inserted
  after a lock was requested are not in it. `VerdictsHold` (what was decided under the lock is
  still so) then follows, and with it that a sweep takes the family whole (`RevokedTogether`).
  `ClaimsHold` does the same for codes: a claimed code is used, by one call, and has
  bought nothing yet.
* **The theorems.** `ServerSafe` (the invariant), `CodeBuysOneFamilyHolds`,
  `OneLiveRefreshHolds` and `FamilyRevokedWholeHolds`.

In `DigestProofs`, for any days, runs, sources, runners, concurrent calls, leases and bounds
that satisfy `DigestConstants` (a run scrapes or summarises, not both) and `DigestNull`
(`NULL` is no value of a column and no row):

* **The inductive invariant.** `Inv`. The handlers read, wait for minutes, and write by id, so
  every property needs what a handler remembers to be still true when it writes.
  `WorkerKnows` says it of the run, the day and the scrape in its hands; `WholeScrapes`, of the
  artifacts it will mark consumed (there, and all of their scrape's); `AboutToConsume`, that the row
  of its day was written first; `VerdictStands`, that a verdict in the collector's hands is that
  of the batch the day still waits for, if the day still waits: other steps may resolve the day
  meanwhile, but never give a pending day another batch. `Unwritten` says that a scrape that runs has no
  artifacts yet, since a run is taken once. `LeaseCovers` ties what a runner was told to
  `expires_at` of the rows: a later claim tests the lease with a clock it read earlier
  (`CallsKnow`: not in the future), hence takes nothing that is still told to another.
* **The argument.** Lemmas on footprints name the few writers of each variable (`ArtsWriters`,
  `DigestsWriters`, ...), one lemma per writer says what it does to artifacts
  (`ClaimTakeArts`, `ConsumeArts`, ...), and `ArtifactFate`, `ArtsStay` and `DaysStay` sum up what any step can make
  of a row; one lemma per conjunct of `Inv` follows. `NewestOldest`, that some scrape is the newest
  among any, comes from the order of insertion being bounded (`RankBounded`) and well-founded.
* **The theorems.** `TypeCorrect`, `OneScrape`, `ConsumedRecorded`, `ClaimHolds`, `MovesTogether`, and the
  action properties `DemotionSafety` and `ClaimedKept`: every safety property the runs
  of the pipeline check.

In `IngestProofs`, for any finite set of keys, any accounts, holds and requests, any overlap,
settling delay and lead of the broker's clock (`IngestAssumption`, and `NoOneAssumption`: the
window of all accounts names none):

* **The inductive invariant.** `Inv`. A payload is checked against nothing but itself, so the
  invariant has to say of payloads in flight, lost or late, what they were when they were
  scraped: none shows a row the bank has not got (`Sound`), and one that reconciles has every
  row its watermark would leave behind, unless the ledger already has it (`Covers`).
  `WatermarkCovered` says the same of the watermarks stored. `LocksOK` is why the
  watermark a transaction read is still the one it replaces: the upsert of a declared
  account has locked its row against every other transaction. `PendingOK` is why only one
  request's pending rows stay: under that lock, it has seen every row it must delete.
* **The argument.** `Numbered` turns counts of identical rows into the rows with their ordinals.
  The gate of the ingest compares two totals; `SameCount` is the lemma that makes it worth
  something: a payload that shows a subset of the bank's rows and as many of them shows them all.
  With a day every row is posted by and an overlap that covers it, nothing behind the new watermark is missed.
* **The theorems.** `TypeCorrect`, `LedgerNeverOvercounts`, `OverlapForgetsNothing`, `PendingFromOneRequest`
  and the action property `DeclaredWatermarkIsMonotone`, which is about accounts that the payload declares and no
  others: every property that the runs of the ingest find to hold.

In `BillsProofs`, for any calendar that repeats and whose months have a
day at least, any steps no longer than its period, any bills, rows and patterns, and any
number of passes at once (the run has one):

* **Recurrence.** `OccurrenceInMonth` says that clamping never leaves the month, from which
  occurrences are strictly increasing (`OccurrencesGrow`), with no two neighbours further apart than
  a period (`OccurrenceGap`). `DueIsOccurrence` says that the test of a day against
  the grid is exact, `NextAndPrev` that the correction of an estimate, two steps down and three up,
  reaches the occurrence on either side of any day, before the anchor as well as after it. The recurrence has no
  recursion, and where a least occurrence is needed it comes from well-ordering stated of sets (`Least`).
* **The inductive invariant.** `Inv`. A pass reads bills, rows and links in separate statements and
  decides on what it read. `FreshOK` says that what a pass that runs alone has read is still so.
  `CountingOK` and `NothingLeft` say what the property needs: whatever a row could settle is
  settled, uses its row elsewhere, or is still ahead of the pass. It fails for two passes unless
  the start of either, and every edit, takes away that the other one is alone; `Together` in `Bills` does that.
  `LinksOK` is about the owner's own requests: what they have read and will replace was made by the matcher.
* **The theorems.** `DerivedDatesAreDue`, `OverdueIsTrue` and the action property
  `ManualLinksSurvive`. `CycleWindowIs` is the lemma behind the second: a row that could settle a cycle
  lies in the window of a bounded pass that was started for it.

In `AccountsProofs`, for any people, addresses, rows and concurrent requests, and any allowlist:

* **The inductive invariant.** `Inv`. `OneIdentity` states the count of `AccountsWhole` by a witness,
  `Referenced` that users named anywhere are there, and `RequestsOK` what a request may rely on at its
  next statement: above all that a role it is about to write, derived from grants that may
  have changed since, is no less than the allowlist's for the address it was derived for.
* **The theorems.** `AccountsStayWhole`, `RolesKeepTheFloor` and the action property `RevocationIsFinal`.

In `SeriesProofs`, for any rows, readings, widths, caps and days, and histories of any length:

* **The inductive invariant.** `HistoryOK`: rows by day, each with the balance after it, and readings by
  day, each the balance of the rows posted by then. It is small; the work is in the operators, which
  are the code here.
* **Recursion.** `Keep` and `Sum` are recursive functions. What a recursive definition computes is an
  induction over data, which the library's induction theorems cannot be used for (they take an
  operator); `LeastNatural`, `UpTo` and `Recursion` state well-ordering, induction and definition by recursion of
  sets and functions instead, and that is enough: `KeepPicks` and `KeepUnique` say that what
  is kept is the one subsequence of the elements of a set, `SumIs` that a sum is the rise of any running total.
* **Spans.** Since rows are by day, a span of days is a piece of them (`WithinSlice`), between the cuts at its ends
  (`CutAt`), and its sum is the rise of the level between these cuts (`SpanSum`). Every figure of the series
  then is a statement about cuts.
* **The series.** `DerivIs` says of the reach-back what matters: the derivation starts in the bucket of
  a covered row, or no covered row lies before it. `LedgerPointsAre` states the points over the whole ledger
  instead of the rows that were fetched, `SliceOfSeries` compares two derivations that begin in different
  buckets, and `EndOfSeries` two that end in different ones. From these, `BeginsAlike` and `EndsAlike` are the two parts
  of `WindowIsASlice`; `BankedIs`, `ReachesIs` and `HorizonIs` say what a window's reach and end come to.
  `BankedLevels` and `WalkedLevels` give the level of each bucket: the account's, or, walked from a
  reading, off it by one amount throughout (`LevelsOfSeries`, for a series that ends anywhere), which is why a
  walk never raises a flag.
* **Flows.** Income and spend are rises of a running total of their own (`FlowExists`). `BoundedSeries` says that
  a series over whole buckets takes in the bucket of every row of its days, on an account covered throughout or
  not at all, so that the rises of its buckets add up to that of the window (`DaysAdd`).
* **The shared budget.** `Allot` hands out three shares, each to a shallowest series that is left
  (`AllotSteps`, `ShallowestIs`); `ThreeShares` is what that comes to, for series and budgets of any size.
* **The theorems.** `SnapshotsAreReadings`, `WindowsAreSlices`, `LedgersAreExact`, `MismatchesAreLostRows`,
  `FlowsAreTheSummaries`, `PagesOfTheLedger` and `BudgetsAreShared`.

`drift` and `unverified` of a point are in the model and in every comparison of windows, but
nothing states what they ought to be.

Only model-checked: the liveness properties of the platform and the digest pipeline, which need fairness
and `ENABLED`.
`PendingIsReplaced` is no theorem: the code violates it.

## Not modelled

The work a handler does (its outcome is arbitrary), the contents of notifications, the
text of a briefing, the contact message and its e-mail (one insert, one message without a
run), a deployment without an Anthropic key (its digest handlers do nothing), the
verification of Google's tokens, PKCE, cookies and redirects (checks on a request's own
parameters that change nothing), profile settings, bearer tokens of the work API (one
statement each), the WhatsApp batches (one request owns a batch from its insert to its end),
the Spotify refresher (one writer of a cache), the content endpoints, start-up and the
frontend. The listings and searches of the finance reads only read. Ent, Postgres (row-level
atomicity, unique indexes, row locks, read committed), SQS and cron are assumed to do what the code
relies on.
