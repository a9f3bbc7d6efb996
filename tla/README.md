# Formal models of the Space Debris SSA tool

TLA+ specifications of the parts of this repository whose correctness depends on
the order in which threads, requests, messages and restarts meet. TLC checks
them on small instances. TLAPS proves every safety property for every value of the
constants; liveness is only model-checked.

    tlc -workers 2 -config MCScreeningJobs.cfg MCScreeningJobs.tla
    tlc -workers 2 -config MCFulfilment.cfg MCFulfilment.tla
    tlc -workers 2 -config MCServices.cfg MCServices.tla
    tlc -workers 2 -config MCOperations.cfg MCOperations.tla
    tlapm ScreeningJobsProofs.tla
    tlapm FulfilmentProofs.tla
    tlapm RateLimitProofs.tla
    tlapm PublicApiProofs.tla
    tlapm LiveFeedProofs.tla
    tlapm PipelineProofs.tla
    tlapm OntologyProofs.tla
    tlapm CaseWorkProofs.tla

`PROJECT.json` lists every run, the code each definition stands for, a mutant
that each property catches, the hazards of the code, and the theorems.

## The system

The API (`src/src/sdebris/api/app.py`, FastAPI) is one process. Synchronous
handlers run on a thread pool, each with its own database session; asynchronous
ones run on the event loop. Screenings run on a second pool, owned by the job
manager. Everything durable is in one SQL database (SQLite or PostgreSQL). The
web console (`src/web`) calls the API and follows two server-sent streams.

| component | state | operations | what makes it correct |
|---|---|---|---|
| Job manager (`jobs/manager.py`) | job rows, event logs, the pool's queue, admission and event locks | create, cancel, run, fail orphans | limits hold under concurrent requests; one outcome per job, never replaced; the log matches the row; a cancellation stops the run; every job ends |
| Command execution (`app.py` execute_command) | one execution row per command | run, refuse, link to the job, settle | an execution never disagrees with its job |
| Progress stream (`app.py` 1143-1202) | the cursor of each connection | poll, send, close | nothing lost, doubled or reordered; it ends; it tells the outcome |
| Quota (`billing/quota.py`) | counts of rows | count, refuse | no account passes its plan |
| Founding seats (`billing/seats.py`) | holds with an expiry | reserve, release, count | never more seats sold than exist |
| Billing (`billing/fulfilment.py`, `entitlements.py`) | entitlements, events already applied | apply an event, grant, end, revoke, restore | at-least-once, unordered events leave the entitlements the payments justify |
| Activity feed (`activity.py`, `useActivityFeed.ts`) | a cursor in time | read since, reconnect | one chronological feed; nothing is missed or shown twice |
| Public reads (`throttle_anonymous`, `api/public_cache.py`) | charged units, cached bodies with an expiry | meter, look up, compute, store, evict | work is bounded however it is split; bodies are fresh; the cache keeps its limits |
| Rate limits and stream slots (`ratelimit.py`, StreamSlots) | the moments of each key; streams per account | charge, refuse, say when to come back; acquire, release | limits hold under threads; waiting as told is enough |
| Ontology (`ontology/`, `monitoring.py`) | objects, element sets, runs, events, cases, watches, lineage | persist a run, seed, add, refuse | nothing twice, nothing by halves, lineage complete |
| Case work (`apply_case_action`, `_audit`) | cases, alerts, the audit trail | open, assign, escalate, close, acknowledge | the trail orders and explains every change |
| Ingest (`ingest/`, `cli.py`) | cached element sets with source and time | refresh, fall back on the sample, label | sample data never looks live; polls are spaced |
| Alerts (`alerts/notify.py`) | time of the last alert | dispatch | one alert in a cooldown |
| Closest approach (`screening/`) | none | detect, refine, report | no close approach is missed |
| Numerical core (`propagation`, `risk`, `maneuver`) | none | pure functions | accuracy: floating point, outside this project |
| Tenancy (`tenancy.py`, `auth.py`) | none | scope, owns | one account's rows stay its own |

What is hard here: several threads in one manager without row locks, events
numbered under one lock and committed outside it, a crash that loses the pool
but not the rows, provider events that come twice or out of order, streams that
poll while others write, limits checked before the thing they limit exists, a
cache that computes outside its lock, requests that write the same rows in
transactions that may wait for each other, and scheduled processes that share
files and die half-way.
The hazards in `PROJECT.json` are those places, line by line.

## What is modelled

### `JobLifecycle`: what a job is promised

The abstract specification: a job is queued, runs, and ends exactly once in one
of three outcomes, "cancelled" only if a cancellation was recorded. A restart
fails whatever is active.

### `ScreeningJobs`: the job manager

One job per request. A request is an account, whether it comes as a console
command, and `persist_ontology`; norad id, group, window and messages carry no
control and are left out. One instance of the model is one month (the quota
counts rows since the month began and nothing ever deletes one).

| code | model |
|---|---|
| `create`, with `_screening_admission` | `Admit`/`Refuse` under the admission lock, then `Insert` (still under it), then `Submit` outside it |
| `execute_command` | `Ask` commits the execution as running; `Refuse` fails it; `Link` names the job in it after `create` returned |
| `cancel` | `CancelRead`, `CancelNumber`, `CancelCommit` |
| `_run`, `_progress` | `Start`, then for each step of the run `Read`, `Number`, `CommitProgress`, and between steps `Work` or `Persist`; `CommitOutcome` for the last transaction and for those of the two handlers |
| an `IntegrityError` | `Collide` |
| `fail_orphaned_jobs` | `Restart`, the sweep that runs before the API serves |

A session reads without locking and flushes only on commit
(`ontology/database.py` 74-75), so every transaction that appends an event is
three steps, and two of them can take one number. The code guards that with
`uq_job_event_sequence`; the model's `Unique` is that constraint, and `Collide`
what happens next: inside the `try` the job fails, inside a handler the thread
dies. Each job has at most one cancellation in flight, with at most
`MaxCancels` in a behaviour. `"succeeded"` stands for the event stage
`"complete"`, and `"loaded"` for the second `"catalog"` event (progress 0.28).
`Age` lets a job fall behind `ACTIVE_JOB_HORIZON` at any time while it is
active: the deadline is only looked at between steps, and time in the queue is
not part of it.

`ScreeningJobsInvariant` holds the inductive invariant, apart from the proofs so
that TLC can check it too.

Left out: the Redis back end, the content of results, `refresh_catalog` (its
failures are among those `Work` may raise), a database that refuses a commit for
another reason than the constraint, and the graceful stop of the pool
(`shutdown` cancels the queue and lets threads finish; a crash at another moment
leaves the same rows).

### `JobStream`: the progress stream

Beside the jobs of `ScreeningJobs`, one stream per watched job. A round is
`ReadEvents`, then `ReadStatus`: two statements without a common snapshot. A
stream may be cut at any poll (the client leaves, or `MAX_STREAM_SECONDS`), and
is cut by a crash. Opened again it starts from the first event, as the code does.

### `Fulfilment`: founding seats and billing events

The provider (outside `src/`, seen through the events it sends and the calls
`dodo.py` makes), the founding checkouts, and the webhook, on one set of tables.
A purchase is one attempt to buy a founding seat and its payment; it is paid for
in its checkout or through a payment link. A subscription is paid for period by
period. Every event has the time at which it happened, and may be delivered at
any later moment.

| code | model |
|---|---|
| `/billing/checkout`, founding offer | `Ask` reads the current grant; `Look`/`Refuse` take the lock and count; `Reserve` renews or adds the hold and commits; `Opened`/`Unavailable` are the provider's answer, the second releasing the hold |
| `seats.py` | `hold` (live, lapsed or none), `Lapse`, `Remaining`, `ActiveHold`, `HoldsOf`, `ReleaseOne` |
| `/billing/webhook` | `Deliver`: not in the ledger yet, one of the branches of `apply_event`, recorded with its outcome in the same transaction; `Retry`: a call to the provider did not answer, everything is rolled back, and the provider may or may not have acted |
| `apply_event` | `Stale`, `GrantPeriod`, `RecordPayment`, `RefundOverCap`, `GrantLifetime`, `EndAtPeriod`, `End`, `Withdraw`, `Restore`; the event's kind and guards select exactly one |
| `EntitlementRecord` | `grant`: status, the period it lasts for, `last_event_at` |

A delivery is one step: the webhook is asynchronous and awaits nothing after it
has read the body, so two never overlap, and the branch that counts seats waits
for the lock (`LockFree`). The other branches do not, and may come between
`Look` and `Reserve`. The model is of PostgreSQL; on SQLite `seats.lock` does
nothing, which is the mutant `NoSeatLock`.

Data that is abstracted: `subscription.active` stands for `renewed` too,
`on_hold` and `expired` for `failed`, `dispute.won` for the other two outcomes
that restore. A grant's expiry is the number of the paid period, without the
grace days; a hold lapses at any time. An account is identified with its email.
The two events of one charge share a time. A provider asked twice to refund
succeeds twice; what it really answers is not in the repository.

Left out: events that are incomplete or for a product not on sale (they change
nothing), signatures, the monthly checkout (it keeps no state), the portal, the
subject that `active_entitlement` binds to a grant made by email, and its choice
among several current grants.

### `SlidingWindow`, `RateLimit`: the limiters

`SlidingWindow` is `SlidingWindowLimiter`: the deque of each key, `Grant` and
`Deny` (the two outcomes of `check`) and `RetryAfter`. It is used by two
modules: `RateLimit`, whose callers are pool threads, and `PublicApi`, whose
caller is the event loop.

| code | model |
|---|---|
| `check`, `time.monotonic()` before the lock | `ReadClock` |
| `check`, under the lock | `Admit` (`Grant`) or `Refuse` (`Deny`) |
| `retry_after` for the 429 | `ReadClockAgain`, then `Answer` |

The moment a call is charged at is read before its lock, so a deque is not
sorted, and hits leave only up to the first that is still in the window. `now`
counts whole seconds; `MaxWait` is how long a thread may wait for the lock, and
appears in `WindowHeld`: a window is kept to within that wait, not exactly.
`granted` records when each unit was really granted. A key that was evicted and
one never seen are both an empty deque.

### `PublicApi`: the public reads

| code | model |
|---|---|
| `throttle_anonymous` | `Unmetered` (the proxy's plain reads), `Metered`, `Throttled`; `MeterKey`, `Allowance`, `Cost` |
| `_check_trajectory_size` and the batch limit | `Reject` |
| `get_or_compute` | `Ask` (anchor and clock), `Hit` or `Miss` under the lock, `Compute` outside it, `NotFound`, then `Oversize` or `Store` under the lock, with `Without` and `Replaced` (what the key had before goes), `Evict` |
| `_grid_anchor` | `Anchor` |
| other writers | `Ingest`: an object's elements change at any time |

A body is the rows it was made of, when the database was read, where its tracks
start, and its size (one byte for a sample or a row). `RunningBytes` adds sizes
up from the oldest entry on. A request takes at most `MaxLatency`. `spent` is a
history: when each payer was granted samples, and its running total, of which
`WorkBounded` takes the differences. A request that is answered 422 asks for
samples that are never computed, and is not in it.
Left out: the contents of rows, the other list endpoints (they differ in their
lifetimes only) and the statistics.

### `LiveFeed`: the activity feed and its slots

| code | model |
|---|---|
| a row is written, its transaction commits | `Insert` (the stamp), `CommitItem` (visible) |
| `useActivityFeed`, first load | `Snapshot`, then the poll; `PollOver` sets the cursor |
| `stream_activity`, the handler | `Subscribe`: the slot is taken |
| its generator | `Poll`, `Collect` for each kind of row, `Answered` (sort, keep the newest, move the watermark), `Deliver` item by item, `PollOver` |
| `finally: streams.release` | `Drop` |
| the client is gone before the generator starts | `DropEarly`: the slot stays taken |

Ties in a query's order are broken at will (`IsRead`). `settled` is the set of
rows that were visible when a poll began and newer than its mark;
`SettledIsSent` says that the poll sends them, or which of the two limits they
gave way to.

### `Pipeline`: the scheduled screening

`sdebris screen --alert`, as several processes on one cache file and one alert
state file: `Begin`, for the group and then the target `Skip`, `Fetch` or
`FetchFails`, then `Compare` and `Upsert`; `Settle` decides for the sample;
`Load`, `Label`, `Dispatch`, `Send`, `Save`; `Die` at any point, which may leave
half a state file, and `Hour`. `Compare` and `Upsert` are two steps because
SQLite takes its write lock with the first write. Time is in hours; a run may
take any. An element set has one of two epochs: the sample's or a published one.
`disturbed` marks a run that another run's upsert overtook between `Load` and
`Label`; `calm` says that no dispatch overlapped another and none died.

### `Screening`: detection of close approaches

`find_close_approach_candidates` and the loop of `screen_target`, for one pair,
over whole numbers. The pair moves along a line that passes the target at a
distance, with a constant acceleration in each interval, so the bound of
`interval_min_distance_bound` meets the motion it was derived for, and its pad
is exactly what is needed. `Detect` finds the brackets, edges and the fallback;
`RefineNext` takes the next candidate to any instant its root finder may return
(`Refined`); `ReportEvents` ends. `Resolved` states what the grid must offer: in
an interval the pair closes and then recedes, and does neither the other way
round, nor between two fine steps, where the range-rate of a sample would not
match the distances beside it.

### `Ontology`: what requests write

A request is a program: a sequence of `Operation`s (what the operation makes,
needs, and is joined to by lineage; whether its service commits), over one
session. The programs are the code's: `PersistRun` (`bridge.py`), `Seed`
(`monitoring.py`), `MonitorAdd` (`_execute_immediate_action` with
`_refresh_orbit`), and the endpoints.

| code | model |
|---|---|
| `execute_command` before it acts | `RejectCommand`, `RefusePlan` (both recorded), `Start` |
| a service operation | `Look` or `Keep` (the SELECT), `Flush`, `Commit` under `auto_commit`, `Refuse` for 404 and 409 |
| CelesTrak does not answer a command | `RefreshFails` |
| UNIQUE constraints | `Unique`; a flush waits for another open transaction's row (`WaitsFor`), then `Violate` if that committed |
| the database's deadlock detector | `Victim` |
| the end of a request | `Finish`; `OntCrash` is a restart |

`Rollback` is what becomes of the record of a command: where `_commit` rolled
back and the record was committed before, it says "failed"; elsewhere the
session raises again in the handler and the record stays "running".

Sessions do not flush on query and keep their rows after a commit, as
`database.py` configures them; reading one's own rows is in `There`. The seed's
watches and the waitlist row are modelled as flushed at once.

### `CaseWork`: governed actions and the audit trail

`Read` (role, ownership, the row), `ReadEvent` when the action moves the event,
`FlushCase` (only the columns that differ from what was read; waits for row
locks), `Audit` (`audit_timestamp`, `record_state`), `CommitWork`. The wall
clock may be set to any value (`SetClock`). A restart loses the open requests
and the last stamp; `past` is that stamp, for "ordering across processes still
relies on the clock" (`orm.py` 50-51): until the new process has stamped an
entry, the clock stays past it.

## What the runs check

| run | instance | result |
|---|---|---|
| `jobs` | 2 jobs, 1 pool thread, 2 cancellations, 1 crash, both kinds of request; 1.03 million states | the inductive invariant, the properties below it, and the refinement of `JobLifecycle` hold |
| `admission` | 3 requests, 2 threads, quota 2, slots 1 and 2, 1 job past the horizon; 362 thousand states | limits hold |
| `job_stream` | 2 jobs on one thread, one followed, 1 crash, with fairness | the stream is faithful and closes; every job ends |
| `founding_seats` | 3 purchases by 2 accounts, 1 seat, 3 events; 291 thousand states | no seat is sold twice; the inductive invariant holds |
| `billing` | 2 purchases, 1 subscription of 2 periods, 1 seat, 3 events, with fairness; 288 thousand states | access follows the newest event; withdrawn subscriptions are cancelled; every payment is settled |
| `refund_undone` | 1 purchase, 4 events | violated: see below |
| `paid_period_lost` | 1 subscription, 3 events | violated: see below |
| `jobs_stuck` | 1 job, 1 cancellation, with fairness | violated: see below |
| `stream_outcome_lost` | 1 job, followed | violated: see below |
| `services` | limiters, reads, feed, slots, pipeline and pair side by side; 1.40 million states | see below |
| `operations` | 3 writing requests and 1 restart, or 3 workers on cases, with fairness; 273 thousand states | see below |
| `feed_gap` | 1 page, 2 rows | violated: see below |

`services` and `operations` put modules that share no state side by side: `part`
is chosen at first and says which of them a behaviour exercises, so the
states add and do not multiply.

| part | instance | shows |
|---|---|---|
| `pool` | 2 threads, 1 key of 2 units, window 3, wait 1, 6 seconds | `WindowHeld`, `RetryAfterIsEnough` |
| `reads` | 3 visitors, a batch, a track, a list; room for 2 bodies | `WorkBounded`, `CacheWithinLimits`, `StalenessBounded`, `TrackIsCurrent`, `StoredIsKept` |
| `odd` | 2 visitors: too large to keep, too many, unknown, by proxy | the same, on the other branches |
| `feed` | 1 page, 4 rows of 2 kinds and 3 owners, caps of 2, 2 connections | `OneChronology`, `SettledIsSent` |
| `slots` | 3 pages of 2 accounts, 2 slots | `SlotsHeld` |
| `batch` | 2 runs on a group of two and a target, in one hour or in two; interval and cooldown of an hour | `LabelHonest`, `PollsSpaced`, `CooldownHonoured` |
| `pair` | every motion with speeds to 4, accelerations to 1, two intervals of four steps, one sample missing or none | `EveryApproachReported` |
| `writes` | a screening or a watch; a seed or a watch; another command or endpoint; 1 restart | `NoTwins`, `StoredWhole`, `LineageWhole`, `EffectIsRecorded`, `WatchQuota`, `EveryRequestEnds` |
| `cases` | 2 cases of one event, 1 alert, 3 operators, clock set back | `AuditInOrder`, `AuditExplains` |

Their bounds: the limiter needs a third call while two are in the window and one
thread between its clock and its lock, and a clock that runs past the window
twice. The cache needs a third body to evict, two requests that compute the same
key, and time past a lifetime. The feed needs a kind with more rows than one
query returns, and a reconnection. Two runs are the fewest that overlap on the
two files; the second starts after the first or beside it, with or without a
crash of either. Two intervals give a bracket, an edge, and a minimum on the
shared sample. Deadlock in the ontology needs two transactions that insert the
same two rows in opposite order (the screening and the seed), and a third that
meets the survivor.

Why the bounds of the others suffice. Two jobs are the fewest that share a pool
thread and the admission lock, and jobs only meet there and in the counts; three
requests are the fewest that pass a quota of two. Two cancellations can collide
with both the run's and then its handler's transaction. A second crash finds
nothing the first did not: a restart leaves no active job. Jobs are
interchangeable, so the safety runs use symmetry; those with liveness do not.

For billing, one seat is the boundary, and three purchases let one account hold
two reservations (one lapsed) while another competes. `MaxEvents` bounds what
happens at the provider by itself; the events its own actions cause when the
code cancels or refunds come on top. Three suffice for each pair of branches
that meet on a grant (charge, dispute, renewal; charge, payment of a seat,
refund), delivered in any order. Nothing is left to do once all is bought and
delivered, so deadlock is not checked there.

Fairness: the request threads, the pool and the startup of a crashed API keep
going (weak fairness on `Handle`, `Cancel`, `Start`, `Run`, `Restart`), and the
event loop polls open streams. Nobody must ask, cancel, follow, leave or crash.
Weak fairness is what an operating system gives a runnable thread; no step of
one thread can keep disabling another's.

In the ontology, a request that can go on does (`Work`), and the database ends
one of the transactions that wait for each other (`Victim`): both are weak
fairness, and are what a thread and a database with deadlock detection do. No
request must start, and CelesTrak may fail or not.

In billing, a checkout's thread runs on, and some event that waits is delivered
in the end: the provider repeats a delivery until it is answered, and a call
that fails does not fail for ever.

Five runs show a disagreement between the code and what the repository says:

- **A job can stay "running" for ever** (`jobs_stuck`). The run fails, its
  handler numbers the closing event, a cancellation numbers its own the same and
  commits first; the handler's commit is refused and nothing catches that
  (`manager.py` 344-362, against the comment at 339-343). The job holds the
  account's only slot until the horizon, or the next restart.
- **The stream can end without the closing event** (`stream_outcome_lost`). The
  closing transaction commits between the two reads of a poll; the round has no
  events and a terminal status, so the stream ends (`app.py` 1195) while the
  console waits for the event to reload the job (`CommandCenter.tsx` 431).
- **A refunded grant can come back** (`refund_undone`). `apply_event` calls a
  refunded grant final, but a reversal overwrites any status (`fulfilment.py`
  305): a dispute opened after the refund makes the grant "disputed", and a
  dispute won, withdrawn or lapsed restores it.
- **A cancellation can take a paid period** (`paid_period_lost`). Delivered
  before the renewal it followed, it keeps the older expiry (`entitlements.py`
  185) and makes the renewal stale.

- **The feed can lose a row** (`feed_gap`). The cursor is a stamp, and rows are
  stamped when written, not when committed: a row that becomes visible after a
  newer one was delivered is behind the cursor (`activity.py` 107, against
  `useActivityFeed.ts` 44-46 and `app.py` 1765).

Seen while modelling, in the models, and not contradicted by anything the
repository promises:

- A poll that reads `MAX_FEED_ITEMS` rows of one kind, and a newer one of another
  kind, moves its watermark past the rest of the first kind; rows with one stamp
  are lost when the connection ends between them.
- A stream whose client leaves before its generator starts never gives its slot
  back (`app.py` 1756-1762): `SlotsHeld` is an inequality for that reason.
- Case actions read without a lock. Two on one case both succeed, each changes
  the columns it differs in, and the state an entry records for the columns it
  did not change may be older than the row (compare `docs/ontology.md` 21).
  `AuditExplains` is therefore about the columns an entry's action wrote.
- Two watch-list commands at once can pass the plan's allowance (`quota.py` 115);
  `WatchQuota` says that only such commands can.
- A command whose flush is refused outside `_commit` stays "running": the
  handler's own commit fails on the same session (`app.py` 1379-1383).
- The cache compares a row's epoch before it has the write lock; an overlapping
  run's newer row can be overwritten by an older one (`cache.py` 59-64).
- A sample row of the target counts as freshly fetched, an unusable answer
  counts as fetched, and a delivery that failed still starts the cooldown.
- A pair that recedes at a sample, or has a range-rate of exactly zero, and then
  closes can approach unseen in the interval that follows. `Resolved` excludes
  it: "every close approach" holds of a grid that is fine enough for the motion.

`SeatsNeverOversold` counts accounts, not grants, and leaves out a seat that a
settled dispute gave back. Both are what the code does: an account that pays
twice while it holds a reservation gets two grants, and `restore` does not look
at the seats. So the number of lifetime grants can pass `FOUNDING_SEATS`
although no seat is promised to two accounts at checkout.

## What is proved

`ScreeningJobsProofs` proves, for any finite set of jobs, any accounts, pool
size, limits and number of cancellations and crashes, from
`ConstantsAssumption` alone: `TypeOK`, `QuotaHeld`, `SlotsHeld`,
`ResultIsTheRun`, `ExecutionAgrees`, `LogClosesOnce`, `CancelStopsTheRun`, and
that the manager implements `JobLifecycle`.

None of these is inductive alone. The invariant `IInv` adds:

- `RowInv`: a row exists from its insert on, and the inserting request is the
  one that holds the lock. Without it an insert could land on a closed job.
- `ThreadInv`: a thread or a place in the queue belongs to an active job, and a
  job has one at most; a thread that is cancelling has a recorded request. This
  is why an outcome is never replaced.
- `AdmissionInv`: what the lock holder was admitted against still holds when it
  inserts. Between the two only other steps run, and `CountsStep` shows they
  never add a row or an active job. Limits follow by counting.
- `RunInv`: nothing is persisted before the ontology step, and one run by the
  time a persisting job can succeed.
- `ExecutionInv`: an execution that names an active job is "queued", so it can
  only be settled with the job.
- `CancelInv`: a thread that is past its read and about to record a step has no
  step after a cancellation in its log, so it can add the only one; a thread
  that reads later sees the request.

The log lemmas (`LogOpen`, `LogCloses`, `LogLate`, `CancelRecorded`, ...) say
what one append does to a log, and `LogStep` and `CancelStep` apply them to each
action. TLC checks `IInv` in the run `jobs`.

`FulfilmentProofs` proves, for any finite sets of purchases and subscriptions,
any accounts, number of seats and bounds, from `BillingAssumption` alone,
`TypeOK` and `SeatsNeverOversold`. Its inductive invariant adds:

- `LockInv`: the checkout that has counted seats is the one with the lock.
- `PaymentInv`: a purchase has one payment event, and a grant means that the
  ledger holds it. So `already_granted` never lets a delivery past the count.
- `SeatInv`: from the count to the commit, the accounts with a seat and the
  buyer together fit. This is what survives the buyer's hold lapsing in between,
  after which `reserve` adds a hold without a count.

`OneMore` is the counting argument (a free seat is room for one more account),
`Calm` covers every step that takes nothing, and `NextSteps` sorts the actions
into the four kinds the other lemmas speak of.

The order of events has an invariant of its own, `OrderInv`, for
`OnlyANewerEventGivesBack`, `WithdrawnIsCancelled` and
`OnlyASettledDisputeRestores`:

- `EventInv`: events about one purchase or subscription have different times,
  but for a charge and its payment. So "newer than" decides between any two that
  `apply_event` compares.
- `TakeInv`: an event that took a grant away is no later than the grant's last
  event, and the subscription of a grant that was withdrawn is over at the
  provider. A call that is lost leaves the grant as it was, or the subscription
  over.

`Effect` reduces the branches of `apply_event` to what they do to a grant: keep,
take, give back, sell. Each of the three properties then follows
from one case for each of these.

The stream is proved beside the manager: `StreamInv` is `IInv` and, for each
followed job, that what was sent with the batch that is on its way begins the
job's log (`Begins`). A log is only appended to, whichever thread does it
(`Extends`), so what began it still does; a batch is only held between the two
reads of a round, and is sent or lost whole.

`RateLimitProofs` proves, for any keys, allowances, window and threads, from
`LimiterAssumption` and `RateLimitAssumption`, that `WindowHeld` holds in
`RateSpec`. The invariant it is proved from relates a key's deque to the end of
its history of grants: a deque holds what was granted last, each hit at most
`MaxWait` older than its grant, and whatever has left it was granted a window,
less the wait, ago (`Held`, for a wait that the users of the limiter give). A deque never holds more than `Limit` hits, so the unit
`Limit` before a new one has left it. `Waits` adds that a thread at the lock
read the clock at most `MaxWait` ago.

`RetryAfterIsEnough` follows from `Promised`: unless units were granted to the key
since the last answer, there is room at the moment it named (`Room`: the deque is
not full, or its first hit has left by then). Other calls may drop hits from the
deque meanwhile, which only makes more room, and grants void the promise.

`PublicApiProofs` uses the same limiter from the event loop, where nobody waits
(`Metering` is `LimiterInv(0)`: a window is kept exactly), for any requests, keys
and allowances, from `ApiAssumption` and `MeterAssumption`: a request that is
metered has a key of the limiter, with the allowance the middleware passes, and
the route of one track names one object.

- `WorkBounded`, from `WorkInv`: for any two grants of a payer, the history of its
  key has units of those two moments, and as many from the one to the other as pay
  for the samples granted between them (`Covers`). A unit pays for
  `SamplesPerUnit + 1` samples (`UnitsPayForATrack`: the rounding up of a charge is
  never less than the rounding down of the samples), and a batch is charged for
  every name in it and computes each object once (`UnitsPayForSamples`). More
  than `Limit` units never lie within a window, so neither does more work than the
  allowance pays for, however it is split.

It proves of the cache:

- `StalenessBounded` and `TrackIsCurrent`: the cache does not know when a body was
  made. `EntryOK` bounds it by what is kept: an entry expires no later than its
  lifetime and one request's time after its body was read, and its track starts at
  the anchor of its key. `VisitOK` says the same of a request between its two
  visits to the lock, when others may store, replace and evict.
- `CacheWithinLimits`: a key has one entry (`Unique`), although requests that
  missed it side by side all store it, and the count of bytes is the sum over the
  entries. `RunningBytes` is recursive, so its facts are shown from the least
  number of entries at which one would fail (`AddsUp`), and `Leaving` is what an
  eviction leaves.
- `StoredIsKept`: the entry that is stored is the newest and fits alone, so the
  loop that evicts the oldest ends before it.

`LiveFeedProofs` proves, for any rows, kinds, owners, pages, limits and clocks,
from `FeedAssumption`:

- `OneChronology`, from `ChronoInv`: one bound moves with a request. What a page
  has is no later than its cursor and, while it is served, no later than the mark
  of the request; a poll finds only what is later; when the answer is ready the
  mark passes what was found, and that is delivered from the earliest on.
- `SettledIsSent`, from `SentInv`: a settled row is found by the query of its kind
  or crowded out of it, found rows are kept by the answer or give way to a full
  poll of newer ones, and what is found or received stays so. `LeftOut` is the
  counting: the rows newer than one that is left out have the ranks below its own.
- `SlotsHeld`, by counting pages against slots. A slot that is never given back
  (`DropEarly`) only makes the inequality wider.

`PipelineProofs` proves, for any number of runs, objects and hours, from
`PipelineAssumption`:

- `LabelHonest`, from `LabelInv`: what a run read at `Load` still stands at
  `Label`, or an upsert has marked it.
- `PollsSpaced`, from `PollInv`: a group that was stored keeps its rows, no older
  than the download that stored it (`GroupRows`), likewise the target (`TargetRow`).
  The one exception is the row an upsert compares before it has the write lock: a
  bundled element set can only be written over the first row that the sample and
  the group share (`Lead`). So a group needs a second object for its age to be
  known, and the assumption says that it has one: the groups of CelesTrak have
  hundreds.
- `CooldownHonoured`, from `AlertInv`: while dispatches neither overlap nor die, the
  one that is at work remembers the file as it is, and what was sent is in the file
  from its save on.

The same module proves `EveryApproachReported` of `Screening`, for any motions over
the integers, grid, thresholds and tolerance, from `ScreeningAssumption` (the fine
steps of an interval are even in number, so that positions stay whole, and the
report threshold is not above the coarse one) and `MotionAssumption` (types):

- `BoundIsLower`: if the pair is within the threshold at any fine time of an
  interval, the bound keeps the interval. The straight line from its first sample
  leaves the motion by at most twice the pad in doubled positions, `Triangle`
  carries that over to distances, and `LineIs` says that the line is nowhere
  nearer than its minimum. `State` is recursive, so its facts are shown from the
  first sample at which one would fail.
- `ApproachIsBracketed`: in a resolved motion an approach turns the sign of the
  range-rate in its interval or, if it falls on a sample, in one of the two beside
  it, and `OneTurn` says that the root finder can return nothing else there.
- `ScreenInv`: every bracket is still to be refined or was `Handled`: near enough, it
  is an event or lies within the tolerance of the last one, which is.

`CaseWorkProofs` proves `AuditInOrder` and `AuditExplains` for any requests, rows,
operators and readings of the clock, from `CaseAssumption`. `LocksApart`: two open
requests have not flushed the same row. `Holds`: a request is stamped after every
entry about a row it holds, and its entry says what it wrote. `Times`: stamps are
no later than the last one of this process or, until it has one, of those before.

`OntologyProofs` proves, for any programs that satisfy `ProgramsAssumption`, any
number of requests and restarts, `NoTwins`, `LineageWhole`, `EffectIsRecorded`,
`StoredWhole` and `WatchQuota` of `OntSpec`, without its fairness. The assumption
says of a program what its source shows: lineage is to what an operation needs, no derived row goes
without, and what is to be stored whole defers its commits and makes what it needs
first. TLC evaluates it for the programs of `MCOperations`. `StepKinds` reduces
every step to three: nothing is written (`Quiet`, which covers lost sessions), a
session adds a row (`Adds`), a session publishes what it has added (`Publishes`).

- `UniqueInv`: what a session has flushed is nowhere else, neither stored nor in
  another session. `Waits` and `Clashes` establish it, and publishing needs it:
  without it a look that is stale by the time of the flush would store a twin.
- `LineageInv`: what is about to be flushed has what it needs (`Ready`), so the
  rows at both ends of its lineage are published no later than the lineage.
- `RecordInv`: a command that is at work has its record in its session, so the
  commit that publishes its first row publishes the record.
- `WholeInv`: a session is past some number of operations of its program, and
  all they make is there (`Past`). It is never refused half-way (`NeverRefused`),
  so the only step that publishes is the last, when all is there.

- `WatchInv`, for `WatchQuota`: when a watch-list command was counted, the watches
  of its user that were there, or were not made beside it, were fewer than the
  allowance, and they stay so until it ends (`Room`). Two requests that run are
  each in the other's `beside`, so a watch that appears later is from one that
  was open at the same time. `WatchAssumption` adds that a metered program makes
  one watch, its own user's, as the two endpoints and the command do.

Model-checked only: `EveryPaymentIsSettled`, `EveryJobEnds`, `StreamCloses` and
`EveryRequestEnds`. Liveness under fairness is out of the prover's reach.

## Plan

1. Screening jobs, stream, lifecycle, proofs (done).
2. Founding seats and billing, the hard limit of seats proved (done).
3. Limiters, public reads, activity feed and slots (done).
4. Ontology, case work, scheduled screening, alerts, closest approach (done).
5. Uniqueness, lineage, records, wholeness and quota of the ontology, proved
   (done).
6. Proofs: feed, cache, limiter, work of the public reads, scheduled screening,
   detection, case work, order and cancellation in billing, the stream (done).
7. Updates of existing rows (objects, watches, the waitlist) and the list of
   watches with their state.

## Not modelled

- Floating-point numerics: propagation, the probability of collision, manoeuvres.
  `Screening` has the control of the detection over whole numbers; a failure of
  SGP4 during refinement is left out.
- Text: command parser, narration, reports, digests, parsing of element sets.
- Updates of existing rows outside a case action: `update_space_object`, a watch
  that is paused or reactivated, a waitlist entry that is repeated, and the
  display of the watch list.
- The payment provider's HTTP client, token verification, rendering, migrations
  and deployment scripts, the Redis back end of the jobs.

The components of `PROJECT.json` give the reason for each.
