# Atomic Engage in TLA+

Atomic Engage runs a fleet of Telegram accounts. A FastAPI gateway accepts actions
as rows of `tasks`; arq workers execute them through one Telegram account each,
strictly one task per account at a time; crons repair what crashed; webhooks report
what happened; watchers forward incoming messages. State lives in Postgres (READ
COMMITTED, sessions with `expire_on_commit=False`) and in Redis (arq jobs, counters,
caches). This directory holds the specifications of its core, the TLC configurations
that check them on small instances, and the proofs that TLAPS checks for all
instances. Paths below are relative to `src/fleet_manager/app/`.

## Inventory

| Component | State | Operations | Interaction | What makes it correct |
|---|---|---|---|---|
| Task queue (`workers/base_task.py`, `api/v1/actions.py`) | `tasks.status`, `deferred_until`, arq jobs, coroutines of `run_task` | create, claim, gates, act, settle, defer, park, `enqueue_next` | gateway and crons enqueue, workers claim under an advisory lock | one executing task per account, queue never forgotten, terminal stays terminal |
| Recovery (`workers/recovery.py`, `arq_settings.py`) | `tasks.started_at`, lease | orphan sweep, due-deferred sweep | crons and every worker's startup | orphans come back in time, live tasks are left alone |
| Webhooks (`services/webhook_queue.py`, `workers/deliver_webhook.py`, `webhook_redrive.py`) | `webhook_deliveries`, arq jobs | enqueue, attempt, retry, re-drive | tasks and watchers enqueue, workers post | every event leaves, bounded posts, no double chain |
| Budgets (`services/budget.py`, `db/redis_client.py`) | Redis counters with TTL | consume all or nothing, peek | called between claim and action | every counter expires, aggregates within the real members, no call without a unit |
| Account lifecycle (`api/v1/accounts.py`, error branches of `run_task`) | `accounts.status`, `flood_until` | onboard, ban, flood, sleep, reactivate, unban | API, workers, health loop, warmup tick all write the status | a ban ends only by unban, stale writers aside |
| Warmup (`services/warmup.py`) | `warmup_day`, `warmup_tier`, Redis key per day | daily tick: advance, promote, enqueue | cron and startup of each worker | one action per day unless ticks overlap or die, no tier before its days |
| Proxies and geography (`services/proxy_manager.py`, `geo_match.py`) | `proxies.state`, strikes | health loop, port rotation, geo gate | put accounts to sleep | no sleep on a single failure |
| Schedule, humanizer (`services/schedule_service.py`, `working_hours.py`, `humanizer.py`) | none | window arithmetic, random delays | asked by `prepare` | `next_open` is the first opening of its week, a deferral ends |
| API credentials (`api/v1/api_credentials.py`, `accounts.py`) | `account_count` | register, find-or-create | onboarding | the count never ahead of the members, and exact without imports and scripts |
| Watchers (`watchers/`) | shard in Redis, seen keys, live clients | claim shard, rotate, deduplicate, forward | webhooks | each seen message has one handler that answers for it, each account one owner where the processes are numbered apart |
| Clock, safety config (`core/`) | scale, YAML tables | scaled time, hot reload | everyone | one time base |
| Provisioning (`../scripts/provision_client.py`) | `registry.json`, the clients' directories, their gateways' proxies | render, register, seed proxies | operators share one directory; docker starts what is rendered | disjoint slices, no run that goes on from a lost registry, the live secret on disk |
| Other scripts (`../scripts/seed_accounts.py`, `onboard_local_account.py`, `convert_sessions.py`) | none of their own | insert accounts, convert files | write the gateway's tables next to it | counts like the API |
| Action workers, sessions, read APIs | none of their own | Telegram calls, queries | `run_task` | data shaping |

What is hard here: a worker runs many coroutines, so every await is an interleaving
point; the session keeps what it loaded, so writes are decided on old reads; enqueue
and commit are two systems, so a crash falls between them; arq runs a job of a dead
worker again and never retries one that raised; crons of two workers overlap at
startup; time-outs cancel a coroutine without running `except Exception`. The list
`hazards` of `PROJECT.json` names each place with its line.

## Modules

| Module | Models | Notes |
|---|---|---|
| `TaskQueue` | rows, jobs, coroutines, sweeps, wake-ups of the per-account FIFO | one step is one transaction or one Redis command |
| `AccountSlot` | the promise of the FIFO: one slot per account | abstract; `TaskQueue` refines it through `Slot` |
| `RecoveryLease` | lease, `job_timeout`, sweep period and the two clocks for one row | justifies the guard `LeaseExpired` of `TaskQueue` |
| `WebhookDelivery` | one delivery row, its jobs, the re-drive sweep, in time | timers count down, so no horizon |
| `AccountLifecycle` | status, tier and proxy of one account and all who write them | every writer works on the copy it loaded |
| `CredentialPool` | credentials, `account_count` and the onboardings that raise it | EXTENDed by `Budget` |
| `Budget` | Redis counters, caps of each process, the jobs that charge | composed with `CredentialPool`: its members scale the aggregates |
| `Schedule` | windows, rest days, zones, `next_open` | operators, no actions |
| `WarmupCalendar` | the daily warmup tick and the deferral of its task | on top of `Schedule` |
| `Watchers` | shards, clients, deduplication and forwarding | its committed row is where `WebhookDelivery` begins |
| `Provisioning` | runs of `provision_client`, registry, files, stacks | kills between any two writes |
| `MC*` | instances for TLC | constants, symmetry |
| `*Proofs` | theorems | see Proofs |

### TaskQueue

`row[t]` is `tasks.status`; `jobs[t]` counts the arq jobs that wait with this id;
`owed` holds the tasks between the commit that queued them and the `enqueue_job`
that follows it; `pc[r]` and `job[r]` are a coroutine of `run_task` and the only
thing it keeps, the task it loaded. The labels are the awaits that separate shared
accesses: `prepare`, `claim` (waits for the advisory lock), `claiming` (holds it),
`gate`, `act`, `defer`, `park`, and `next`, `pick`, the two queries of `enqueue_next`.
`asleep` and `closed` are what `BaseTask.prepare` can tell about an account: banned
or sleeping, and flood or out of hours. `waker` is `_wake_queue` in the two API
handlers, `scan` the ids a recovery sweep has selected and not reset. Writes by
primary key (`Defer`, `Park`, `ActEnds`, `RecoverReset`) have no guard on the row,
because the code has none. A budget gate passes or defers; which, is up to the model.

Faults, each a constant: `crash` (the worker dies, arq hands out the job again),
`timeout` (`job_timeout` cancels between claim and result; inside the try block
`finally` still calls `enqueue_next`, before it nothing does), `error` (Postgres or
Redis raises: no retry), `upset` (something outside the queue closes the account or
puts it to sleep). Without the last one the account only changes by its own tasks.

### RecoveryLease

Real time `now`, one row, any number of runs. `ClockNow` is `now * Scale`, the
sweep's cutoff is real time, as in the code. A run lives at most `JobTimeout`; it
reads the row as queued and then claims it, puts it off or dies. `LiveLeaseHolds` is
about all live runs and not only the one that claimed: a second job of the task that
read the row before the claim also ends before the lease does. `TaskQueue` therefore
lets a sweep select a row only when no run is `Undecided` about it.

### WebhookDelivery

`silent` is now minus the due moment of the row (`next_attempt_at`, else
`created_at`), saturated at the window, negative while the row is deferred.
`timer[j]` is the rest of a job's delay, or of its POST. A due job waits at most
`Latency` for a slot and the sweep is an arq job like the others, taken in order of
due time (`SweepIsNext`). `loaded[j]` is the row as the run read it: attempts are
written as that number plus one, a status is written only where it differs from it,
which is what SQLAlchemy emits. A death of the worker returns the job at once (an
orderly shutdown) or after `Redelivery` (the in-progress mark expires).

### AccountLifecycle

`status` and `tier` are the account row, `day` the days since `created_at` (a tick
sets `warmup_day` to them), `flood` is `flood_until` as none, past or future. A run of
`run_task` (`RunLoad` to `RunGate`, `RunFlood`, `RunBan`, `RunRotates` or `RunEnds`), a
warmup tick (`TickLoad`, `TickStep`) and an API request (`RequestLoad` to its write)
first load the row and later commit, and what they loaded is in `run`, `tick` and
`req`; a status is written only where it differs from the copy. `held` is the account
object in the session of the health loop, `knows` the URL in its proxy object: both
stay as first loaded, because the loop has one session with `expire_on_commit=False`
and its local variables keep the objects alive; `LoopLetsGo` is the moment when the
accounts of another dead proxy take their place. `dead` says that nothing listens at
the proxy's current URL; a check of an old URL may come out either way. `Reassign`
and `Reactivate` give the account a new row in `proxies`. An account has a proxy
here (without one neither gate nor loop applies). Not in the model: an error that
ends the loop, off-hours (a run that does not start), and the warmup action itself.

### CredentialPool

`known` and `count` are the committed rows of `api_credentials`, `owner` the row locks,
`req[a]` the transaction that onboards account a: what it read and how far it is. The
import path reads without a lock, the pool path selects `FOR UPDATE SKIP LOCKED`, both
write the number read plus one as a literal. `memory` is the one session of a running
`seed_accounts`: with `expire_on_commit=False` it keeps the counts it saw first, and
overwrites what the gateway committed since. `loose` remembers which credentials were
reached by a path that looks at no lock or limit.

### Budget

`used` and `ttl` are the Redis counters, `loaded[p]` the table of `safety.yaml` in the
memory of process p (read at the first use, read again only by the gateway), `file` the
file. A write job (`TakeWrite`) fixes cap and members, then the script spends on all its
counters or refuses (`Spend`, `RefuseWrite`), then the call happens or fails
(`Perform`, `Fail`); a retry is another job. A read counter is incremented first and
compared afterwards (`TakeRead`). `Remaining` is `GET /v1/limits`. Cap tables are merged
as the loader merges them (`LoadFromDisk`), a broken file included. `recent` is history:
how many calls fell into the current and the previous ticks of one window.

### Schedule and WarmupCalendar

A schedule is derived and not stored, so it is a choice at the start: a window, a time
zone and the rest days of two weeks that take turns. The draw itself is any member of
`RestSets`: what matters is where a week's rest days lie, not the seed. The window is
any two integers, as the account API stores them (`accounts.py:82-83`): `Answers` says
that its start is an hour of the day, without which `next_open` raises and the task stays
queued, `Proper` that it also comes before its end. `Local`,
`Weekday`, `Probes` and `NextOpen` follow the arithmetic of the code. A tick reads the
dedup key, inserts the row, enqueues it and sets the key in separate steps, any of which
may be its last. `Dispatch` is the gate of `run_task` for the enqueued task.

### Watchers

`Number` and `Total` are what a process finds in its environment, 1 each by default; the
keys in Redis are indexed by the number, so that processes of one number share one.
`shard` is what a process thinks it owns, `key` what Redis says, `clients` what is
connected: rotation changes the first two and never the third. The steps of a handler
are the awaits of `handle_new_message`; `Flush` waits for an uncommitted insert of the
same sender, as the unique index does. Workers insert into the same table
(`WorkerInserts`, `WorkerEnds`: `upsert_peer` in a `resolve_username` task), so a handler
may wait for them and lose to them. `sightings`, `lost` and `raced` are history variables
of `EverySightingIsAccounted`, `resolved` of `RaceHasAWinner`. Message, chat and sender names are model
values; a `(chat, message_id)` key is a message.

### Provisioning

`registry` is what the file holds: `Truncate` empties it and sets `torn`, `Register`
writes it, and a run killed between the two has lost every entry. `book` is history: the
entries that runs wrote and nobody deleted, which is what the operators believe. A run
keeps the registry it read (`read`), its arguments and the secrets it mints: one run mints
both secrets once, so the run names them. `files`, `stack` and `volume` are the rendered
directory, the environment of the running containers and the password the database volume
was created with, which need not agree. `overlapped` says that two runs crossed; the
safety of the registry is claimed only where they did not.

## Runs and bounds

| Run | Checks | Shows |
|---|---|---|
| `tq_queue` | `HeadIsDriven` | two tasks, two slots, duplicate jobs, deferrals, an upset: the head of a queue always has somebody who will look at it |
| `tq_faults` | `OneExecutingRow`, `ImplementsSlot`, `SlotIsReleased`, `EveryTaskSettles` | one fault of any kind and duplicate jobs: never two executing rows, `AccountSlot` is refined, an orphan leaves executing, and every queued task completes or fails unless something died: 119,113 states, some two minutes |
| `tq_concurrent` | `OneTaskRunsPerAccount` violated | Findings, 1 |
| `tq_reset` | `RunningIsNeverReset` violated | Findings, 2 |
| `lease_safe` | `LiveLeaseHolds`, `OrphanRequeuedInTime` | production times 600, 900, 300 s as 2, 3, 1 |
| `wh_single` | `OneJobPerRow`, `PostsAreBounded`, `DeliveredIsFinal` | two lost enqueues, slot wait up to 120 s |
| `wh_faults` | `FaultsAddOneJob`, `CrashesMultiplyPosts`, `EveryEventLeaves` | one fault of any kind, three attempts: at most one chain of retries more, and what it posts: 2.4 million states, some two minutes |
| `lc_states` | `TierNeedsDays`, `WarmupIsUnfinished`, `ParkedHolds`, `WarmupEnds`, `ReloadedProxySleeps` | one run, one tick, one request, the loop, one restart: stale copies never break a tier's days, and a ban or sleep outlasts all who load after it |
| `budgets` | `CountIsLower`, `OverfillNeedsImport`, `EveryCounterExpires`, `AggregateWithinMembers`, `AtMostTwoWindows`, `ZeroRemainingIsRefused`, `NoCallIsUncounted` | two accounts are onboarded while two jobs spend, a file is edited or broken and processes restart: 1,301,481 states, some two and a half minutes |
| `calendar` | `OneActionPerDay`, `OpeningIsRight`, `DeferralEnds` | every pair of weeks drawn from eight sets of rest days, four windows, two zones, two ticks: 6.7 million states, some two minutes |
| `watchers` | `OneOwner`, `EverySightingIsAccounted`, `RaceHasAWinner`, `EmptyShardEnds` | two processes with an account each, a post heard twice whose key expires, two messages of one sender whom a worker may store: 492,040 states, some two minutes |
| `provision` | `SlicesAreDisjoint`, `EnteredIsComplete`, `LossStopsEverything`, `LiveKeyOnDisk`, `ClaimsAreTrue`, `PostsAvoidOthers` | three runs for two clients in a pool of two ports: 226,139 states |

`TypeOK` of every module is proved (see Proofs) and therefore not a property of a run.

Why the bounds suffice. Every conflict in the queue is between two tasks of one
account or two runs of one task; a third task is there where one stale run, one live
run and one newcomer meet (`tq_concurrent`). Accounts meet only in the recovery sweep,
which may reset rows of several in one step; the proofs cover any number of them. Two
sweepers and a timed-out run are all that `tq_reset` needs. One
duplicate (`MaxJobs = 2`) is enough to have a stale run. `MaxFaults` and `MaxTries` bound how often a behaviour is disturbed; the
liveness runs need that bound to be real, a task deferred forever is not settled.
Webhook times are in units of 30 s in `wh_single`: backoff 1, 2, 4, 8, 16, window 30,
sweep 10, POST 1, redelivery 21 (`job_timeout` 600 s and a poll). `wh_faults` has units
of 15 s (backoff 2, 4, 8, window 60, sweep 20, POST 1, redelivery 42), so that a POST is
shorter than the first backoff, and three attempts
because a longer schedule adds states and no new order of events. Three job slots
are one more than any explored chain needs; with the faults off two are used.
`AccountLifecycle` has the four tiers and three strikes of the code, one day per tier
and one actor of each kind; overlapping ticks and runs are covered by its proofs.

`budgets`: the two accounts share one credential and one host address, so every
aggregate is contended; a tick is half a window, which separates the end of one window
from the start of the next; caps of one and two have a refusal one unit away; reactions
have cap zero. A file edited to another cap is enough to make processes disagree.
`calendar`: a day has three slots, so that a window starts after midnight and closes
before it, a zone on each side of UTC moves both across the day; of the other windows one
is always open, one ends before it starts and one starts at no hour of the day; rest days
are single, paired, split by the weekend and split by the week. Two ticks can overlap;
more than two rows a day (`MaxRows`) say nothing new. `now` is taken modulo two weeks, as
the rest days are, and the age of a task stops at `LongestWait`, where `DeferralEnds` is
violated. `watchers`: numbers 1 and 2 of 2, as the client template numbers its four; a
shard of one and one account in each class, both of which hear the post. `MaxSightings`
bounds how often a key expires. `provision`: two slices that touch at a port, one inside the other
and one that leaves the pool; `TwoCross` cuts behaviours only after two runs have
crossed and a third has begun, where the properties guarded by `~overlapped` say
nothing; runs, clients and gateway ports are symmetric, ports are compared by order and
are not.

`CHECK_DEADLOCK FALSE` (not in `lc_states` and `watchers`, where somebody can always
act) because a queue with all tasks settled, a fault budget spent, a delivered row, rows
at their bound and ended runs really stop.

Fairness (`FairSpec`). Postgres and Redis answer, arq serves waiting jobs, crons keep
firing, time passes, and asyncio schedules a coroutine that can run: weak fairness
of each. Strong fairness is used twice in `TaskQueue`: for taking a job, since free
slots come and go while arq serves its queue in order, and for a run's steps, since
the advisory lock comes and goes while Postgres grants it in order. Nobody has to
create tasks, wake accounts, close hours or fail. A task whose account nobody wakes
still settles, because `_defer_or_fail_blocked` gives up after a time.

In `AccountLifecycle` days pass, the ticks and the health loop go on; no one
has to send a request or a task, and no proxy has to fail or come back.

In `Watchers` docker restarts a process and a waiting one asks again every minute, so
each process goes on claiming and connecting; no message has to arrive and no rotation
has to happen. The restart is that of `compose.client.template.yml` (`restart:
unless-stopped`); plain `docker-compose.yml` gives its watchers no restart policy, and
there `EmptyShardEnds` holds only as long as none dies. `Budget`, `WarmupCalendar` and `Provisioning` state no fairness: what
they promise are invariants, and an operator need not come back.

Every property has a mutant, the plausible bug it guards against (the definitions
named `Mutant...` beside what they change).

## Proofs

| Theorem | States |
|---|---|
| `TaskQueueProofs!TypeCorrect` | `Spec => []TypeOK` |
| `TaskQueueProofs!MutualExclusion` | `Spec => []OneExecutingRow` |
| `TaskQueueProofs!ClaimIsAtomic` | `Spec => []ClaimCheckStable` |
| `TaskQueueProofs!Refinement` | `Spec => ImplementsSlot` |
| `TaskQueueProofs!HeadIsNeverForgotten` | `Undisturbed /\ Spec => []HeadIsDriven` |
| `TaskQueueProofs!SweepIsSafe` | `Spec /\ []SweepsAreDisjoint => OnlyOrphansAreReset /\ RunningIsNeverReset` |
| `TaskQueueProofs!DuplicatesAreTheOnlyCause` | `Spec /\ []OneRunPerTask /\ []SweepsAreDisjoint => []OneTaskRunsPerAccount` |
| `RecoveryLeaseProofs!LeaseType` | `Spec => []TypeOK` |
| `RecoveryLeaseProofs!LeaseIsLongEnough` | `Spec => []LiveLeaseHolds` |
| `RecoveryLeaseProofs!OrphansAreFound` | `Scale = 1 /\ Spec => []OrphanRequeuedInTime` |
| `WebhookDeliveryProofs!WebhookType` | `Spec => []TypeOK` |
| `WebhookDeliveryProofs!SweepDoesNotRace` | `Punctual /\ Spec => []OneJobPerRow` |
| `WebhookDeliveryProofs!RetryIsBounded` | `Punctual /\ Spec => []PostsAreBounded` |
| `WebhookDeliveryProofs!DeliveredStays` | `Punctual /\ Spec => DeliveredIsFinal` |
| `WebhookDeliveryProofs!FaultsAreTheOnlySource` | `Latency + SendTime < Window /\ Spec => []FaultsAddOneJob` |
| `WebhookDeliveryProofs!CrashesCostOneChainEach` | `Latency + SendTime < Window /\ PostsAreShort /\ Spec => []CrashesMultiplyPosts` |
| `AccountLifecycleProofs!LifecycleType` | `Spec => []TypeOK` |
| `AccountLifecycleProofs!PromotionNeedsDays` | `Spec => []TierNeedsDays` |
| `AccountLifecycleProofs!WarmupHasATierLeft` | `Spec => []WarmupIsUnfinished` |
| `AccountLifecycleProofs!ParkedStays` | `Spec => ParkedHolds` |
| `BudgetProofs!PoolType`, `PoolCountIsLower`, `PoolOverfill` | `PoolSpec => []PoolTypeOK`, `[]CountIsLower`, `[]OverfillNeedsImport` |
| `BudgetProofs!BudgetType` | `Spec => []TypeOK` |
| `BudgetProofs!BudgetPool` | the pool's three invariants hold of `Budget!Spec` |
| `BudgetProofs!CountersExpire` | `Spec => []EveryCounterExpires` |
| `BudgetProofs!AggregatesAreBounded` | `Spec => []AggregateWithinMembers` |
| `BudgetProofs!TwoWindowsAtMost` | `Spec => []AtMostTwoWindows` |
| `BudgetProofs!CallsAreCounted`, `ZeroIsRefused` | `Spec => []NoCallIsUncounted`, `[]ZeroRemainingIsRefused` |
| `WarmupCalendarProofs!CalendarType`, `OneWarmupPerDay` | `Spec => []TypeOK`, `[]OneActionPerDay` |
| `WarmupCalendarProofs!OpeningsAreRight`, `DeferralsEnd` | `Spec => []OpeningIsRight`, `[]DeferralEnds` |
| `WatchersProofs!WatcherType`, `WatcherOwnership` | `Spec => []TypeOK`, `[]OneOwner` |
| `WatchersProofs!WatcherAccounting`, `WatcherRace` | `Spec => []EverySightingIsAccounted`, `[]RaceHasAWinner` |
| `ProvisioningProofs!ProvisioningType` | `Spec => []TypeOK` |
| `ProvisioningProofs!SlicesStayDisjoint`, `EnteredStaysComplete`, `LossIsNoticed` | `Spec => []SlicesAreDisjoint`, `[]EnteredIsComplete`, `[]LossStopsEverything` |
| `ProvisioningProofs!LiveKeyStays`, `ClaimsStayTrue`, `PostsKeepOff` | `Spec => []LiveKeyOnDisk`, `[]ClaimsAreTrue`, `PostsAvoidOthers` |

*TaskQueue.* `OneExecutingRow` is not inductive: a commit in state `claiming` writes
executing on the strength of a check made a step earlier. The inductive invariant
adds that a run with work has a task, that at most one run per account is between
check and commit (the lock), and `ClaimCheckStable`. No other action makes a row
executing, so each of them can only help; the claim re-uses the check. Refinement
maps an account's slot to its set of executing rows; a step is an `Acquire`, a
`Release` or a stutter, and `RecoverReset` releases several slots in one step, which
is why `Release` takes a set. The constants are only assumed to be well-typed:
the theorems cover any number of tasks, accounts, slots, sweeps and faults.
`HeadIsDriven` is about who is on the way: `Undisturbed` says that nothing dies and no
connection is lost (`upset` alone remains) and that no two tasks of an account rank
equal (creation order breaks ties). The invariant then has a run for every executing
row (`RowHasRun`), and a job, an owed enqueue or a run that will still pick for every
head (`HeadIsWatched`); a step that consumes the head's job as busy leaves the run
that made it busy, and that run picks again at its end.
A sweep acts on an old query, so `ScanInv` says that a selected row is still executing
and has no undecided run: nobody can load an executing row, and only undecided runs and
sweeps write it. Two sweeps that selected one row break this (`tq_reset`), hence the
hypothesis `SweepsAreDisjoint`; with one sweeping worker it is always true, but the
deployment has a cron and the start of each worker. With it and
one undecided run per task, a run that holds its account has its row executing
(`HoldingInv`), and `OneExecutingRow` gives what `API.md` promises. `tq_concurrent`
violates that promise, and the theorem says that duplicate runs are the only way to.

*RecoveryLease.* A live run was started at most `JobTimeout` ago and the row, if it is
executing, was stamped no earlier, since the run read it as queued; so the lease is not
over while `Lease > JobTimeout`, whatever the scale. The orphan bound needs that a row
is stamped after the latest sweep or was too young for it, and `Scale = 1`; at other
scales it is false.

*WebhookDelivery.* A second job can only come from the sweep, so the invariant says
where a live job stands in time: it starts no earlier than the row is due, and the
row is never silent for longer than the slot wait and one POST. `Punctual` says
that this sum is below the window and that nothing dies half-way; the proof shows
that these two, and not the backoff, are what the re-drive rests on. The rest ties
`posts` to `attempts` and a posting run's copy to the row. With deaths a row may have
several live jobs; `FaultsAddOneJob` holds then because of `ChainInv`: every fault is
good for one job, and the one more that there may be is on time (`OnTime`), which keeps
the sweep away from the row. A failed POST puts its job on time, a run that ends takes
its job away, the sweep finds no job on time and the one it adds is. Neither the
redelivery of a dead worker's job nor the number of faults matters, only the slot wait.

`CrashesMultiplyPosts` counts by a potential (`PostsInv`). `Due` is the set of POSTs
still owed, for every live job all attempts from the count it may find up to the last;
`Debt` is one more chain while no job is on time, which a sweep will start. Posts made
and posts owed stay within `(1 + faults)` chains plus one POST for each fault. A POST
moves one element from owed to made, a run that ends gives its rest back, and a fault
pays for a whole chain and for the one POST that is repeated. What could break this is
the counter: a run writes the number it read plus one, so of two runs in flight the
slower takes the row back and every later job would owe more than it did.
`PostsAreShort` (a POST is shorter than the backoff before each retry) excludes it: all
POSTs in flight end before the retry that the first of them scheduled may start. Without
it the bound is false with five attempts (Findings). `httpx.AsyncClient(timeout=10.0)`
limits each phase of a request, connecting, each wait for bytes, writing and the wait
for a connection, and not the whole, so that a slow receiver can hold a POST beyond the
first backoff of 30 s: the theorem is about the usual ones.

*AccountLifecycle.* A tick promotes from the tier it loaded, so `TierNeedsDays` needs
that what a tick loaded was earned (`TicksAreEarned`) and that days only grow.
`ParkedHolds` needs that whoever is at work found a status that admits it
(`CopiesAreAdmitted`): a fresh copy of a parked account then belongs to `unban` or
`reactivate` alone. The theorem says no more than the code gives: who loaded the
account before the ban may still overwrite it. Any number of runs, ticks and requests.

*CredentialPool.* A transaction's copy of the count is at most the accounts there are
(`ReadsArePast`), exact under a row lock nobody evades (`PoolReads`); a session's
memory too (`MemoryIsPast`). A commit adds one account and writes a copy plus one.

*Budget.* Links are never removed, so the share of the real accounts only grows, and
`AggregateCap` is monotone in cap and members; `JobsAreBounded` says that a job's cap
is at most the largest of any file and its members at most the accounts. The script
compares and spends in one step, so the bound holds for any number of workers.
`AtMostTwoWindows` is about calls and not about the counter: `WindowInv` says for every
order that is watched and always capped that the calls of the current and the previous
counter window, and the units that running jobs have spent and not yet used, are within
what the counter says of its window, and within the largest cap for the one before.
`CallsOf` counts a call as an element of a set, so that a tick, which moves each call to
the next age, is an injection; that `Slots` is finite is assumed for it. `CallsAreCounted` is the other side of it, and
joins the loader to the counters: whatever the file held when a process read it, `Merge`
leaves an action that nobody turned off with a cap above zero, so that the worker charges
it, and by `WindowInv` the units of the calls that are about to be made are in the
counter. The converse of `ZeroIsRefused` is false (Findings).

*Watchers.* Everything a process holds comes from its residue class (`InClass`), a key
from the class of one of the processes of its number. Classes are disjoint only for
processes that are `NumberedApart`, which is a hypothesis of `OneOwner` and no assumption
of the module. Accounting is a count per message: every step of a handler moves one unit
between its four parts, and a dying process moves all its busy handlers at once, which
takes finite cardinalities. A stored user was stored by a worker or with a message that
has its row (`StoredWithARow`), and an insert fails only against a stored user.

*Provisioning.* All of it is one invariant, `Uncrossed`: while no two runs have
crossed, at most one run is between reading and writing the registry, what it read is
`book`, and how much of its directory is there follows from where it stands. The file is
`book` or, once a run truncated it, nothing (`Kept`); a run that died there leaves it so,
and as no later run gets past `load_registry`, `book` is never contradicted.

*WarmupCalendar.* `OneActionPerDay` needs that two ticks under way make a rival and
that, without rival or crash, `rows` says how far the only tick came (`DayInv`). For the
schedule, an instant is its local day and hour (`DayAndHour`), which a few lemmas on
division make unique. Of three days in a row two rest at most, so the probing succeeds
within three days (`NextOpenIs`), and an open instant before the answer would have been
probed (`NoneIsPassedOver`). A deferral ends because of where two openings in a row can
lie: the first is less than three days ahead (`FirstWait`); if it is closed when it
comes, a new week has begun that rests on that day and so on one other at most, and the
second opening lies in the same new week, hence is open (`SecondWait`). `DeferralInv`
says that a task waits for one of these two, counted from when its deferral began, and
that survives the wrap of `now` as the schedule of two weeks ago is that of now
(`Fortnight`). Assumed are weeks of five days or more, one rest day or two, and offsets
that are whole slots. Of windows nothing is assumed: `OpeningIsRight` and `DeferralEnds`
speak of the `Proper` ones, whose start is an hour of the day and before their end, and
in the others they fail or `next_open` raises (Findings). `CalendarType` covers them all.

Only model-checked: the liveness properties `EveryTaskSettles`, `SlotIsReleased`,
`EveryEventLeaves`, `WarmupEnds`, `ReloadedProxySleeps` and `EmptyShardEnds`, as the
prover handles neither fairness nor ENABLED. Every invariant and every action property
that a passing run checks is a theorem, with the hypotheses of the table. `DeliveredIsFinal`,
`OneJobPerRow` and `PostsAreBounded` are proved where nothing dies half-way, which is
where they hold.

## Findings

1. `tq_concurrent`: a duplicate run that loaded a task as queued parks or settles the
   row while another run executes it, and the next task of the account starts while
   the first still talks to Telegram. (For the same reason FAILED and COMPLETE are
   not terminal: the stale run claims a settled row again.)
2. `tq_reset`: two overlapping sweeps select one orphan; the first resets it, its job
   runs and claims the row, and the second resets the row of that live run. The reset does
   not repeat the conditions of its select. `recovery.py:6-7` says that a genuinely-running
   task is never reset, and relies on the lease alone; every worker sweeps when it starts
   (`arq_settings.py:45-55`), next to the cron, and `docker-compose.yml` has two workers.
   `SweepIsSafe` proves that it takes two sweeps.

The following hold of the models too; each names what to state to see it.

*Queue and recovery.*
- After one job time-out an account can freeze: the sweep enqueues the task it
  recovered, which is not the head when a higher-priority task arrived meanwhile; the
  head's own job was consumed as busy. (`EveryTaskSettles` without
  its `Calm`, in `tq_faults.cfg` with `Faults = {"timeout"}`.) `recovery.py` promises the contrary.
- With `TIME_SCALE` above 1 `started_at` is Clock time and the lease's cutoff wall
  time: `OrphanRequeuedInTime` fails (`Scale = 2` in `lease_safe.cfg`).

*Webhooks.* - The re-drive window is measured from the due moment, so what it has to
exceed is the wait for a worker slot and not the backoff; with all slots held by long
tasks the sweep adds a second job (`OneJobPerRow` with `Latency = 40` in
`wh_single.cfg`). - The 480 s step of `WEBHOOK_BACKOFF` is never used, as the fifth
failure exhausts the row. A worker that dies after enqueuing a retry leaves two chains
that overwrite each other's attempts (`wh_faults` bounds the posts). A POST that lasts
as long as the first backoff lets one of them set the other's count back often enough to
break that bound (`CrashesMultiplyPosts` in `wh_faults.cfg` with attempts and times of
`wh_single.cfg`). An error of the POST that is no `RequestError` is not counted as an
attempt.

*Accounts.*
- The health loop looks at an account as it was when its session first loaded it. One
  that was warming, flooded or parked then is skipped in every later cycle, however
  dead its proxy, until the gateway restarts or another dead proxy's accounts replace it
  in the loop's variables. `ReloadedProxySleeps` shows that, as long as the loop knows
  the proxy's URL and loads the account anew, nothing else is in the way
  (`DeadProxySleeps` in `lc_states.cfg`).
- A tick, run or request that loaded an account before its ban may lift the ban
  (`ParkedHolds` fails without `CopiesAreFresh`).
- An account that was flooded, or slept and was reactivated, during warmup has left
  status warmup with a tier below ready, and no tick selects it again.

*Budgets and credentials.* - A cap of zero is no cap: `base_task.py:331` lets the action
go on uncounted, while `limits.py:65-67` calls it forbidden. The properties are guarded
by a positive cap. - A reload reaches the gateway only; workers enforce what they read
first. A file that cannot be parsed puts a process on the code's defaults. - A
`conservative` entry of `rate_limit_profiles` loses to `rate_limits` even where the
latter is only the defaults. - The report leaves out the net counter, so room may be
shown that a worker refuses. - A read counter goes past its cap, and its expiry is not
scaled by the clock. `limits.py:59` calls the fixed window sliding; two windows' worth
can fall into 24 h. - The host's own address is one net row: accounts without a proxy
share its aggregate. - `seed_accounts` writes counts on the basis of the ones it saw
first. After one rollback the rest of its batch fails, since the reserve proxies it
holds are expired (line 151).

*Warmup and schedule.*
- `warmup.py:163-166` says exactly one action and idempotent: two startup ticks, or a
  tick that dies before the key, make two (`rows <= 1` in `calendar.cfg`).
- `next_open` names an opening by the rest days of the week it is asked in: at the turn
  of the week that day may rest, and the task is deferred again.
- `accounts.py:82-83` stores any `work_start` and `work_end`. With a start at or after the
  end the account is never active, `next_open` names instants at which it is closed, and
  its tasks are deferred from day to day (`DeferralEnds` without `Proper`). With a start
  that is no hour of the day, `next_open` raises instead of answering, whenever the
  account is closed; the task stays queued and its job is gone.

*Watchers.* - `docker-compose.yml:59-105`, the file of the README's quick start, starts
four watchers and sets neither `WATCHER_PROCESS_ID` nor `WATCHER_TOTAL`, so each takes the
default 1 of 1 (`watcher_process.py:42-43`) and claims the whole fleet: the state that the
comments at `watcher_process.py:38-41` and `rotation_manager.py:25-29` say was abolished.
(The conclusion of `OneOwner` fails with equal numbers; `compose.client.template.yml`
numbers its four apart.) - Clients are started once. A rotation or a new account changes the shard
and never the clients; only a restart does. - The key is chat and message id
(`redis_client.py:201`): in private chats the ids count per account, so one account's
message may suppress another's. - A message whose handler loses the insert of a new
sender, to another handler or to a worker's `upsert_peer`, is dropped although it was
marked seen.

*Provisioning.*
- The registry has no lock (read at 370, written at 466): of two crossing runs the
  later drops the other's entry, and both may hold one slice.
- A run killed between `.env` (431) and the registry (466) leaves a directory that the
  next run renders again with new secrets, over a stack that may be up. One killed
  inside `write_text` (466), after the file was opened and emptied, loses the entries of
  all clients; `load_registry` raises on what is left (76-79), so all later runs stop until
  somebody restores it (`registry = book` fails in `provision.cfg`). Who puts an empty
  registry in its place gives the same ports away again.
- A seed-only run takes slice and port from the command line (388-405). `create_proxy`
  looks for no duplicate (`proxies.py:33`): seeding again after lost answers doubles rows.
- `docs/provisioning.md:56-61` seeds by running the full command again, which is
  refused; a removed and re-run client (63-65) gets a password its old volume does
  not know. A full run posts before its stack can be up.

## Not modelled

What a Telegram call does, the extraction of its results, payload formats, logging,
telemetry and the read-only endpoints but for the limits report: data shaping without
state. `WebhookSender.send`, the inline retry loop of warmup and proxy events, keeps no
state. `schedule_cross_message`, `assign_reserve`, `select_cross_pair`, the mature and
premium cap profiles and the watcher's `crash_recovery` have no caller in production
code. The sweeps' limits of 100 and 500 rows are left out: one row or a handful is below
them. Sessions, fingerprints and peer caches are caches in front of Telegram.

An error that ends the health loop; off-hours as a state of `AccountLifecycle` (a run that
does not start) and the warmup action's content. In `Budget`: a proxy reassigned while
jobs run (a fresh net counter). In `Schedule`: the direct-message override, the flat
hours of the old guard, the random draw as such, the LRU cache. In `Watchers`: the payload, an unset webhook URL, the exact timing of
rotation (three loops that do the same). In `Provisioning`: keys and passwords given on
the command line, the webhook URL, exit codes. `convert_sessions`, `seed_kz_accounts`
and the migrations are file conversion, a fixed list and schema.

## Plan

What a continuation would take up: `TaskQueue` composed with the insertion of the
webhook row (result committed, event not yet: base_task.py:501); an abstract queue that
promises that accepted tasks end, refined under fairness; `AccountLifecycle` with
several accounts on one proxy; the reassignment of proxies in `Budget`; `TaskQueue` with
the time of `RecoveryLease`, so that the guard of its sweep becomes a theorem of one
module.
