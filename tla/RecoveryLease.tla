--------------------------- MODULE RecoveryLease ---------------------------
(***************************************************************************)
(* Time in the recovery of orphaned tasks: one task row, the runs that     *)
(* claim it, job_timeout that kills them, and the sweep that resets an     *)
(* `executing` row whose lease has expired.                                *)
(*                                                                         *)
(* TaskQueue abstracts time to the guard LeaseExpired; this module shows   *)
(* where that guard comes from.  `now` is real time.  started_at is read   *)
(* from the Clock, which runs Scale times faster than real time            *)
(* (TIME_SCALE, 1 in production); recovery.py compares it with real time.  *)
(***************************************************************************)
EXTENDS Integers

CONSTANTS
    Runs,         \* worker slots that may run the task, also several at once
    JobTimeout,   \* WorkerSettings.job_timeout
    Lease,        \* DEFAULT_LEASE_SECONDS
    SweepEvery,   \* period of the recover_orphaned_tick cron
    Scale,        \* TIME_SCALE
    Horizon       \* bound: the behaviour ends at this time

\* "The lease MUST exceed job_timeout" (recovery.py).
ASSUME TimesType == /\ JobTimeout \in Nat \ {0} /\ SweepEvery \in Nat \ {0}
                    /\ Scale \in Nat \ {0} /\ Horizon \in Nat
                    /\ Lease \in Nat /\ Lease > JobTimeout

VARIABLES
    now,          \* real time
    row,          \* tasks.status: queued, executing, or settled (anything else)
    startedAt,    \* tasks.started_at, 0 when NULL
    phase,        \* run -> idle, loaded (has read the row), claimed
    began,        \* run -> real time at which arq started its job
    lastSweep,    \* real time of the latest sweep
    diedAt        \* real time at which the latest claimed run was killed

vars == <<now, row, startedAt, phase, began, lastSweep, diedAt>>

TypeOK ==
    /\ now \in 0..Horizon
    /\ row \in {"queued", "executing", "settled"}
    /\ startedAt \in Nat
    /\ phase \in [Runs -> {"idle", "loaded", "claimed"}]
    /\ began \in [Runs -> 0..Horizon]
    /\ lastSweep \in 0..Horizon
    /\ diedAt \in 0..Horizon

\* base_task._now(): Clock.now() of a process that booted at time 0
ClockNow == now * Scale

Live(r) == phase[r] # "idle"

Init ==
    /\ now = 0 /\ lastSweep = 0 /\ diedAt = 0
    /\ row = "queued" /\ startedAt = 0
    /\ phase = [r \in Runs |-> "idle"]
    /\ began = [r \in Runs |-> 0]

\* Time passes, but no live job outlasts its timeout and no sweep is skipped.
Tick ==
    /\ now < Horizon
    /\ \A r \in Runs : Live(r) => now < began[r] + JobTimeout
    /\ now < lastSweep + SweepEvery
    /\ now' = now + 1
    /\ UNCHANGED <<row, startedAt, phase, began, lastSweep, diedAt>>

\* arq starts a job; run_task reads the row and goes on if it is queued.
StartJob(r) ==
    /\ phase[r] = "idle"
    /\ row = "queued"
    /\ phase' = [phase EXCEPT ![r] = "loaded"]
    /\ began' = [began EXCEPT ![r] = now]
    /\ UNCHANGED <<now, row, startedAt, lastSweep, diedAt>>

\* Mutant: a claim keeps the started_at of the claim before it.
MutantClaimKeepsStamp(r) ==
    /\ phase[r] = "loaded"
    /\ row' = "executing"
    /\ startedAt' = IF startedAt = 0 THEN ClockNow ELSE startedAt
    /\ phase' = [phase EXCEPT ![r] = "claimed"]
    /\ UNCHANGED <<now, began, lastSweep, diedAt>>

\* The claim commits EXECUTING and started_at, whatever the row holds by now.
Claim(r) ==
    /\ phase[r] = "loaded"
    /\ row' = "executing"
    /\ startedAt' = ClockNow
    /\ phase' = [phase EXCEPT ![r] = "claimed"]
    /\ UNCHANGED <<now, began, lastSweep, diedAt>>

\* The account is not runnable: the run defers or fails the row it loaded, by
\* primary key, whatever the row holds by now.
PutOff(r) ==
    /\ phase[r] = "loaded"
    /\ row' = "settled"
    /\ phase' = [phase EXCEPT ![r] = "idle"]
    /\ UNCHANGED <<now, startedAt, began, lastSweep, diedAt>>

\* The run writes its result.
Finish(r) ==
    /\ phase[r] = "claimed"
    /\ row' = "settled"
    /\ phase' = [phase EXCEPT ![r] = "idle"]
    /\ UNCHANGED <<now, startedAt, began, lastSweep, diedAt>>

\* job_timeout, a crash or a claim refused by the queue: the run is gone, the row
\* stays as it is.
Die(r) ==
    /\ Live(r)
    /\ phase' = [phase EXCEPT ![r] = "idle"]
    /\ diedAt' = IF phase[r] = "claimed" THEN now ELSE diedAt
    /\ UNCHANGED <<now, row, startedAt, began, lastSweep>>

\* A deferred task becomes due.
Requeue ==
    /\ row = "settled"
    /\ row' = "queued"
    /\ UNCHANGED <<now, startedAt, phase, began, lastSweep, diedAt>>

Expired == row = "executing" /\ startedAt < now - Lease

\* Mutant: the sweep runs at worker startup only, as before 04.09.
MutantSweepAtStartup ==
    /\ lastSweep' = now
    /\ IF now = 0 /\ Expired THEN row' = "queued" /\ startedAt' = 0
                            ELSE UNCHANGED <<row, startedAt>>
    /\ UNCHANGED <<now, phase, began, diedAt>>

\* recover_orphaned_tasks, on the cron and at every worker's startup.
Sweep ==
    /\ lastSweep' = now
    /\ row' = IF Expired THEN "queued" ELSE row
    /\ startedAt' = IF Expired THEN 0 ELSE startedAt
    /\ UNCHANGED <<now, phase, began, diedAt>>

Next ==
    \/ Tick \/ Requeue \/ Sweep
    \/ \E r \in Runs : StartJob(r) \/ Claim(r) \/ PutOff(r) \/ Finish(r) \/ Die(r)

Spec == Init /\ [][Next]_vars

-----------------------------------------------------------------------------
\* recovery.py:7: a genuinely-running task is never reset.  While a run is
\* between reading the row and its result, whether it has claimed the row itself
\* or waits beside another that did, the lease of the row is not over, so a sweep
\* does not select it; this is the guard LeaseExpired of TaskQueue.
LiveLeaseHolds == \A r \in Runs : Live(r) => ~Expired

Orphaned == row = "executing" /\ \A r \in Runs : phase[r] # "claimed"

\* recovery.py:26-28: an orphaned task is re-queued a lease (and at most one
\* sweep period) after its run died.
OrphanRequeuedInTime == Orphaned => now <= diedAt + Lease + SweepEvery

=============================================================================
