----------------------------- MODULE TaskQueue -----------------------------
(***************************************************************************)
(* The per-account FIFO of Atomic Engage: rows of the `tasks` table in     *)
(* Postgres, the arq jobs that carry task ids through Redis, and the       *)
(* worker coroutines that execute run_task on them.                        *)
(*                                                                         *)
(* One step of this module is one transaction or one Redis command; what   *)
(* lies between two awaits of a coroutine that touch shared state is one   *)
(* step, and every such await is a point where other actors may run.  A    *)
(* run keeps only what the coroutine keeps: the task it loaded (pc and     *)
(* job), never a fresh copy of the row.                                    *)
(*                                                                         *)
(* Faults (worker crash, job timeout, database or Redis error, account     *)
(* upset) are enabled by the constant Faults and bounded by MaxFaults.     *)
(***************************************************************************)
EXTENDS Naturals, FiniteSets

CONSTANTS
    Tasks,        \* rows that the behaviour may create
    Accounts,     \* Telegram accounts of the fleet
    AccountOf,    \* task -> account (tasks.account_id)
    Rank,         \* task -> position in (priority desc, created_at, id)
    Runs,         \* job slots of all workers together (max_jobs each)
    Sweepers,     \* workers and crons that run recover_orphaned_tasks
    NoTask,       \* the task of an idle run
    Faults,       \* the fault kinds that may happen
    MaxFaults,    \* bound: how many faults a behaviour contains
    MaxTries,     \* bound: how often one task is deferred after being tried
    MaxJobs       \* bound: how many equal jobs arq holds for one task

FaultKinds == {"crash", "timeout", "error", "upset"}

ASSUME AccountOfType == AccountOf \in [Tasks -> Accounts]
ASSUME RankType == Rank \in [Tasks -> Nat]
ASSUME NoTaskIsNone == NoTask \notin Tasks
ASSUME BoundsType == /\ MaxFaults \in Nat /\ MaxTries \in Nat
                     /\ MaxJobs \in Nat \ {0}
                     /\ Faults \subseteq FaultKinds

VARIABLES
    row,          \* task -> tasks.status, "absent" before the INSERT commits
    jobs,         \* task -> number of arq jobs waiting with this task_id
    owed,         \* tasks committed as queued whose enqueue_job call is still due
    pc,           \* run -> where its coroutine stands
    job,          \* run -> the task it loaded
    asleep,       \* account -> its status is BANNED or SLEEPING
    closed,       \* account -> flood_until or its working hours are ahead of now
    waker,        \* account -> where reactivate/unban stands in _wake_queue
    scan,         \* sweeper -> ids it selected and has not reset yet
    tries,        \* task -> deferrals so far, bounded by MaxTries
    faults        \* history: upsets of accounts and losses so far, MaxFaults in all

runVars == <<pc, job>>
vars == <<row, jobs, owed, pc, job, asleep, closed, waker, scan, tries, faults>>

TaskStatus == {"absent", "queued", "executing", "deferred", "complete", "failed"}

RunPC == {"idle", "prepare", "claim", "claiming", "gate", "act",
          "defer", "park", "next", "pick"}

TypeOK ==
    /\ row \in [Tasks -> TaskStatus]
    /\ jobs \in [Tasks -> 0..MaxJobs]
    /\ owed \subseteq Tasks
    /\ pc \in [Runs -> RunPC]
    /\ job \in [Runs -> Tasks \cup {NoTask}]
    /\ asleep \in [Accounts -> BOOLEAN]
    /\ closed \in [Accounts -> BOOLEAN]
    /\ waker \in [Accounts -> {"idle", "next", "pick"}]
    /\ scan \in [Sweepers -> SUBSET Tasks]
    /\ tries \in [Tasks -> 0..MaxTries]
    /\ faults \in [upsets : Nat, losses : Nat]
    /\ faults.upsets + faults.losses <= MaxFaults

-----------------------------------------------------------------------------
(* What the queries of the code ask                                         *)

SameAccount(t, u) == AccountOf[t] = AccountOf[u]

\* ORDER BY priority DESC, created_at, id
Ahead(t, u) == Rank[t] < Rank[u]

Executing(a) == {t \in Tasks : AccountOf[t] = a /\ row[t] = "executing"}

Queued(a) == {t \in Tasks : AccountOf[t] = a /\ row[t] = "queued"}

\* the rows LIMIT 1 may return
Head(a) == {t \in Queued(a) : \A u \in Queued(a) \ {t} : ~Ahead(u, t)}

\* Mutant: the check compares with the priority of the other row.
MutantOutrankedExecuting(t) == \E u \in Executing(AccountOf[t]) : Ahead(u, t)

OtherExecuting(t) == Executing(AccountOf[t]) \ {t} # {}

\* equal jobs beyond MaxJobs are merged: a further copy finds the same row
Enqueued(js, t) == [js EXCEPT ![t] = IF @ < MaxJobs THEN @ + 1 ELSE @]

\* Mutant: no advisory lock is taken.
MutantNoLock(a) == TRUE

\* pg_advisory_xact_lock(account_id) is held by a run between its check and
\* the commit of its EXECUTING write
LockFree(a) == \A r \in Runs : pc[r] = "claiming" => AccountOf[job[r]] # a

GoTo(r, label) == pc' = [pc EXCEPT ![r] = label]

Return(r) == /\ pc' = [pc EXCEPT ![r] = "idle"]
             /\ job' = [job EXCEPT ![r] = NoTask]

FaultOccurs(kind) == /\ kind \in Faults
                     /\ faults.upsets + faults.losses < MaxFaults
                     /\ faults' = IF kind = "upset" THEN [faults EXCEPT !.upsets = @ + 1]
                                                    ELSE [faults EXCEPT !.losses = @ + 1]

-----------------------------------------------------------------------------
Init ==
    /\ row = [t \in Tasks |-> "absent"]
    /\ jobs = [t \in Tasks |-> 0]
    /\ owed = {}
    /\ pc = [r \in Runs |-> "idle"]
    /\ job = [r \in Runs |-> NoTask]
    /\ asleep = [a \in Accounts |-> FALSE]
    /\ closed = [a \in Accounts |-> FALSE]
    /\ waker = [a \in Accounts |-> "idle"]
    /\ scan = [w \in Sweepers |-> {}]
    /\ tries = [t \in Tasks |-> 0]
    /\ faults = [upsets |-> 0, losses |-> 0]

-----------------------------------------------------------------------------
(* The gateway: create_action                                               *)

\* INSERT of the row commits before anything is enqueued; a banned or
\* sleeping account is refused with 409.
CreateAction(t) ==
    /\ row[t] = "absent"
    /\ ~asleep[AccountOf[t]]
    /\ row' = [row EXCEPT ![t] = "queued"]
    /\ owed' = owed \cup {t}
    /\ UNCHANGED <<jobs, pc, job, asleep, closed, waker, scan, tries, faults>>

\* The enqueue_job call that follows the commit in create_action,
\* reenqueue_due_deferred and recover_orphaned_tasks.
EnqueueOwed(t) ==
    /\ t \in owed
    /\ owed' = owed \ {t}
    /\ jobs' = Enqueued(jobs, t)
    /\ UNCHANGED <<row, pc, job, asleep, closed, waker, scan, tries, faults>>

\* That call fails (Redis unreachable) or its process dies before making it:
\* the row stays queued and no job exists for it.
EnqueueFails(t) ==
    /\ t \in owed
    /\ FaultOccurs("error")
    /\ owed' = owed \ {t}
    /\ UNCHANGED <<row, jobs, pc, job, asleep, closed, waker, scan, tries>>

-----------------------------------------------------------------------------
(* A worker: run_task                                                       *)

\* arq hands a job to a free slot; the coroutine reads the row once.
StartJob(r, t) ==
    /\ pc[r] = "idle"
    /\ jobs[t] > 0
    /\ jobs' = [jobs EXCEPT ![t] = @ - 1]
    /\ IF row[t] = "queued"
         THEN /\ GoTo(r, "prepare")
              /\ job' = [job EXCEPT ![r] = t]
         ELSE UNCHANGED runVars                       \* task_not_queued
    /\ UNCHANGED <<row, owed, asleep, closed, waker, scan, tries, faults>>

\* BaseTask.prepare and, when it returns None, compute_defer_until, which asks
\* for a time before anybody asks whether the account is banned or asleep.
Prepare(r) ==
    /\ pc[r] = "prepare"
    /\ GoTo(r, CASE closed[AccountOf[job[r]]] -> "defer"
                 [] ~closed[AccountOf[job[r]]] /\ asleep[AccountOf[job[r]]] -> "park"
                 [] OTHER -> "claim")
    /\ UNCHANGED <<row, jobs, owed, job, asleep, closed, waker, scan, tries, faults>>

\* The geo or the datacenter-ASN gate inside prepare puts the account to sleep.
PrepareSleeps(r) ==
    /\ pc[r] = "prepare"
    /\ ~asleep[AccountOf[job[r]]]
    /\ FaultOccurs("upset")
    /\ asleep' = [asleep EXCEPT ![AccountOf[job[r]]] = TRUE]
    /\ GoTo(r, IF closed[AccountOf[job[r]]] THEN "defer" ELSE "park")
    /\ UNCHANGED <<row, jobs, owed, job, closed, waker, scan, tries>>

\* The account is temporarily not runnable: DEFERRED until it is, and no
\* enqueue_next.  The write goes by primary key, whatever the row holds by now.
Defer(r) ==
    /\ pc[r] = "defer"
    /\ row' = [row EXCEPT ![job[r]] = "deferred"]
    /\ Return(r)
    /\ UNCHANGED <<jobs, owed, asleep, closed, waker, scan, tries, faults>>

\* Mutant: a task whose account is blocked stays queued, as before 28.08.
MutantParkLeavesQueued(r) ==
    /\ pc[r] = "park"
    /\ Return(r)
    /\ UNCHANGED <<row, jobs, owed, asleep, closed, waker, scan, tries, faults>>

\* _defer_or_fail_blocked: FAILED once the task is older than
\* TASK_BLOCKED_MAX_SECONDS, else DEFERRED by TASK_BLOCKED_RETRY_SECONDS.
Park(r) ==
    /\ pc[r] = "park"
    /\ \/ row' = [row EXCEPT ![job[r]] = "failed"] /\ UNCHANGED tries
       \/ /\ tries[job[r]] < MaxTries
          /\ row' = [row EXCEPT ![job[r]] = "deferred"]
          /\ tries' = [tries EXCEPT ![job[r]] = @ + 1]
    /\ GoTo(r, "next")
    /\ UNCHANGED <<jobs, owed, job, asleep, closed, waker, scan, faults>>

\* _claim_for_execution, up to its decision: take the advisory lock, ask for
\* another executing row and for the queue head.
ClaimCheck(r) ==
    /\ pc[r] = "claim"
    /\ LockFree(AccountOf[job[r]])
    /\ IF \/ OtherExecuting(job[r])
          \/ /\ Queued(AccountOf[job[r]]) # {}
             /\ job[r] \notin Head(AccountOf[job[r]])
         THEN Return(r)                               \* fifo_account_busy
         ELSE GoTo(r, "claiming") /\ UNCHANGED job
    /\ UNCHANGED <<row, jobs, owed, asleep, closed, waker, scan, tries, faults>>

\* ... and its commit, which releases the lock.
ClaimCommit(r) ==
    /\ pc[r] = "claiming"
    /\ row' = [row EXCEPT ![job[r]] = "executing"]
    /\ GoTo(r, "gate")
    /\ UNCHANGED <<jobs, owed, job, asleep, closed, waker, scan, tries, faults>>

\* The read and the write budget gates, then the humanizer pause.
GatePass(r) ==
    /\ pc[r] = "gate"
    /\ GoTo(r, "act")
    /\ UNCHANGED <<row, jobs, owed, job, asleep, closed, waker, scan, tries, faults>>

GateDefer(r) ==
    /\ pc[r] = "gate"
    /\ tries[job[r]] < MaxTries
    /\ row' = [row EXCEPT ![job[r]] = "deferred"]
    /\ tries' = [tries EXCEPT ![job[r]] = @ + 1]
    /\ GoTo(r, "next")
    /\ UNCHANGED <<jobs, owed, job, asleep, closed, waker, scan, faults>>

\* The Telegram call returns: COMPLETE, or FAILED without touching the account
\* (an RPC error, a programming error, a connection error with no proxy).
ActEnds(r) ==
    /\ pc[r] = "act"
    /\ \E status \in {"complete", "failed"} :
           row' = [row EXCEPT ![job[r]] = status]
    /\ GoTo(r, "next")
    /\ UNCHANGED <<jobs, owed, job, asleep, closed, waker, scan, tries, faults>>

\* PeerIdInvalid: a resolve_username job is enqueued under the same task id,
\* then the row is FAILED.
ActPeerInvalid(r) ==
    /\ pc[r] = "act"
    /\ jobs' = Enqueued(jobs, job[r])
    /\ row' = [row EXCEPT ![job[r]] = "failed"]
    /\ GoTo(r, "next")
    /\ UNCHANGED <<owed, job, asleep, closed, waker, scan, tries, faults>>

\* A ban error: the account is BANNED and the task FAILED in one commit.
ActBanned(r) ==
    /\ pc[r] = "act"
    /\ row' = [row EXCEPT ![job[r]] = "failed"]
    /\ asleep' = [asleep EXCEPT ![AccountOf[job[r]]] = TRUE]
    /\ closed' = [closed EXCEPT ![AccountOf[job[r]]] = FALSE]
    /\ GoTo(r, "next")
    /\ UNCHANGED <<jobs, owed, job, waker, scan, tries, faults>>

\* FloodWait: account FLOOD until `until`, task DEFERRED until then.  The
\* status write overwrites a sleep or a ban set meanwhile, unless the run had
\* loaded the account as FLOOD already: then SQLAlchemy sees no change to write.
ActFlood(r) ==
    /\ pc[r] = "act"
    /\ tries[job[r]] < MaxTries
    /\ row' = [row EXCEPT ![job[r]] = "deferred"]
    /\ tries' = [tries EXCEPT ![job[r]] = @ + 1]
    /\ closed' = [closed EXCEPT ![AccountOf[job[r]]] = TRUE]
    /\ \E status \in {FALSE, asleep[AccountOf[job[r]]]} :
           asleep' = [asleep EXCEPT ![AccountOf[job[r]]] = status]
    /\ GoTo(r, "next")
    /\ UNCHANGED <<jobs, owed, job, waker, scan, faults>>

\* A connection error with a proxy: rotate its port, DEFERRED for a retry.
ActRotate(r) ==
    /\ pc[r] = "act"
    /\ tries[job[r]] < MaxTries
    /\ row' = [row EXCEPT ![job[r]] = "deferred"]
    /\ tries' = [tries EXCEPT ![job[r]] = @ + 1]
    /\ GoTo(r, "next")
    /\ UNCHANGED <<jobs, owed, job, asleep, closed, waker, scan, faults>>

\* enqueue_next, first query: does anything of the account execute?
NextCheck(r) ==
    /\ pc[r] = "next"
    /\ IF Executing(AccountOf[job[r]]) # {}
         THEN Return(r)
         ELSE GoTo(r, "pick") /\ UNCHANGED job
    /\ UNCHANGED <<row, jobs, owed, asleep, closed, waker, scan, tries, faults>>

\* Mutant: enqueue_next finds the head but does not enqueue it.
MutantNextPickForgets(r) ==
    /\ pc[r] = "pick"
    /\ Return(r)
    /\ UNCHANGED <<row, jobs, owed, asleep, closed, waker, scan, tries, faults>>

\* enqueue_next, second query and the enqueue of the head.
NextPick(r) ==
    /\ pc[r] = "pick"
    /\ LET head == Head(AccountOf[job[r]])
       IN  IF head = {} THEN UNCHANGED jobs
           ELSE \E t \in head : jobs' = Enqueued(jobs, t)
    /\ Return(r)
    /\ UNCHANGED <<row, owed, asleep, closed, waker, scan, tries, faults>>

\* Postgres or Redis fails under the coroutine: what is not committed is rolled
\* back, the exception reaches arq, which does not retry, and nothing is
\* dispatched.  A row that was claimed stays EXECUTING.
RunRaises(r) ==
    /\ pc[r] # "idle"
    /\ FaultOccurs("error")
    /\ Return(r)
    /\ UNCHANGED <<row, jobs, owed, asleep, closed, waker, scan, tries>>

\* job_timeout cancels the coroutine between its claim and its result.
\* `except Exception` does not see a cancellation, so the row stays EXECUTING;
\* only inside the try block does enqueue_next follow.  arq does not retry.
JobTimeout(r) ==
    /\ pc[r] \in {"gate", "act"}
    /\ FaultOccurs("timeout")
    /\ IF pc[r] = "gate" THEN Return(r)
                         ELSE GoTo(r, "next") /\ UNCHANGED job
    /\ UNCHANGED <<row, jobs, owed, asleep, closed, waker, scan, tries>>

\* The worker process dies: uncommitted work is rolled back (the advisory lock
\* with it) and arq hands the same job to another worker.
WorkerCrash(r) ==
    /\ pc[r] # "idle"
    /\ FaultOccurs("crash")
    /\ jobs' = Enqueued(jobs, job[r])
    /\ Return(r)
    /\ UNCHANGED <<row, owed, asleep, closed, waker, scan, tries>>

-----------------------------------------------------------------------------
(* Scheduler and recovery                                                   *)

\* reenqueue_due_deferred: due rows are locked (SKIP LOCKED), re-queued in one
\* commit, then enqueued one by one.
ReenqueueDueDeferred(due) ==
    /\ due # {}
    /\ \A t \in due : row[t] = "deferred"
    /\ row' = [t \in Tasks |-> IF t \in due THEN "queued" ELSE row[t]]
    /\ owed' = owed \cup due
    /\ UNCHANGED <<jobs, pc, job, asleep, closed, waker, scan, tries, faults>>

\* The run has read its task and has not written or given up its result yet.
Undecided(r) == pc[r] \notin {"idle", "next", "pick"}

\* started_at is older than the lease.  The lease exceeds job_timeout, so no run
\* that read the row can still be undecided about it: a job that began after the
\* claim would have read `executing` (LiveLeaseHolds of module RecoveryLease).
LeaseExpired(t) == \A r \in Runs : job[r] = t => ~Undecided(r)

\* recover_orphaned_tasks selects the expired ids ...
RecoverSelect(w) ==
    /\ scan[w] = {}
    /\ scan' = [scan EXCEPT ![w] =
                   {t \in Tasks : row[t] = "executing" /\ LeaseExpired(t)}]
    /\ scan'[w] # {}
    /\ UNCHANGED <<row, jobs, owed, pc, job, asleep, closed, waker, tries, faults>>

\* Mutant: the reset is enqueued but never committed.
MutantRecoverUncommitted(w) ==
    /\ scan[w] # {}
    /\ owed' = owed \cup scan[w]
    /\ scan' = [scan EXCEPT ![w] = {}]
    /\ UNCHANGED <<row, jobs, pc, job, asleep, closed, waker, tries, faults>>

\* ... and resets them by id, without asking for their status again.
RecoverReset(w) ==
    /\ scan[w] # {}
    /\ row' = [t \in Tasks |-> IF t \in scan[w] THEN "queued" ELSE row[t]]
    /\ owed' = owed \cup scan[w]
    /\ scan' = [scan EXCEPT ![w] = {}]
    /\ UNCHANGED <<jobs, pc, job, asleep, closed, waker, tries, faults>>

-----------------------------------------------------------------------------
(* The account                                                              *)

\* The flood wait elapses or the working hours open.
AccountOpens(a) ==
    /\ closed[a]
    /\ closed' = [closed EXCEPT ![a] = FALSE]
    /\ UNCHANGED <<row, jobs, owed, pc, job, asleep, waker, scan, tries, faults>>

\* Working hours close.
AccountCloses(a) ==
    /\ ~closed[a]
    /\ FaultOccurs("upset")
    /\ closed' = [closed EXCEPT ![a] = TRUE]
    /\ UNCHANGED <<row, jobs, owed, pc, job, asleep, waker, scan, tries>>

\* Another actor puts the account to sleep: the proxy health check, or the geo
\* gate of create_action.
AccountSleeps(a) ==
    /\ ~asleep[a]
    /\ FaultOccurs("upset")
    /\ asleep' = [asleep EXCEPT ![a] = TRUE]
    /\ UNCHANGED <<row, jobs, owed, pc, job, closed, waker, scan, tries>>

\* reactivate_account or unban_account commits ACTIVE, then calls _wake_queue,
\* which is enqueue_next on behalf of no task.
Wake(a) ==
    /\ asleep[a]
    /\ waker[a] = "idle"
    /\ asleep' = [asleep EXCEPT ![a] = FALSE]
    /\ waker' = [waker EXCEPT ![a] = "next"]
    /\ UNCHANGED <<row, jobs, owed, pc, job, closed, scan, tries, faults>>

WakeCheck(a) ==
    /\ waker[a] = "next"
    /\ waker' = [waker EXCEPT ![a] = IF Executing(a) # {} THEN "idle" ELSE "pick"]
    /\ UNCHANGED <<row, jobs, owed, pc, job, asleep, closed, scan, tries, faults>>

WakePick(a) ==
    /\ waker[a] = "pick"
    /\ IF Head(a) = {} THEN UNCHANGED jobs
       ELSE \E t \in Head(a) : jobs' = Enqueued(jobs, t)
    /\ waker' = [waker EXCEPT ![a] = "idle"]
    /\ UNCHANGED <<row, owed, pc, job, asleep, closed, scan, tries, faults>>

\* Redis is unreachable: the account is awake, its queue is not.
WakeFails(a) ==
    /\ waker[a] # "idle"
    /\ FaultOccurs("error")
    /\ waker' = [waker EXCEPT ![a] = "idle"]
    /\ UNCHANGED <<row, jobs, owed, pc, job, asleep, closed, scan, tries>>

-----------------------------------------------------------------------------
\* What a run does by itself once it has a job
Advance(r) ==
    \/ Prepare(r) \/ Defer(r) \/ Park(r)
    \/ ClaimCheck(r) \/ ClaimCommit(r)
    \/ GatePass(r) \/ GateDefer(r)
    \/ ActEnds(r) \/ ActPeerInvalid(r) \/ ActBanned(r) \/ ActFlood(r) \/ ActRotate(r)
    \/ NextCheck(r) \/ NextPick(r)

RunFault(r) ==
    \/ PrepareSleeps(r) \/ RunRaises(r) \/ JobTimeout(r) \/ WorkerCrash(r)

Next ==
    \/ \E t \in Tasks : CreateAction(t) \/ EnqueueOwed(t) \/ EnqueueFails(t)
    \/ \E r \in Runs : Advance(r) \/ RunFault(r)
    \/ \E r \in Runs, t \in Tasks : StartJob(r, t)
    \/ \E due \in SUBSET Tasks : ReenqueueDueDeferred(due)
    \/ \E w \in Sweepers : RecoverSelect(w) \/ RecoverReset(w)
    \/ \E a \in Accounts :
        \/ AccountOpens(a) \/ AccountCloses(a) \/ AccountSleeps(a)
        \/ Wake(a) \/ WakeCheck(a) \/ WakePick(a) \/ WakeFails(a)

Spec == Init /\ [][Next]_vars

\* arq serves jobs in order, crons keep firing, timers elapse, and a coroutine
\* that can run is scheduled; Postgres grants the advisory lock in FIFO order.
\* Nobody is obliged to create a task, to wake an account, or to fail.
Fairness ==
    /\ \A t \in Tasks : WF_vars(EnqueueOwed(t))
    /\ \A t \in Tasks : SF_vars(\E r \in Runs : StartJob(r, t))
    /\ \A r \in Runs : SF_vars(Advance(r))
    /\ WF_vars(\E due \in SUBSET Tasks : ReenqueueDueDeferred(due))
    /\ \A w \in Sweepers : WF_vars(RecoverSelect(w) \/ RecoverReset(w))
    /\ \A a \in Accounts : WF_vars(AccountOpens(a))
    /\ \A a \in Accounts : WF_vars(WakeCheck(a) \/ WakePick(a))

FairSpec == Spec /\ Fairness

-----------------------------------------------------------------------------
(* Properties                                                               *)

\* At most one row per account is EXECUTING (FR-021, _claim_for_execution), with
\* workers crashing, jobs duplicated and rows written by stale runs.
OneExecutingRow ==
    \A t, u \in Tasks :
        row[t] = "executing" /\ row[u] = "executing" /\ SameAccount(t, u) => t = u

\* The queue gives every account one execution slot (module AccountSlot): the
\* rows that are EXECUTING are its holders, claims and results its only moves.
Slot == INSTANCE AccountSlot WITH holder <- [a \in Accounts |-> Executing(a)]

ImplementsSlot == Slot!SlotSpec

\* While the advisory lock is held, nothing else of the account executes: the
\* check that was made stays true until the commit that relies on it.
ClaimCheckStable ==
    \A r \in Runs : pc[r] = "claiming" =>
        \A u \in Tasks : row[u] = "executing" /\ SameAccount(u, job[r]) => u = job[r]

\* Somebody still has to look at task t: a job, an enqueue that is due, or a run
\* that loaded it and has not decided yet.
Carried(t) ==
    \/ jobs[t] > 0
    \/ t \in owed
    \/ \E r \in Runs : job[r] = t /\ pc[r] \in {"prepare", "claim", "claiming", "defer", "park"}

\* Something of account a will still dispatch its queue.
Driven(a) ==
    \/ \E t \in Tasks : AccountOf[t] = a /\ row[t] \in {"executing", "deferred"}
    \/ \E r \in Runs : pc[r] \in {"next", "pick", "gate", "act"} /\ AccountOf[job[r]] = a
    \/ waker[a] # "idle"

\* The head of an account's queue is never forgotten: it is carried, or the
\* account has work under way whose end dispatches the queue.  Nothing
\* re-examines a queued row (_defer_or_fail_blocked), so a head without either
\* would hold every task behind it forever.
HeadIsDriven ==
    \A a \in Accounts : \A t \in Head(a) : Carried(t) \/ Driven(a)

\* A task that was claimed leaves EXECUTING again, also when its worker crashed
\* or its job timed out (recover_orphaned_tasks).
SlotIsReleased == \A t \in Tasks : row[t] = "executing" ~> row[t] # "executing"

\* no process died, no job timed out, neither Postgres nor Redis failed
Calm == faults.losses = 0

\* Every accepted task reaches a terminal status, though accounts close and sleep.
\* (A crash is another matter: the sweep enqueues what it reset, not the head.)
EveryTaskSettles ==
    \A t \in Tasks : row[t] = "queued" ~> row[t] \in {"complete", "failed"} \/ ~Calm

\* Runs that hold an account: past the claim, before the result.
Holding(r) == pc[r] \in {"gate", "act"}

\* API.md:40-43: two tasks for the same account can never run concurrently.
OneTaskRunsPerAccount ==
    \A r, s \in Runs :
        Holding(r) /\ Holding(s) /\ SameAccount(job[r], job[s]) => job[r] = job[s]

\* recovery.py:6-7: a genuinely-running task is never reset.  The lease sees to it
\* for one sweep; but the reset goes by id after a separate query, and every worker
\* sweeps when it starts, next to the cron: another sweep may have reset the row in
\* between, and a run have claimed it.
RunningIsNeverReset ==
    [][\A w \in Sweepers : RecoverReset(w) =>
           \A r \in Runs : Holding(r) => job[r] \notin scan[w]]_vars

=============================================================================
