-------------------------- MODULE WebhookDelivery --------------------------
(***************************************************************************)
(* One row of `webhook_deliveries`, the deliver_webhook jobs that carry    *)
(* its id through arq, and the sweep that re-drives a row left behind.     *)
(*                                                                         *)
(* Time is kept in timers that count down with Tick, so a behaviour has no *)
(* horizon: `silent` is the age of the row's due moment (next_attempt_at,  *)
(* or created_at before the first attempt), timer[j] is what is left until *)
(* a queued job may start or a POST must have ended.                       *)
(*                                                                         *)
(* A run of deliver_webhook works on the row it loaded: it writes the      *)
(* attempts it read plus one, and a status only where it differs from the  *)
(* one it read.                                                            *)
(***************************************************************************)
EXTENDS Integers, FiniteSets

CONSTANTS
    Jobs,         \* bound: slots for the jobs that arq holds for this row
    MaxAttempts,  \* MAX_ATTEMPTS
    Backoff,      \* attempt -> delay before the next one, WEBHOOK_BACKOFF
    Window,       \* REDRIVE_AFTER_SECONDS
    SweepEvery,   \* period of the webhook_redrive_tick cron
    SendTime,     \* the longest POST (httpx timeout)
    Latency,      \* the longest a due job waits for a free worker slot
    Redelivery,   \* when arq runs the job of a dead worker again
    Faults,       \* the fault kinds that may happen
    MaxFaults     \* bound: how many faults a behaviour contains

FaultKinds == {"lost", "crash", "sweep"}

ASSUME TimesType ==
    /\ MaxAttempts \in Nat \ {0}
    /\ Backoff \in [1..MaxAttempts -> Nat]
    /\ Window \in Nat \ {0} /\ SweepEvery \in Nat \ {0}
    /\ SendTime \in Nat /\ Latency \in Nat /\ Redelivery \in Nat
    /\ MaxFaults \in Nat /\ Faults \subseteq FaultKinds
    /\ IsFiniteSet(Jobs)

VARIABLES
    status,       \* status of the row
    attempts,     \* attempts of the row
    silent,       \* now - due moment of the row, at most Window
    phase,        \* job -> none, queued, sending, owed (its run has yet to
                  \* enqueue the retry), closing (arq has yet to drop the job)
    timer,        \* job -> time until it may start, or its POST must end
    loaded,       \* job -> [status, attempts] its run read
    sweepIn,      \* time until the next scheduled sweep, negative when late
    posts,        \* history: POSTs made, up to MaxPosts
    faults        \* faults so far, bounded by MaxFaults

vars == <<status, attempts, silent, phase, timer, loaded, sweepIn, posts, faults>>
rowVars == <<status, attempts, silent>>
jobVars == <<phase, timer, loaded>>

Statuses == {"pending", "delivered", "failed"}
Phases == {"none", "queued", "sending", "owed", "closing"}
MaxPosts == MaxAttempts * (1 + MaxFaults) + MaxFaults + 1

TypeOK ==
    /\ status \in Statuses
    /\ attempts \in 0..MaxPosts
    /\ silent \in Int /\ silent <= Window
    /\ phase \in [Jobs -> Phases]
    /\ timer \in [Jobs -> Int]
    /\ loaded \in [Jobs -> [status : Statuses, attempts : 0..MaxPosts]]
    /\ sweepIn \in Int
    /\ posts \in 0..MaxPosts
    /\ faults \in 0..MaxFaults

Is(p) == {j \in Jobs : phase[j] = p}

AtMost(n, bound) == IF n < bound THEN n ELSE bound

FaultOccurs(kind) == kind \in Faults /\ faults < MaxFaults /\ faults' = faults + 1

\* enqueue_webhook has returned: the row is committed; its job is queued, or was
\* lost with an unreachable Redis or a dying process.
Init ==
    /\ status = "pending" /\ attempts = 0 /\ silent = 0
    /\ phase \in {p \in [Jobs -> {"none", "queued"}] :
                     \A j, k \in Jobs : p[j] = "queued" /\ p[k] = "queued" => j = k}
    /\ timer = [j \in Jobs |-> 0]
    /\ loaded = [j \in Jobs |-> [status |-> "pending", attempts |-> 0]]
    /\ sweepIn \in 0..SweepEvery
    /\ posts = 0 /\ faults = 0

-----------------------------------------------------------------------------
(* deliver_webhook                                                          *)

\* A worker slot takes the job; the run loads the row and posts unless the row
\* was delivered.
Start(j) ==
    /\ phase[j] = "queued" /\ timer[j] <= 0
    /\ IF status = "delivered"
         THEN /\ phase' = [phase EXCEPT ![j] = "none"]
              /\ UNCHANGED <<timer, loaded, posts>>
         ELSE /\ phase' = [phase EXCEPT ![j] = "sending"]
              /\ timer' = [timer EXCEPT ![j] = SendTime]
              /\ loaded' = [loaded EXCEPT ![j] = [status |-> status, attempts |-> attempts]]
              /\ posts' = AtMost(posts + 1, MaxPosts)
    /\ UNCHANGED <<rowVars, sweepIn, faults>>

\* the counter goes by the value the run read: an UPDATE with a literal
Tried(j) == AtMost(loaded[j].attempts + 1, MaxPosts)

\* SQLAlchemy writes a column whose value differs from the loaded one
WriteStatus(j, new) == status' = IF loaded[j].status = new THEN status ELSE new

SendOk(j) ==
    /\ phase[j] = "sending"
    /\ attempts' = Tried(j)
    /\ WriteStatus(j, "delivered")
    /\ phase' = [phase EXCEPT ![j] = "closing"]
    /\ UNCHANGED <<silent, timer, loaded, sweepIn, posts, faults>>

SendExhausted(j) ==
    /\ phase[j] = "sending"
    /\ Tried(j) >= MaxAttempts
    /\ attempts' = Tried(j)
    /\ WriteStatus(j, "failed")
    /\ phase' = [phase EXCEPT ![j] = "closing"]
    /\ UNCHANGED <<silent, timer, loaded, sweepIn, posts, faults>>

\* Mutant: the retry is enqueued without moving next_attempt_at.
MutantSendFailsStale(j) ==
    /\ phase[j] = "sending"
    /\ Tried(j) < MaxAttempts
    /\ attempts' = Tried(j)
    /\ WriteStatus(j, "pending")
    /\ phase' = [phase EXCEPT ![j] = "owed"]
    /\ timer' = [timer EXCEPT ![j] = Backoff[Tried(j)]]
    /\ UNCHANGED <<silent, loaded, sweepIn, posts, faults>>

\* Mutant: a failed attempt is not counted.
MutantSendFailsUncounted(j) ==
    /\ phase[j] = "sending"
    /\ Tried(j) < MaxAttempts
    /\ WriteStatus(j, "pending")
    /\ silent' = -Backoff[Tried(j)]
    /\ phase' = [phase EXCEPT ![j] = "owed"]
    /\ timer' = [timer EXCEPT ![j] = Backoff[Tried(j)]]
    /\ UNCHANGED <<attempts, loaded, sweepIn, posts, faults>>

\* The row is committed with its next attempt, then the retry is enqueued with
\* _defer_by the same delay.
SendFails(j) ==
    /\ phase[j] = "sending"
    /\ Tried(j) < MaxAttempts
    /\ attempts' = Tried(j)
    /\ WriteStatus(j, "pending")
    /\ silent' = -Backoff[Tried(j)]
    /\ phase' = [phase EXCEPT ![j] = "owed"]
    /\ timer' = [timer EXCEPT ![j] = Backoff[Tried(j)]]
    /\ UNCHANGED <<loaded, sweepIn, posts, faults>>

\* enqueue_job takes the retry.
EnqueueRetry(j) ==
    /\ phase[j] = "owed"
    /\ \E k \in Is("none") :
        /\ phase' = [phase EXCEPT ![j] = "closing", ![k] = "queued"]
        /\ timer' = [timer EXCEPT ![k] = timer[j]]
    /\ UNCHANGED <<rowVars, loaded, sweepIn, posts, faults>>

\* enqueue_job raises: arq does not retry, no job is left.
EnqueueLost(j) ==
    /\ phase[j] = "owed"
    /\ FaultOccurs("lost")
    /\ phase' = [phase EXCEPT ![j] = "none"]
    /\ UNCHANGED <<rowVars, timer, loaded, sweepIn, posts>>

\* The run raises before its commit (the database, or an error of the POST that
\* is no RequestError): nothing is recorded and arq does not retry.
RunRaises(j) ==
    /\ phase[j] = "sending"
    /\ FaultOccurs("crash")
    /\ phase' = [phase EXCEPT ![j] = "none"]
    /\ UNCHANGED <<rowVars, timer, loaded, sweepIn, posts>>

\* The run has returned and arq drops its job.
Close(j) ==
    /\ phase[j] = "closing"
    /\ phase' = [phase EXCEPT ![j] = "none"]
    /\ UNCHANGED <<rowVars, timer, loaded, sweepIn, posts, faults>>

\* The worker dies before that.  arq runs the job again: at once after an orderly
\* shutdown, else when the in-progress mark has expired.
WorkerCrash(j) ==
    /\ phase[j] \in {"sending", "owed", "closing"}
    /\ FaultOccurs("crash")
    /\ phase' = [phase EXCEPT ![j] = "queued"]
    /\ \E wait \in {0, Redelivery} : timer' = [timer EXCEPT ![j] = wait]
    /\ UNCHANGED <<rowVars, loaded, sweepIn, posts>>

-----------------------------------------------------------------------------
(* redrive_pending_webhooks                                                 *)

Stranded == status = "pending" /\ attempts < MaxAttempts /\ silent >= Window

\* The sweep is an arq job as well, scheduled by cron or at a worker's startup:
\* arq takes jobs in the order in which they became due.
SweepIsNext ==
    \A j \in Is("queued") : timer[j] >= AtMost(sweepIn, 0)

SweepDone == sweepIn' = IF sweepIn <= 0 THEN sweepIn + SweepEvery ELSE sweepIn

SweepFindsNothing ==
    /\ SweepIsNext /\ ~Stranded
    /\ sweepIn <= 0
    /\ SweepDone
    /\ UNCHANGED <<rowVars, jobVars, posts, faults>>

\* Mutant: the sweep enqueues but leaves next_attempt_at alone.
MutantRedriveUnmarked ==
    /\ SweepIsNext /\ Stranded
    /\ \E j \in Is("none") :
        /\ phase' = [phase EXCEPT ![j] = "queued"]
        /\ timer' = [timer EXCEPT ![j] = 0]
    /\ SweepDone
    /\ UNCHANGED <<rowVars, loaded, posts, faults>>

\* Mutant: the sweep forgets the row (it only marks the next attempt).
MutantRedriveForgets ==
    /\ SweepIsNext /\ Stranded
    /\ silent' = -Window
    /\ SweepDone
    /\ UNCHANGED <<status, attempts, jobVars, posts, faults>>

\* A stranded row is enqueued, then its next_attempt_at is pushed a window ahead.
Redrive ==
    /\ SweepIsNext /\ Stranded
    /\ \E j \in Is("none") :
        /\ phase' = [phase EXCEPT ![j] = "queued"]
        /\ timer' = [timer EXCEPT ![j] = 0]
    /\ silent' = -Window
    /\ SweepDone
    /\ UNCHANGED <<status, attempts, loaded, posts, faults>>

\* enqueue_job raises: the row is skipped until the next sweep.
RedriveFails ==
    /\ SweepIsNext /\ Stranded
    /\ FaultOccurs("lost")
    /\ SweepDone
    /\ UNCHANGED <<rowVars, jobVars, posts>>

\* The sweep dies after enqueue_job and before its commit.
RedriveDies ==
    /\ SweepIsNext /\ Stranded
    /\ FaultOccurs("sweep")
    /\ \E j \in Is("none") :
        /\ phase' = [phase EXCEPT ![j] = "queued"]
        /\ timer' = [timer EXCEPT ![j] = 0]
    /\ SweepDone
    /\ UNCHANGED <<rowVars, loaded, posts>>

-----------------------------------------------------------------------------
\* Time passes when nothing that is due now could wait no longer.
Tick ==
    /\ Is("owed") = {} /\ Is("closing") = {}
    /\ \A j \in Is("queued") : timer[j] > -Latency
    /\ \A j \in Is("sending") : timer[j] > 0
    /\ sweepIn > -Latency
    /\ silent' = AtMost(silent + 1, Window)
    /\ timer' = [j \in Jobs |-> IF phase[j] = "none" THEN timer[j] ELSE timer[j] - 1]
    /\ sweepIn' = sweepIn - 1
    /\ UNCHANGED <<status, attempts, phase, loaded, posts, faults>>

Run(j) ==
    \/ Start(j) \/ SendOk(j) \/ SendExhausted(j) \/ SendFails(j)
    \/ EnqueueRetry(j) \/ Close(j)

Sweep == SweepFindsNothing \/ Redrive

Next ==
    \/ Tick \/ Sweep \/ RedriveFails \/ RedriveDies
    \/ \E j \in Jobs : Run(j) \/ EnqueueLost(j) \/ RunRaises(j) \/ WorkerCrash(j)

Spec == Init /\ [][Next]_vars

\* Time passes, arq serves what is due, a POST ends, the cron fires.
Fairness ==
    /\ WF_vars(Tick) /\ WF_vars(Sweep)
    /\ \A j \in Jobs : WF_vars(Run(j))

FairSpec == Spec /\ Fairness

-----------------------------------------------------------------------------
(* Properties                                                               *)

Live(j) == phase[j] \in {"queued", "sending", "owed"}

\* webhook_redrive.py:17-19: the sweep does not race the retry schedule.  A row
\* has at most one live job, so no webhook is posted by two runs at a time.
OneJobPerRow == \A i, j \in Jobs : Live(i) /\ Live(j) => i = j

\* webhook_redrive.py:27-29: the retry policy is bounded.  Enqueues may be lost and
\* the sweep may re-drive; the receiver sees at most MAX_ATTEMPTS posts.
PostsAreBounded == posts <= MaxAttempts

\* webhook_redrive.py:17-19, with deaths: a worker or a sweep that dies half-way, or a
\* lost enqueue, adds at most one job to the row; doubled chains do not breed.
FaultsAddOneJob == Cardinality({j \in Jobs : Live(j)}) <= 1 + faults

\* Chains overwrite each other's attempts (lost updates, deliver_webhook.py:40-64) and
\* still do not multiply: while a POST ends before the shortest retry is due, a fault
\* costs one POST that is made again and the posts of one more chain.
CrashesMultiplyPosts == posts <= MaxAttempts * (1 + faults) + faults

\* A delivered webhook stays delivered and is not posted again.
DeliveredIsFinal ==
    [][status = "delivered" => status' = "delivered" /\ posts' = posts]_vars

\* webhook_queue.py:6-8: an event survives a failed enqueue.  A pending row is
\* delivered or given up after MAX_ATTEMPTS, whatever was lost on the way.
EveryEventLeaves == status = "pending" ~> status # "pending"

=============================================================================
