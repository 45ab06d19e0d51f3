-------------------------- MODULE TaskQueueProofs --------------------------
(***************************************************************************)
(* Proofs about TaskQueue for every number of tasks, accounts, runs and    *)
(* sweepers, every assignment of tasks to accounts, every rank, every      *)
(* bound and every set of enabled faults.                                  *)
(***************************************************************************)
EXTENDS TaskQueue, TLAPS

\* A run has a task exactly while it is not idle; with the type invariant this
\* is what makes the lookups AccountOf[job[r]] meaningful.
RunHasTask == \A r \in Runs : pc[r] # "idle" => job[r] \in Tasks

\* Two runs never hold the advisory lock of one account together.
OneClaimant ==
    \A r, s \in Runs :
        pc[r] = "claiming" /\ pc[s] = "claiming" /\ AccountOf[job[r]] = AccountOf[job[s]]
            => r = s

\* The inductive invariant.  OneExecutingRow alone is not inductive: a claim
\* commits what it decided in an earlier step, so that decision must be known to
\* stay valid until the commit (ClaimCheckStable), which needs OneClaimant.
Inv == TypeOK /\ RunHasTask /\ OneClaimant /\ ClaimCheckStable /\ OneExecutingRow

-----------------------------------------------------------------------------
LEMMA InitInv == Init => Inv
  BY BoundsType, SMT
  DEF Init, Inv, TypeOK, RunHasTask, OneClaimant, ClaimCheckStable, OneExecutingRow,
      TaskStatus, RunPC

\* The merged job counter stays within its bound.
LEMMA EnqueuedType ==
  ASSUME TypeOK, NEW t \in Tasks
  PROVE  Enqueued(jobs, t) \in [Tasks -> 0..MaxJobs]
  BY BoundsType DEF Enqueued, TypeOK

\* A fault is counted, and there is one less to come.
LEMMA FaultsType ==
  ASSUME TypeOK, NEW kind, FaultOccurs(kind)
  PROVE  faults' \in [upsets : Nat, losses : Nat] /\ faults'.upsets + faults'.losses <= MaxFaults
  <1>1. PICK u \in Nat, l \in Nat : faults = [upsets |-> u, losses |-> l]
    BY DEF TypeOK
  <1>2. \/ faults' = [upsets |-> u + 1, losses |-> l]
        \/ faults' = [upsets |-> u, losses |-> l + 1]
    BY <1>1 DEF FaultOccurs
  <1>3. u + l + 1 <= MaxFaults
    BY <1>1, BoundsType DEF FaultOccurs
  <1>4. QED
    BY <1>2, <1>3

\* Every step keeps every variable in its type.
LEMMA NextTypeOK == TypeOK /\ RunHasTask /\ [Next]_vars => TypeOK'
  <1> SUFFICES ASSUME TypeOK, RunHasTask, [Next]_vars PROVE TypeOK'
    OBVIOUS
  <1> USE AccountOfType, BoundsType
  <1>1. ASSUME NEW t \in Tasks, CreateAction(t) \/ EnqueueOwed(t) \/ EnqueueFails(t)
        PROVE TypeOK'
    <2>1. CASE CreateAction(t)
      BY <2>1 DEF CreateAction, TypeOK, TaskStatus
    <2>2. CASE EnqueueOwed(t)
      BY <2>2, EnqueuedType DEF EnqueueOwed, TypeOK
    <2>3. CASE EnqueueFails(t)
      BY <2>3, FaultsType DEF EnqueueFails, TypeOK
    <2>4. QED
      BY <1>1, <2>1, <2>2, <2>3
  <1>2. ASSUME NEW r \in Runs, Advance(r) PROVE TypeOK'
    <2>1. pc[r] # "idle" => job[r] \in Tasks /\ AccountOf[job[r]] \in Accounts
      BY DEF RunHasTask
    <2>2. CASE Prepare(r) \/ Defer(r) \/ Park(r)
      BY <2>1, <2>2
      DEF Prepare, Defer, Park, GoTo, Return, TypeOK, RunPC, TaskStatus
    <2>3. CASE ClaimCheck(r) \/ ClaimCommit(r) \/ GatePass(r) \/ GateDefer(r)
      BY <2>1, <2>3
      DEF ClaimCheck, ClaimCommit, GatePass, GateDefer, GoTo, Return, TypeOK, RunPC, TaskStatus
    <2>4. CASE ActEnds(r) \/ ActRotate(r)
      BY <2>1, <2>4 DEF ActEnds, ActRotate, GoTo, TypeOK, RunPC, TaskStatus
    <2>8. CASE ActPeerInvalid(r)
      BY <2>1, <2>8, EnqueuedType DEF ActPeerInvalid, GoTo, TypeOK, RunPC, TaskStatus
    <2>9. CASE ActBanned(r)
      BY <2>1, <2>9 DEF ActBanned, GoTo, TypeOK, RunPC, TaskStatus
    <2>10. CASE ActFlood(r)
      <3>1. job[r] \in Tasks /\ AccountOf[job[r]] \in Accounts
        BY <2>1, <2>10 DEF ActFlood
      <3>2. asleep' \in [Accounts -> BOOLEAN]
        <4>1. asleep[AccountOf[job[r]]] \in BOOLEAN
          BY <3>1 DEF TypeOK
        <4>2. PICK status \in {FALSE, asleep[AccountOf[job[r]]]} :
                 asleep' = [asleep EXCEPT ![AccountOf[job[r]]] = status]
          BY <2>10 DEF ActFlood
        <4>3. status \in BOOLEAN
          BY <4>1, <4>2
        <4>4. QED
          BY <3>1, <4>2, <4>3 DEF TypeOK
      <3>3. QED
        BY <2>10, <3>1, <3>2 DEF ActFlood, GoTo, TypeOK, RunPC, TaskStatus
    <2>5. CASE NextCheck(r)
      BY <2>1, <2>5 DEF NextCheck, GoTo, Return, TypeOK, RunPC
    <2>6. CASE NextPick(r)
      <3>1. \A t \in Head(AccountOf[job[r]]) : t \in Tasks
        BY DEF Head, Queued
      <3>2. jobs' \in [Tasks -> 0..MaxJobs]
        BY <2>6, <3>1, EnqueuedType DEF NextPick, TypeOK
      <3>3. QED
        BY <2>6, <3>2 DEF NextPick, Return, TypeOK, RunPC
    <2>7. QED
      BY <1>2, <2>2, <2>3, <2>4, <2>5, <2>6, <2>8, <2>9, <2>10 DEF Advance
  <1>3. ASSUME NEW r \in Runs, RunFault(r) PROVE TypeOK'
    <2>1. pc[r] # "idle" => job[r] \in Tasks /\ AccountOf[job[r]] \in Accounts
      BY DEF RunHasTask
    <2>2. CASE RunRaises(r) \/ JobTimeout(r)
      BY <2>1, <2>2, FaultsType DEF RunRaises, JobTimeout, GoTo, Return, TypeOK, RunPC
    <2>5. CASE PrepareSleeps(r)
      <3>1. asleep' \in [Accounts -> BOOLEAN]
        BY <2>1, <2>5 DEF PrepareSleeps, TypeOK
      <3>2. QED
        BY <2>5, <3>1, FaultsType DEF PrepareSleeps, GoTo, TypeOK, RunPC
    <2>3. CASE WorkerCrash(r)
      BY <2>1, <2>3, EnqueuedType, FaultsType DEF WorkerCrash, Return, TypeOK, RunPC
    <2>4. QED
      BY <1>3, <2>2, <2>3, <2>5 DEF RunFault
  <1>4. ASSUME NEW r \in Runs, NEW t \in Tasks, StartJob(r, t) PROVE TypeOK'
    BY <1>4 DEF StartJob, GoTo, runVars, TypeOK, RunPC
  <1>5. ASSUME NEW due \in SUBSET Tasks, ReenqueueDueDeferred(due) PROVE TypeOK'
    BY <1>5 DEF ReenqueueDueDeferred, TypeOK, TaskStatus
  <1>6. ASSUME NEW w \in Sweepers, RecoverSelect(w) \/ RecoverReset(w) PROVE TypeOK'
    BY <1>6 DEF RecoverSelect, RecoverReset, TypeOK, TaskStatus
  <1>7. ASSUME NEW a \in Accounts,
               \/ AccountOpens(a) \/ AccountCloses(a) \/ AccountSleeps(a)
               \/ Wake(a) \/ WakeCheck(a) \/ WakeFails(a)
        PROVE TypeOK'
    <2>1. CASE AccountOpens(a)
      BY <2>1 DEF AccountOpens, TypeOK
    <2>2. CASE AccountCloses(a)
      BY <2>2, FaultsType DEF AccountCloses, TypeOK
    <2>3. CASE AccountSleeps(a)
      BY <2>3, FaultsType DEF AccountSleeps, TypeOK
    <2>4. CASE Wake(a)
      BY <2>4 DEF Wake, TypeOK
    <2>5. CASE WakeCheck(a) \/ WakeFails(a)
      BY <2>5, FaultsType DEF WakeCheck, WakeFails, TypeOK
    <2>6. QED
      BY <1>7, <2>1, <2>2, <2>3, <2>4, <2>5
  <1>8. ASSUME NEW a \in Accounts, WakePick(a) PROVE TypeOK'
    <2>1. \A t \in Head(a) : t \in Tasks
      BY DEF Head, Queued
    <2>2. jobs' \in [Tasks -> 0..MaxJobs]
      BY <1>8, <2>1, EnqueuedType DEF WakePick, TypeOK
    <2>3. QED
      BY <1>8, <2>2 DEF WakePick, TypeOK
  <1>9. CASE UNCHANGED vars
    BY <1>9 DEF vars, TypeOK
  <1>10. QED
    BY <1>1, <1>2, <1>3, <1>4, <1>5, <1>6, <1>7, <1>8, <1>9 DEF Next

\* Which runs hold the lock and what they were told there changes in ClaimCheck
\* alone; leaving "claiming" or "idle" never hurts.
LEMMA NextRunHasTask == TypeOK /\ RunHasTask /\ [Next]_vars => RunHasTask'
  <1> SUFFICES ASSUME TypeOK, RunHasTask, [Next]_vars, NEW s \in Runs, pc'[s] # "idle"
               PROVE job'[s] \in Tasks
    BY DEF RunHasTask
  <1>1. CASE UNCHANGED runVars
    BY <1>1 DEF RunHasTask, runVars
  <1>2. ASSUME NEW r \in Runs, NEW t \in Tasks, StartJob(r, t) PROVE job'[s] \in Tasks
    BY <1>2 DEF StartJob, GoTo, runVars, TypeOK, RunHasTask
  <1>3. ASSUME NEW r \in Runs, Advance(r) \/ RunFault(r) PROVE job'[s] \in Tasks
    <2>1. pc[r] # "idle"
      BY <1>3
      DEF Advance, RunFault, Prepare, Defer, Park, ClaimCheck, ClaimCommit, GatePass,
          GateDefer, ActEnds, ActPeerInvalid, ActBanned, ActFlood, ActRotate, NextCheck,
          NextPick, PrepareSleeps, RunRaises, JobTimeout, WorkerCrash
    <2>2. \/ Return(r)
          \/ UNCHANGED job /\ \A q \in Runs \ {r} : pc'[q] = pc[q]
      BY <1>3
      DEF Advance, RunFault, Prepare, Defer, Park, ClaimCheck, ClaimCommit, GatePass,
          GateDefer, ActEnds, ActPeerInvalid, ActBanned, ActFlood, ActRotate, NextCheck,
          NextPick, PrepareSleeps, RunRaises, JobTimeout, WorkerCrash, GoTo, TypeOK
    <2>3. QED
      BY <2>1, <2>2 DEF Return, TypeOK, RunHasTask
  <1>4. QED
    BY <1>1, <1>2, <1>3
    DEF Next, vars, runVars, CreateAction, EnqueueOwed, EnqueueFails, ReenqueueDueDeferred,
        RecoverSelect, RecoverReset, AccountOpens, AccountCloses, AccountSleeps, Wake,
        WakeCheck, WakePick, WakeFails

\* The steps that matter to mutual exclusion: one run passes the check under the
\* lock, one run commits its claim, or no run enters "claiming", none that stays
\* there changes its task, and no row becomes EXECUTING.
Quiet ==
    /\ \A r \in Runs : pc'[r] = "claiming" => pc[r] = "claiming" /\ job'[r] = job[r]
    /\ \A t \in Tasks : row'[t] = "executing" => row[t] = "executing"

LEMMA StepKinds ==
  ASSUME TypeOK, RunHasTask, [Next]_vars
  PROVE  Quiet \/ \E r \in Runs : ClaimCheck(r) \/ ClaimCommit(r)
  <1> USE DEF Quiet
  <1>1. ASSUME NEW t \in Tasks, CreateAction(t) \/ EnqueueOwed(t) \/ EnqueueFails(t)
        PROVE Quiet
    BY <1>1 DEF CreateAction, EnqueueOwed, EnqueueFails, TypeOK
  <1>2. ASSUME NEW r \in Runs, Advance(r), ~ClaimCheck(r), ~ClaimCommit(r) PROVE Quiet
    <2>1. CASE Prepare(r)
      BY <2>1 DEF Prepare, GoTo, TypeOK
    <2>2. CASE Defer(r) \/ Park(r)
      BY <2>2 DEF Defer, Park, GoTo, Return, TypeOK
    <2>3. CASE GatePass(r) \/ GateDefer(r)
      BY <2>3 DEF GatePass, GateDefer, GoTo, TypeOK
    <2>4. CASE ActEnds(r) \/ ActPeerInvalid(r) \/ ActBanned(r) \/ ActFlood(r) \/ ActRotate(r)
      BY <2>4 DEF ActEnds, ActPeerInvalid, ActBanned, ActFlood, ActRotate, GoTo, TypeOK
    <2>5. CASE NextCheck(r) \/ NextPick(r)
      BY <2>5 DEF NextCheck, NextPick, GoTo, Return, TypeOK
    <2>6. QED
      BY <1>2, <2>1, <2>2, <2>3, <2>4, <2>5 DEF Advance
  <1>3. ASSUME NEW r \in Runs, RunFault(r) PROVE Quiet
    BY <1>3
    DEF RunFault, PrepareSleeps, RunRaises, JobTimeout, WorkerCrash, GoTo, Return, TypeOK
  <1>4. ASSUME NEW r \in Runs, NEW t \in Tasks, StartJob(r, t) PROVE Quiet
    BY <1>4 DEF StartJob, GoTo, runVars, TypeOK
  <1>5. ASSUME NEW due \in SUBSET Tasks, ReenqueueDueDeferred(due) PROVE Quiet
    BY <1>5 DEF ReenqueueDueDeferred
  <1>6. ASSUME NEW w \in Sweepers, RecoverSelect(w) \/ RecoverReset(w) PROVE Quiet
    BY <1>6 DEF RecoverSelect, RecoverReset
  <1>7. ASSUME NEW a \in Accounts,
               \/ AccountOpens(a) \/ AccountCloses(a) \/ AccountSleeps(a)
               \/ Wake(a) \/ WakeCheck(a) \/ WakePick(a) \/ WakeFails(a)
        PROVE Quiet
    BY <1>7
    DEF AccountOpens, AccountCloses, AccountSleeps, Wake, WakeCheck, WakePick, WakeFails
  <1>8. CASE UNCHANGED vars
    BY <1>8 DEF vars
  <1>9. QED
    BY <1>1, <1>2, <1>3, <1>4, <1>5, <1>6, <1>7, <1>8 DEF Next

\* The claim protocol keeps its part of the invariant.
LEMMA NextExclusion == Inv /\ [Next]_vars => (OneClaimant /\ ClaimCheckStable /\ OneExecutingRow)'
  <1> SUFFICES ASSUME Inv, [Next]_vars
               PROVE (OneClaimant /\ ClaimCheckStable /\ OneExecutingRow)'
    OBVIOUS
  <1> USE DEF SameAccount
  <1>1. CASE Quiet
    BY <1>1 DEF Quiet, Inv, OneClaimant, ClaimCheckStable, OneExecutingRow, RunHasTask
  <1>2. ASSUME NEW r \in Runs, ClaimCheck(r)
        PROVE (OneClaimant /\ ClaimCheckStable /\ OneExecutingRow)'
    <2>1. OneExecutingRow'
      BY <1>2 DEF ClaimCheck, Inv, OneExecutingRow
    <2>2. \A s \in Runs : pc'[s] = "claiming" /\ s # r => pc[s] = "claiming" /\ job'[s] = job[s]
      BY <1>2 DEF ClaimCheck, GoTo, Return, Inv, TypeOK
    <2>3. pc'[r] = "claiming" =>
            /\ job'[r] = job[r]
            /\ ~OtherExecuting(job[r])
            /\ LockFree(AccountOf[job[r]])
      BY <1>2 DEF ClaimCheck, GoTo, Return, Inv, TypeOK
    <2>4. OneClaimant'
      BY <2>2, <2>3 DEF LockFree, Inv, OneClaimant
    <2>5. ClaimCheckStable'
      <3>1. row' = row
        BY <1>2 DEF ClaimCheck
      <3>2. QED
        BY <2>2, <2>3, <3>1 DEF OtherExecuting, Executing, Inv, ClaimCheckStable
    <2>6. QED
      BY <2>1, <2>4, <2>5
  <1>3. ASSUME NEW r \in Runs, ClaimCommit(r)
        PROVE (OneClaimant /\ ClaimCheckStable /\ OneExecutingRow)'
    <2>1. /\ pc[r] = "claiming" /\ job[r] \in Tasks /\ job' = job
          /\ \A s \in Runs : pc'[s] = "claiming" => pc[s] = "claiming" /\ s # r
      BY <1>3 DEF ClaimCommit, GoTo, Inv, TypeOK, RunHasTask
    <2>2. \A u \in Tasks : row'[u] = "executing" => row[u] = "executing" \/ u = job[r]
      BY <1>3 DEF ClaimCommit, Inv, TypeOK
    <2>3. OneClaimant'
      BY <2>1 DEF Inv, OneClaimant
    <2>4. OneExecutingRow'
      BY <2>1, <2>2 DEF Inv, ClaimCheckStable, OneExecutingRow
    <2>5. ClaimCheckStable'
      BY <2>1, <2>2 DEF Inv, ClaimCheckStable, OneClaimant
    <2>6. QED
      BY <2>3, <2>4, <2>5
  <1>4. QED
    BY <1>1, <1>2, <1>3, StepKinds DEF Inv

LEMMA NextInv == Inv /\ [Next]_vars => Inv'
  BY NextTypeOK, NextRunHasTask, NextExclusion DEF Inv

\* Inv holds throughout every behaviour of the queue.
THEOREM InvAlways == Spec => []Inv
  BY InitInv, NextInv, PTL DEF Spec

\* Type correctness: in every behaviour every variable keeps its type.
THEOREM TypeCorrect == Spec => []TypeOK
  <1>1. Inv => TypeOK
    BY DEF Inv
  <1>2. QED
    BY InvAlways, <1>1, PTL

\* FR-021 for every instance: whatever crashes, times out or is enqueued twice,
\* an account never has two EXECUTING rows.
THEOREM MutualExclusion == Spec => []OneExecutingRow
  <1>1. Inv => OneExecutingRow
    BY DEF Inv
  <1>2. QED
    BY InvAlways, <1>1, PTL

\* A claim commits what is still true: nothing else of the account has started
\* between the check under the advisory lock and the commit.
THEOREM ClaimIsAtomic == Spec => []ClaimCheckStable
  <1>1. Inv => ClaimCheckStable
    BY DEF Inv
  <1>2. QED
    BY InvAlways, <1>1, PTL

-----------------------------------------------------------------------------
(* Refinement: the queue implements the one-slot-per-account specification. *)

\* Executing(a) is what the refinement mapping makes of the rows.
Held == [a \in Accounts |-> Executing(a)]

LEMMA HeldInit == Init => Slot!SlotInit
  BY DEF Init, Slot!SlotInit, Executing

\* A step in which no row becomes EXECUTING gives slots back or changes none.
LEMMA QuietReleases ==
  ASSUME Inv, \A t \in Tasks : row'[t] = "executing" => row[t] = "executing"
  PROVE  Slot!SlotNext \/ UNCHANGED Held
  <1> DEFINE freed == {a \in Accounts : Executing(a) # {} /\ Executing(a)' = {}}
  <1>1. \A a \in Accounts : Executing(a)' \subseteq Executing(a)
    BY DEF Executing
  <1>2. \A a \in Accounts : \A t, u \in Executing(a) : t = u
    BY DEF Executing, Inv, OneExecutingRow, SameAccount
  <1>3. \A a \in Accounts : Executing(a)' = IF a \in freed THEN {} ELSE Executing(a)
    BY <1>1, <1>2
  <1>4. Held' = [a \in Accounts |-> IF a \in freed THEN {} ELSE Held[a]]
    BY <1>3 DEF Held
  <1>5. Slot!Release(freed)
    BY <1>4 DEF Slot!Release, Held
  <1>6. QED
    BY <1>5 DEF Slot!SlotNext

LEMMA NextImplements == Inv /\ [Next]_vars => [Slot!SlotNext]_Held
  <1> SUFFICES ASSUME Inv, [Next]_vars PROVE Slot!SlotNext \/ UNCHANGED Held
    OBVIOUS
  <1>1. CASE Quiet
    BY <1>1, QuietReleases DEF Quiet
  <1>2. ASSUME NEW r \in Runs, ClaimCheck(r) PROVE UNCHANGED Held
    BY <1>2 DEF ClaimCheck, Held, Executing
  <1>3. ASSUME NEW r \in Runs, ClaimCommit(r) PROVE Slot!SlotNext \/ UNCHANGED Held
    <2> DEFINE t == job[r]
    <2>1. /\ pc[r] = "claiming" /\ t \in Tasks /\ AccountOf[t] \in Accounts
          /\ row' = [row EXCEPT ![t] = "executing"]
      BY <1>3, AccountOfType DEF ClaimCommit, Inv, RunHasTask
    <2>2. \A a \in Accounts :
            Executing(a)' = IF a = AccountOf[t] THEN Executing(a) \cup {t} ELSE Executing(a)
      BY <2>1 DEF Executing, Inv, TypeOK
    <2>3. Executing(AccountOf[t]) \subseteq {t}
      BY <2>1 DEF Executing, Inv, ClaimCheckStable, SameAccount
    <2>4. CASE t \in Executing(AccountOf[t])
      BY <2>2, <2>4 DEF Held
    <2>5. CASE t \notin Executing(AccountOf[t])
      <3>1. Executing(AccountOf[t]) = {}
        BY <2>3, <2>5
      <3>2. Held' = [Held EXCEPT ![AccountOf[t]] = {t}]
        BY <2>1, <2>2, <3>1 DEF Held
      <3>3. Slot!Acquire(t)
        BY <2>1, <3>1, <3>2 DEF Slot!Acquire, Held
      <3>4. QED
        BY <2>1, <3>3 DEF Slot!SlotNext
    <2>6. QED
      BY <2>4, <2>5
  <1>4. QED
    BY <1>1, <1>2, <1>3, StepKinds DEF Inv

\* The queue implements AccountSlot: claims acquire a free slot, results and the
\* recovery sweep release it, every other step leaves the slots alone.
THEOREM Refinement == Spec => ImplementsSlot
  <1>1. Init => Slot!SlotInit
    BY HeldInit
  <1>2. Inv /\ [Next]_vars => [Slot!SlotNext]_Held
    BY NextImplements
  <1>3. QED
    BY <1>1, <1>2, InvAlways, PTL DEF Spec, ImplementsSlot, Slot!SlotSpec, Held

-----------------------------------------------------------------------------
(* The head of a queue is never forgotten                                   *)

\* What the dispatch relies on: no process dies, is cancelled or loses its
\* connection, and (priority, created_at, id) orders the tasks of an account.
Undisturbed ==
    /\ Faults \subseteq {"upset"}
    /\ \A t, u \in Tasks : SameAccount(t, u) /\ Rank[t] = Rank[u] => t = u

\* An executing row has a run that will write its result.
RowHasRun ==
    \A t \in Tasks : row[t] = "executing" =>
        \E r \in Runs : job[r] = t /\ pc[r] \in {"gate", "act"}

\* Something of account a is on its way to enqueue_next.
InMotion(a) ==
    \/ \E r \in Runs : pc[r] \in {"next", "pick", "gate", "act"} /\ AccountOf[job[r]] = a
    \/ waker[a] # "idle"

\* A task before t in the order is deferred: it comes back as the head.
DeferredAhead(t) ==
    \E u \in Tasks : row[u] = "deferred" /\ SameAccount(u, t) /\ Ahead(u, t)

Watched(t) == Carried(t) \/ InMotion(AccountOf[t]) \/ DeferredAhead(t)

\* Stronger than HeadIsDriven, which is content with any deferred row: one behind
\* the head would come back without making it run, so it must be one before it.
HeadIsWatched == \A t \in Tasks : t \in Head(AccountOf[t]) => Watched(t)

NothingSelected == \A w \in Sweepers : scan[w] = {}

QueueInv ==
    TypeOK /\ RunHasTask /\ Undisturbed /\ RowHasRun /\ HeadIsWatched /\ NothingSelected

\* A queued task that was not the head becomes it when the one before it leaves.
LEMMA NewHead ==
  ASSUME NEW t \in Tasks, row[t] = "queued", t \notin Head(AccountOf[t])
  PROVE  \E u \in Tasks : row[u] = "queued" /\ SameAccount(u, t) /\ Ahead(u, t)
  BY DEF Head, Queued, SameAccount

\* A head stays the head of a queue that only grew elsewhere.
LEMMA OldHead ==
  ASSUME TypeOK, NEW t \in Tasks, t \in Head(AccountOf[t])', row[t] = "queued",
         \A u \in Tasks : row[u] = "queued" => row'[u] = "queued"
  PROVE  t \in Head(AccountOf[t])
  BY DEF Head, Queued

\* Two heads of one queue would have equal ranks.
LEMMA OneHead ==
  ASSUME Undisturbed, NEW t \in Tasks, NEW u \in Tasks,
         t \in Head(AccountOf[t]), u \in Head(AccountOf[t])
  PROVE  t = u
  <1>1. (AccountOf[u] = AccountOf[t] /\ ~Ahead(u, t)) \/ t = u
    BY DEF Head, Queued
  <1>2. ~Ahead(t, u) \/ t = u
    BY DEF Head, Queued
  <1>3. Rank[t] \in Nat /\ Rank[u] \in Nat
    BY RankType
  <1>4. Rank[t] = Rank[u] \/ t = u
    BY <1>1, <1>2, <1>3 DEF Ahead
  <1>5. QED
    BY <1>1, <1>4 DEF Undisturbed, SameAccount, Head, Queued

\* enqueue_job leaves a job for the task and takes none from another.
LEMMA EnqueueCarries ==
  ASSUME TypeOK, NEW t \in Tasks
  PROVE  /\ Enqueued(jobs, t)[t] > 0
         /\ \A u \in Tasks : jobs[u] > 0 => Enqueued(jobs, t)[u] > 0
  BY BoundsType DEF Enqueued, TypeOK

\* Only a run that was claimed can leave its row executing, and every way out of
\* "gate" and "act" but a fault writes the row.
LEMMA NextRowHasRun == QueueInv /\ [Next]_vars => RowHasRun'
  <1> SUFFICES ASSUME QueueInv, [Next]_vars PROVE RowHasRun'
    OBVIOUS
  <1> USE DEF QueueInv
  <1>1. ASSUME NEW r \in Runs,
               \A q \in Runs \ {r} : pc'[q] = pc[q] /\ job'[q] = job[q],
               pc[r] \notin {"gate", "act"},
               \A t \in Tasks : row'[t] = "executing" => row[t] = "executing"
        PROVE  RowHasRun'
    BY <1>1 DEF RowHasRun
  <1>2. ASSUME UNCHANGED <<pc, job>>,
               \A t \in Tasks : row'[t] = "executing" => row[t] = "executing"
        PROVE  RowHasRun'
    BY <1>2 DEF RowHasRun
  <1>3. ASSUME NEW r \in Runs, Advance(r) PROVE RowHasRun'
    <2>1. CASE Prepare(r) \/ ClaimCheck(r) \/ NextCheck(r) \/ NextPick(r)
      BY <1>1, <2>1 DEF Prepare, ClaimCheck, NextCheck, NextPick, GoTo, Return, TypeOK
    <2>2. CASE Defer(r) \/ Park(r)
      BY <1>1, <2>2 DEF Defer, Park, GoTo, Return, TypeOK
    <2>3. CASE ClaimCommit(r)
      <3>1. /\ job' = job /\ pc[r] = "claiming" /\ pc'[r] = "gate"
            /\ \A q \in Runs : pc[q] \in {"gate", "act"} => pc'[q] = pc[q]
            /\ \A t \in Tasks : row'[t] = "executing" => row[t] = "executing" \/ t = job[r]
        BY <2>3 DEF ClaimCommit, GoTo, TypeOK
      <3>2. QED
        BY <3>1 DEF RowHasRun
    <2>4. CASE GatePass(r)
      <3>1. /\ job' = job /\ row' = row
            /\ \A q \in Runs : pc[q] \in {"gate", "act"} => pc'[q] \in {"gate", "act"}
        BY <2>4 DEF GatePass, GoTo, TypeOK
      <3>2. QED
        BY <3>1 DEF RowHasRun
    <2>5. CASE \/ GateDefer(r) \/ ActEnds(r) \/ ActPeerInvalid(r)
               \/ ActBanned(r) \/ ActFlood(r) \/ ActRotate(r)
      <3>1. /\ job' = job /\ job[r] \in Tasks
            /\ \A q \in Runs \ {r} : pc'[q] = pc[q]
        BY <2>5 DEF GateDefer, ActEnds, ActPeerInvalid, ActBanned, ActFlood, ActRotate,
           GoTo, TypeOK, RunHasTask
      <3>2. \A t \in Tasks : row'[t] = "executing" => row[t] = "executing" /\ t # job[r]
        BY <2>5, <3>1 DEF GateDefer, ActEnds, ActPeerInvalid, ActBanned, ActFlood, ActRotate,
           TypeOK
      <3>3. QED
        BY <3>1, <3>2 DEF RowHasRun
    <2>6. QED
      BY <1>3, <2>1, <2>2, <2>3, <2>4, <2>5 DEF Advance
  <1>4. ASSUME NEW r \in Runs, RunFault(r) PROVE RowHasRun'
    <2>1. PrepareSleeps(r)
      BY <1>4 DEF RunFault, RunRaises, JobTimeout, WorkerCrash, FaultOccurs, Undisturbed
    <2>2. QED
      BY <1>1, <2>1 DEF PrepareSleeps, GoTo, TypeOK
  <1>5. ASSUME NEW r \in Runs, NEW t \in Tasks, StartJob(r, t) PROVE RowHasRun'
    BY <1>1, <1>5 DEF StartJob, GoTo, runVars, TypeOK
  <1>6. CASE UNCHANGED vars
    BY <1>2, <1>6 DEF vars
  <1>7. ASSUME NEW t \in Tasks, CreateAction(t) \/ EnqueueOwed(t) \/ EnqueueFails(t)
        PROVE RowHasRun'
    BY <1>2, <1>7 DEF CreateAction, EnqueueOwed, EnqueueFails, TypeOK
  <1>8. ASSUME NEW due \in SUBSET Tasks, ReenqueueDueDeferred(due) PROVE RowHasRun'
    BY <1>2, <1>8 DEF ReenqueueDueDeferred
  <1>9. ASSUME NEW w \in Sweepers, RecoverSelect(w) \/ RecoverReset(w) PROVE RowHasRun'
    BY <1>2, <1>9 DEF RecoverSelect, RecoverReset
  <1>10. ASSUME NEW a \in Accounts,
                \/ AccountOpens(a) \/ AccountCloses(a) \/ AccountSleeps(a)
                \/ Wake(a) \/ WakeCheck(a) \/ WakePick(a) \/ WakeFails(a)
         PROVE RowHasRun'
    BY <1>2, <1>10
    DEF AccountOpens, AccountCloses, AccountSleeps, Wake, WakeCheck, WakePick, WakeFails
  <1>11. QED
    BY <1>3, <1>4, <1>5, <1>6, <1>7, <1>8, <1>9, <1>10 DEF Next

\* Without a death no lease expires, so no sweep finds anything to reset.
LEMMA NextNothingSelected == QueueInv /\ [Next]_vars => NothingSelected'
  <1> SUFFICES ASSUME QueueInv, [Next]_vars PROVE NothingSelected'
    OBVIOUS
  <1>1. CASE UNCHANGED scan
    BY <1>1 DEF QueueInv, NothingSelected
  <1>2. ASSUME NEW w \in Sweepers, RecoverSelect(w) PROVE FALSE
    <2>1. {t \in Tasks : row[t] = "executing" /\ LeaseExpired(t)} = {}
      BY DEF QueueInv, RowHasRun, LeaseExpired, Undecided
    <2>2. QED
      BY <1>2, <2>1 DEF RecoverSelect, QueueInv, TypeOK
  <1>3. ASSUME NEW w \in Sweepers, RecoverReset(w) PROVE FALSE
    BY <1>3 DEF RecoverReset, QueueInv, NothingSelected
  <1>4. QED
    BY <1>1, <1>2, <1>3
    DEF Next, vars, CreateAction, EnqueueOwed, EnqueueFails, StartJob, ReenqueueDueDeferred,
        Advance, RunFault, Prepare, Defer, Park, ClaimCheck, ClaimCommit, GatePass,
        GateDefer, ActEnds, ActPeerInvalid, ActBanned, ActFlood, ActRotate, NextCheck,
        NextPick, PrepareSleeps, RunRaises, JobTimeout, WorkerCrash,
        AccountOpens, AccountCloses, AccountSleeps, Wake, WakeCheck, WakePick, WakeFails

\* A task stays watched while its carriers, the work of its account and the
\* deferred rows stay.
LEMMA StaysWatched ==
  ASSUME NEW t \in Tasks, Watched(t),
         Carried(t) => Carried(t)',
         InMotion(AccountOf[t]) => InMotion(AccountOf[t])',
         \A u \in Tasks : row[u] = "deferred" => row'[u] = "deferred"
  PROVE  Watched(t)'
  BY DEF Watched, DeferredAhead

\* A run that is on its way to enqueue_next watches its own account; the queues
\* of other accounts do not see its write.
LEMMA LeadingRun ==
  ASSUME QueueInv, NEW r \in Runs, job' = job, job[r] \in Tasks,
         pc'[r] \in {"next", "pick", "gate", "act"},
         \A q \in Runs \ {r} : pc'[q] = pc[q],
         \A u \in Tasks \ {job[r]} : row'[u] = row[u],
         owed' = owed, waker' = waker,
         \A u \in Tasks : jobs[u] > 0 => jobs'[u] > 0
  PROVE  HeadIsWatched'
  <1> SUFFICES ASSUME NEW t \in Tasks, t \in Head(AccountOf[t])' PROVE Watched(t)'
    BY DEF HeadIsWatched
  <1>1. CASE AccountOf[t] = AccountOf[job[r]]
    BY <1>1 DEF Watched, InMotion
  <1>2. CASE AccountOf[t] # AccountOf[job[r]]
    <2>1. \A u \in Tasks : AccountOf[u] = AccountOf[t] => row'[u] = row[u]
      BY <1>2
    <2>2. t \in Head(AccountOf[t])
      BY <2>1 DEF Head, Queued
    <2>3. Watched(t)
      BY <2>2 DEF QueueInv, HeadIsWatched
    <2>4. Carried(t) => Carried(t)'
      BY <1>2 DEF Carried
    <2>5. InMotion(AccountOf[t]) => InMotion(AccountOf[t])'
      BY <1>2 DEF InMotion
    <2>6. DeferredAhead(t) => DeferredAhead(t)'
      BY <2>1 DEF DeferredAhead, SameAccount
    <2>7. QED
      BY <2>3, <2>4, <2>5, <2>6 DEF Watched
  <1>3. QED
    BY <1>1, <1>2

\* The rows and the work of every account but b stay; b's head, if it has one,
\* gets a job: enqueue_next, by a run or by _wake_queue.
LEMMA HeadEnqueued ==
  ASSUME QueueInv, NEW b, row' = row, owed' = owed,
         IF Head(b) = {} THEN jobs' = jobs ELSE \E h \in Head(b) : jobs' = Enqueued(jobs, h),
         \A t \in Tasks : Carried(t) /\ jobs[t] = 0 /\ t \notin owed => Carried(t)',
         \A a \in Accounts \ {b} : InMotion(a) => InMotion(a)'
  PROVE  HeadIsWatched'
  <1> SUFFICES ASSUME NEW t \in Tasks, t \in Head(AccountOf[t])' PROVE Watched(t)'
    BY DEF HeadIsWatched
  <1>1. t \in Head(AccountOf[t])
    BY DEF Head, Queued
  <1>2. \A u \in Tasks : jobs[u] > 0 => jobs'[u] > 0
    <2>1. CASE Head(b) = {}
      BY <2>1
    <2>2. CASE Head(b) # {}
      <3>1. PICK h \in Head(b) : jobs' = Enqueued(jobs, h)
        BY <2>2
      <3>2. h \in Tasks
        BY DEF Head, Queued
      <3>3. QED
        BY <3>1, <3>2, EnqueueCarries DEF QueueInv
    <2>3. QED
      BY <2>1, <2>2
  <1>3. CASE AccountOf[t] = b
    <2>1. PICK h \in Head(b) : jobs' = Enqueued(jobs, h)
      BY <1>1, <1>3
    <2>2. h \in Tasks /\ AccountOf[h] = b
      BY DEF Head, Queued
    <2>3. h = t
      BY <1>1, <1>3, <2>2, OneHead DEF QueueInv
    <2>4. jobs'[t] > 0
      BY <2>1, <2>3, EnqueueCarries DEF QueueInv
    <2>5. QED
      BY <2>4 DEF Watched, Carried
  <1>4. CASE AccountOf[t] # b
    <2>1. Carried(t) => Carried(t)'
      <3>1. CASE jobs[t] > 0 \/ t \in owed
        BY <1>2, <3>1 DEF Carried
      <3>2. CASE ~(jobs[t] > 0 \/ t \in owed)
        <4>1. jobs[t] = 0
          BY <3>2, BoundsType DEF QueueInv, TypeOK
        <4>2. QED
          BY <3>2, <4>1
      <3>3. QED
        BY <3>1, <3>2
    <2>2. AccountOf[t] \in Accounts \ {b}
      BY <1>4, AccountOfType
    <2>3. Watched(t)
      BY <1>1 DEF QueueInv, HeadIsWatched
    <2>4. QED
      BY <2>1, <2>2, <2>3, StaysWatched
  <1>5. QED
    BY <1>3, <1>4

\* What a run does keeps every head watched: it goes on carrying its task, leads
\* to enqueue_next, leaves a busy account to the run that makes it busy, or
\* defers the head and so stands before the next one.
LEMMA AdvanceKeepsHeads ==
  ASSUME QueueInv, NEW r \in Runs, Advance(r) \/ PrepareSleeps(r)
  PROVE  HeadIsWatched'
  <1>1. job[r] \in Tasks
    BY DEF QueueInv, RunHasTask, Advance, PrepareSleeps, Prepare, Defer, Park, ClaimCheck,
       ClaimCommit, GatePass, GateDefer, ActEnds, ActPeerInvalid, ActBanned, ActFlood,
       ActRotate, NextCheck, NextPick
  <1>2. ASSUME NEW t \in Tasks, t \in Head(AccountOf[t])', row' = row
        PROVE  t \in Head(AccountOf[t]) /\ Watched(t)
    <2>1. t \in Head(AccountOf[t])
      BY <1>2 DEF Head, Queued
    <2>2. QED
      BY <2>1 DEF QueueInv, HeadIsWatched
  <1>3. CASE Prepare(r) \/ PrepareSleeps(r)
    <2>1. /\ UNCHANGED <<row, jobs, owed, job, waker>>
          /\ pc[r] = "prepare" /\ pc'[r] \in {"claim", "defer", "park"}
          /\ \A q \in Runs \ {r} : pc'[q] = pc[q]
      BY <1>3 DEF Prepare, PrepareSleeps, GoTo, QueueInv, TypeOK
    <2>2. ASSUME NEW t \in Tasks, t \in Head(AccountOf[t])' PROVE Watched(t)'
      <3>1. Carried(t) => Carried(t)'
        BY <2>1 DEF Carried
      <3>2. InMotion(AccountOf[t]) => InMotion(AccountOf[t])'
        BY <2>1 DEF InMotion
      <3>3. QED
        BY <1>2, <2>1, <2>2, <3>1, <3>2, StaysWatched
    <2>3. QED
      BY <2>2 DEF HeadIsWatched
  <1>4. CASE Defer(r)
    <2>1. /\ UNCHANGED <<jobs, owed, waker>> /\ pc[r] = "defer"
          /\ row'[job[r]] = "deferred" /\ \A u \in Tasks \ {job[r]} : row'[u] = row[u]
          /\ \A q \in Runs \ {r} : pc'[q] = pc[q] /\ job'[q] = job[q]
      BY <1>1, <1>4 DEF Defer, Return, QueueInv, TypeOK
    <2>2. ASSUME NEW t \in Tasks, t \in Head(AccountOf[t])' PROVE Watched(t)'
      <3>1. t # job[r] /\ row[t] = "queued"
        BY <2>1, <2>2 DEF Head, Queued
      <3>2. CASE t \in Head(AccountOf[t])
        <4>1. Watched(t)
          BY <3>2 DEF QueueInv, HeadIsWatched
        <4>2. Carried(t) => Carried(t)'
          BY <2>1, <3>1 DEF Carried
        <4>3. InMotion(AccountOf[t]) => InMotion(AccountOf[t])'
          BY <2>1 DEF InMotion
        <4>4. QED
          BY <2>1, <4>1, <4>2, <4>3, StaysWatched
      <3>3. CASE t \notin Head(AccountOf[t])
        <4>1. PICK u \in Tasks : row[u] = "queued" /\ SameAccount(u, t) /\ Ahead(u, t)
          BY <3>1, <3>3, NewHead
        <4>2. u # t
          BY <4>1, RankType DEF Ahead
        <4>3. row'[u] # "queued"
          BY <2>2, <4>1, <4>2 DEF Head, Queued, SameAccount
        <4>4. row'[u] = "deferred"
          BY <2>1, <4>1, <4>3
        <4>5. DeferredAhead(t)'
          BY <4>1, <4>4 DEF DeferredAhead, SameAccount, Ahead
        <4>6. QED
          BY <4>5 DEF Watched
      <3>4. QED
        BY <3>2, <3>3
    <2>3. QED
      BY <2>2 DEF HeadIsWatched
  <1>5. CASE \/ Park(r) \/ ClaimCommit(r) \/ GatePass(r) \/ GateDefer(r)
             \/ ActEnds(r) \/ ActBanned(r) \/ ActFlood(r) \/ ActRotate(r)
    <2>1. /\ UNCHANGED <<jobs, owed, job, waker>>
          /\ pc'[r] \in {"next", "gate", "act"} /\ \A q \in Runs \ {r} : pc'[q] = pc[q]
      BY <1>5 DEF Park, ClaimCommit, GatePass, GateDefer, ActEnds, ActBanned, ActFlood,
         ActRotate, GoTo, QueueInv, TypeOK
    <2>2. \A u \in Tasks \ {job[r]} : row'[u] = row[u]
      BY <1>5 DEF Park, ClaimCommit, GatePass, GateDefer, ActEnds, ActBanned, ActFlood,
         ActRotate, QueueInv, TypeOK
    <2>3. QED
      BY <1>1, <2>1, <2>2, LeadingRun
  <1>6. CASE ActPeerInvalid(r)
    <2>1. /\ UNCHANGED <<owed, job, waker>> /\ jobs' = Enqueued(jobs, job[r])
          /\ pc'[r] = "next" /\ \A q \in Runs \ {r} : pc'[q] = pc[q]
          /\ \A u \in Tasks \ {job[r]} : row'[u] = row[u]
      BY <1>6 DEF ActPeerInvalid, GoTo, QueueInv, TypeOK
    <2>2. \A u \in Tasks : jobs[u] > 0 => jobs'[u] > 0
      BY <1>1, <2>1, EnqueueCarries DEF QueueInv
    <2>3. QED
      BY <1>1, <2>1, <2>2, LeadingRun
  <1>7. CASE ClaimCheck(r)
    <2>1. /\ UNCHANGED <<row, jobs, owed, waker>> /\ pc[r] = "claim"
          /\ \A q \in Runs \ {r} : pc'[q] = pc[q] /\ job'[q] = job[q]
      BY <1>7 DEF ClaimCheck, GoTo, Return, QueueInv, TypeOK
    <2>2. ASSUME NEW t \in Tasks, t \in Head(AccountOf[t])' PROVE Watched(t)'
      <3>1. t \in Head(AccountOf[t]) /\ Watched(t)
        BY <1>2, <2>1, <2>2
      <3>2. InMotion(AccountOf[t]) => InMotion(AccountOf[t])'
        BY <2>1 DEF InMotion
      <3>3. CASE t # job[r]
        <4>1. Carried(t) => Carried(t)'
          BY <2>1, <3>3 DEF Carried
        <4>2. QED
          BY <2>1, <3>1, <3>2, <4>1, StaysWatched
      <3>4. CASE t = job[r] /\ OtherExecuting(t)
        <4>1. PICK v \in Tasks : AccountOf[v] = AccountOf[t] /\ row[v] = "executing"
          BY <3>4 DEF OtherExecuting, Executing
        <4>2. PICK q \in Runs : job[q] = v /\ pc[q] \in {"gate", "act"}
          BY <4>1 DEF QueueInv, RowHasRun
        <4>3. pc'[q] = pc[q] /\ job'[q] = v
          BY <2>1, <4>2
        <4>4. InMotion(AccountOf[t])'
          BY <4>1, <4>2, <4>3 DEF InMotion
        <4>5. QED
          BY <4>4 DEF Watched
      <3>5. CASE t = job[r] /\ ~OtherExecuting(t)
        <4>1. pc'[r] = "claiming" /\ job'[r] = t
          BY <1>7, <3>1, <3>5 DEF ClaimCheck, GoTo, QueueInv, TypeOK
        <4>2. QED
          BY <4>1 DEF Watched, Carried
      <3>6. QED
        BY <3>3, <3>4, <3>5
    <2>3. QED
      BY <2>2 DEF HeadIsWatched
  <1>8. CASE NextCheck(r)
    <2>1. /\ UNCHANGED <<row, jobs, owed, waker>> /\ pc[r] = "next"
          /\ \A q \in Runs \ {r} : pc'[q] = pc[q] /\ job'[q] = job[q]
      BY <1>8 DEF NextCheck, GoTo, Return, QueueInv, TypeOK
    <2>2. CASE Executing(AccountOf[job[r]]) = {}
      <3>1. job' = job /\ pc'[r] = "pick"
        BY <1>8, <2>2 DEF NextCheck, GoTo, QueueInv, TypeOK
      <3>2. QED
        BY <1>1, <2>1, <3>1, LeadingRun
    <2>3. ASSUME NEW t \in Tasks, t \in Head(AccountOf[t])', Executing(AccountOf[job[r]]) # {}
          PROVE  Watched(t)'
      <3>1. PICK v \in Tasks : AccountOf[v] = AccountOf[job[r]] /\ row[v] = "executing"
        BY <2>3 DEF Executing
      <3>2. PICK q \in Runs : job[q] = v /\ pc[q] \in {"gate", "act"}
        BY <3>1 DEF QueueInv, RowHasRun
      <3>3. pc'[q] = pc[q] /\ job'[q] = v
        BY <2>1, <3>2
      <3>4. InMotion(AccountOf[t]) => InMotion(AccountOf[t])'
        <4>1. CASE AccountOf[t] = AccountOf[v]
          BY <3>2, <3>3, <4>1 DEF InMotion
        <4>2. CASE AccountOf[t] # AccountOf[v]
          BY <2>1, <3>1, <4>2 DEF InMotion
        <4>3. QED
          BY <4>1, <4>2
      <3>5. Carried(t) => Carried(t)'
        BY <2>1 DEF Carried
      <3>6. QED
        BY <1>2, <2>1, <2>3, <3>4, <3>5, StaysWatched
    <2>4. QED
      BY <2>2, <2>3 DEF HeadIsWatched
  <1>9. CASE NextPick(r)
    <2>1. /\ UNCHANGED <<row, owed, waker>> /\ pc[r] = "pick"
          /\ \A q \in Runs \ {r} : pc'[q] = pc[q] /\ job'[q] = job[q]
      BY <1>9 DEF NextPick, Return, QueueInv, TypeOK
    <2>2. IF Head(AccountOf[job[r]]) = {} THEN jobs' = jobs
          ELSE \E h \in Head(AccountOf[job[r]]) : jobs' = Enqueued(jobs, h)
      BY <1>9 DEF NextPick
    <2>3. \A t \in Tasks : Carried(t) /\ jobs[t] = 0 /\ t \notin owed => Carried(t)'
      BY <2>1 DEF Carried
    <2>4. \A a \in Accounts \ {AccountOf[job[r]]} : InMotion(a) => InMotion(a)'
      BY <2>1 DEF InMotion
    <2>5. QED
      BY <2>1, <2>2, <2>3, <2>4, HeadEnqueued
  <1>10. QED
    BY <1>3, <1>4, <1>5, <1>6, <1>7, <1>8, <1>9 DEF Advance

LEMMA NextHeadIsWatched == QueueInv /\ [Next]_vars => HeadIsWatched'
  <1> SUFFICES ASSUME QueueInv, [Next]_vars PROVE HeadIsWatched'
    OBVIOUS
  \* a step that queues nothing, defers nothing back and takes no work away
  <1>1. ASSUME row' = row, \A t \in Tasks : Carried(t) => Carried(t)',
               \A a \in Accounts : InMotion(a) => InMotion(a)'
        PROVE  HeadIsWatched'
    <2>1. ASSUME NEW t \in Tasks, t \in Head(AccountOf[t])' PROVE Watched(t)'
      <3>1. t \in Head(AccountOf[t])
        BY <1>1, <2>1 DEF Head, Queued
      <3>2. Watched(t)
        BY <3>1 DEF QueueInv, HeadIsWatched
      <3>3. AccountOf[t] \in Accounts
        BY AccountOfType
      <3>4. QED
        BY <1>1, <3>2, <3>3, StaysWatched
    <2>2. QED
      BY <2>1 DEF HeadIsWatched
  <1>2. ASSUME NEW c \in Tasks, CreateAction(c) PROVE HeadIsWatched'
    <2>1. /\ UNCHANGED <<jobs, pc, job, waker>> /\ owed' = owed \cup {c}
          /\ row[c] = "absent" /\ \A u \in Tasks \ {c} : row'[u] = row[u]
      BY <1>2 DEF CreateAction, QueueInv, TypeOK
    <2>2. ASSUME NEW t \in Tasks, t \in Head(AccountOf[t])' PROVE Watched(t)'
      <3>1. CASE t = c
        BY <2>1, <3>1 DEF Watched, Carried
      <3>2. CASE t # c
        <4>1. row[t] = "queued" /\ \A u \in Tasks : row[u] = "queued" => row'[u] = "queued"
          BY <2>1, <2>2, <3>2 DEF Head, Queued
        <4>2. Watched(t)
          BY <2>2, <4>1, OldHead DEF QueueInv, HeadIsWatched
        <4>3. Carried(t) => Carried(t)'
          BY <2>1 DEF Carried
        <4>4. InMotion(AccountOf[t]) => InMotion(AccountOf[t])'
          BY <2>1 DEF InMotion
        <4>5. QED
          BY <2>1, <4>2, <4>3, <4>4, StaysWatched
      <3>3. QED
        BY <3>1, <3>2
    <2>3. QED
      BY <2>2 DEF HeadIsWatched
  <1>3. ASSUME NEW c \in Tasks, EnqueueOwed(c) PROVE HeadIsWatched'
    <2>1. /\ UNCHANGED <<row, pc, job, waker>> /\ owed' = owed \ {c}
          /\ jobs' = Enqueued(jobs, c)
      BY <1>3 DEF EnqueueOwed
    <2>2. jobs'[c] > 0 /\ \A u \in Tasks : jobs[u] > 0 => jobs'[u] > 0
      BY <2>1, EnqueueCarries DEF QueueInv
    <2>3. \A t \in Tasks : Carried(t) => Carried(t)'
      BY <2>1, <2>2 DEF Carried
    <2>4. QED
      BY <1>1, <2>1, <2>3 DEF InMotion
  <1>4. ASSUME NEW r \in Runs, NEW c \in Tasks, StartJob(r, c) PROVE HeadIsWatched'
    <2>1. /\ UNCHANGED <<row, owed, waker>> /\ pc[r] = "idle"
          /\ \A q \in Runs \ {r} : pc'[q] = pc[q] /\ job'[q] = job[q]
          /\ \A u \in Tasks \ {c} : jobs'[u] = jobs[u]
          /\ row[c] = "queued" => pc'[r] = "prepare" /\ job'[r] = c
      BY <1>4 DEF StartJob, GoTo, runVars, QueueInv, TypeOK
    <2>2. ASSUME NEW t \in Tasks, t \in Head(AccountOf[t])' PROVE Watched(t)'
      <3>1. t \in Head(AccountOf[t]) /\ row[t] = "queued"
        BY <2>1, <2>2 DEF Head, Queued
      <3>2. CASE t = c
        BY <2>1, <3>1, <3>2 DEF Watched, Carried
      <3>3. CASE t # c
        <4>1. Carried(t) => Carried(t)'
          BY <2>1, <3>3 DEF Carried
        <4>2. InMotion(AccountOf[t]) => InMotion(AccountOf[t])'
          BY <2>1 DEF InMotion
        <4>3. Watched(t)
          BY <3>1 DEF QueueInv, HeadIsWatched
        <4>4. QED
          BY <2>1, <4>1, <4>2, <4>3, StaysWatched
      <3>4. QED
        BY <3>2, <3>3
    <2>3. QED
      BY <2>2 DEF HeadIsWatched
  <1>5. ASSUME NEW due \in SUBSET Tasks, ReenqueueDueDeferred(due) PROVE HeadIsWatched'
    <2>1. /\ UNCHANGED <<jobs, pc, job, waker>> /\ owed' = owed \cup due
          /\ \A u \in Tasks : row'[u] = IF u \in due THEN "queued" ELSE row[u]
      BY <1>5 DEF ReenqueueDueDeferred
    <2>2. ASSUME NEW t \in Tasks, t \in Head(AccountOf[t])' PROVE Watched(t)'
      <3>1. CASE t \in due
        BY <2>1, <3>1 DEF Watched, Carried
      <3>2. CASE t \notin due
        <4>1. row[t] = "queued" /\ \A u \in Tasks : row[u] = "queued" => row'[u] = "queued"
          BY <2>1, <2>2, <3>2 DEF Head, Queued
        <4>2. Watched(t)
          BY <2>2, <4>1, OldHead DEF QueueInv, HeadIsWatched
        <4>3. Carried(t) => Carried(t)'
          BY <2>1 DEF Carried
        <4>4. InMotion(AccountOf[t]) => InMotion(AccountOf[t])'
          BY <2>1 DEF InMotion
        <4>5. ASSUME NEW u \in Tasks, row[u] = "deferred", SameAccount(u, t), Ahead(u, t)
              PROVE  row'[u] = "deferred"
          <5>1. u # t
            BY <4>5, RankType DEF Ahead
          <5>2. row'[u] # "queued"
            BY <2>2, <4>5, <5>1 DEF Head, Queued, SameAccount
          <5>3. QED
            BY <2>1, <4>5, <5>2
        <4>6. DeferredAhead(t) => DeferredAhead(t)'
          BY <4>5 DEF DeferredAhead
        <4>7. QED
          BY <4>2, <4>3, <4>4, <4>6 DEF Watched
      <3>3. QED
        BY <3>1, <3>2
    <2>3. QED
      BY <2>2 DEF HeadIsWatched
  <1>6. ASSUME NEW r \in Runs, Advance(r) \/ RunFault(r) PROVE HeadIsWatched'
    BY <1>6, AdvanceKeepsHeads
    DEF RunFault, RunRaises, JobTimeout, WorkerCrash, FaultOccurs, QueueInv, Undisturbed
  <1>7. ASSUME NEW w \in Sweepers, RecoverSelect(w) \/ RecoverReset(w) PROVE HeadIsWatched'
    BY <1>1, <1>7 DEF RecoverSelect, RecoverReset, QueueInv, NothingSelected, Carried, InMotion
  <1>8. ASSUME NEW b \in Accounts, WakeCheck(b) PROVE HeadIsWatched'
    <2>1. /\ UNCHANGED <<row, jobs, owed, pc, job>>
          /\ \A a \in Accounts \ {b} : waker'[a] = waker[a]
          /\ waker'[b] = IF Executing(b) # {} THEN "idle" ELSE "pick"
      BY <1>8 DEF WakeCheck, QueueInv, TypeOK
    <2>2. InMotion(b)'
      <3>1. CASE Executing(b) = {}
        BY <2>1, <3>1 DEF InMotion
      <3>2. CASE Executing(b) # {}
        <4>1. PICK v \in Tasks : AccountOf[v] = b /\ row[v] = "executing"
          BY <3>2 DEF Executing
        <4>2. PICK q \in Runs : job[q] = v /\ pc[q] \in {"gate", "act"}
          BY <4>1 DEF QueueInv, RowHasRun
        <4>3. QED
          BY <2>1, <4>1, <4>2 DEF InMotion
      <3>3. QED
        BY <3>1, <3>2
    <2>3. \A a \in Accounts : InMotion(a) => InMotion(a)'
      BY <2>1, <2>2 DEF InMotion
    <2>4. QED
      BY <1>1, <2>1, <2>3 DEF Carried
  <1>9. ASSUME NEW b \in Accounts, WakePick(b) PROVE HeadIsWatched'
    <2>1. /\ UNCHANGED <<row, owed, pc, job>>
          /\ \A a \in Accounts \ {b} : waker'[a] = waker[a]
      BY <1>9 DEF WakePick, QueueInv, TypeOK
    <2>2. IF Head(b) = {} THEN jobs' = jobs ELSE \E h \in Head(b) : jobs' = Enqueued(jobs, h)
      BY <1>9 DEF WakePick
    <2>3. QED
      BY <2>1, <2>2, HeadEnqueued DEF Carried, InMotion
  <1>10. ASSUME NEW b \in Accounts,
                AccountOpens(b) \/ AccountCloses(b) \/ AccountSleeps(b) \/ Wake(b)
         PROVE  HeadIsWatched'
    <2>1. /\ UNCHANGED <<row, jobs, owed, pc, job>>
          /\ \A a \in Accounts : waker[a] # "idle" => waker'[a] # "idle"
      BY <1>10 DEF AccountOpens, AccountCloses, AccountSleeps, Wake, QueueInv, TypeOK
    <2>2. QED
      BY <1>1, <2>1 DEF Carried, InMotion
  <1>11. ASSUME NEW t \in Tasks, EnqueueFails(t) PROVE FALSE
    BY <1>11 DEF EnqueueFails, FaultOccurs, QueueInv, Undisturbed
  <1>12. ASSUME NEW a \in Accounts, WakeFails(a) PROVE FALSE
    BY <1>12 DEF WakeFails, FaultOccurs, QueueInv, Undisturbed
  <1>13. CASE UNCHANGED vars
    BY <1>1, <1>13 DEF vars, Carried, InMotion
  <1>14. QED
    BY <1>2, <1>3, <1>4, <1>5, <1>6, <1>7, <1>8, <1>9, <1>10, <1>11, <1>12, <1>13 DEF Next

\* Without deaths, cancellations and lost connections, and whatever closes or
\* puts to sleep an account, the head of its queue always has a job, an enqueue or
\* a run of its own, or work of the account that will dispatch it.
THEOREM HeadIsNeverForgotten == Undisturbed /\ Spec => []HeadIsDriven
  <1>1. Undisturbed /\ Init => QueueInv
    <2>1. Init => HeadIsWatched
      BY DEF Init, HeadIsWatched, Head, Queued
    <2>2. Init => RowHasRun /\ NothingSelected
      BY DEF Init, RowHasRun, NothingSelected
    <2>3. QED
      BY <2>1, <2>2, InitInv DEF Inv, QueueInv
  <1>2. QueueInv /\ [Next]_vars => QueueInv'
    <2>1. Undisturbed => Undisturbed'
      BY DEF Undisturbed, SameAccount
    <2>2. QED
      BY <2>1, NextTypeOK, NextRunHasTask, NextRowHasRun, NextHeadIsWatched,
         NextNothingSelected DEF QueueInv
  <1>3. QueueInv => HeadIsDriven
    <2>1. ASSUME QueueInv, NEW a \in Accounts, NEW t \in Head(a) PROVE Carried(t) \/ Driven(a)
      <3>1. t \in Tasks /\ AccountOf[t] = a
        BY DEF Head, Queued
      <3>2. Watched(t)
        BY <2>1, <3>1 DEF QueueInv, HeadIsWatched
      <3>3. InMotion(a) \/ DeferredAhead(t) => Driven(a)
        BY <3>1 DEF InMotion, DeferredAhead, Driven, SameAccount
      <3>4. QED
        BY <3>1, <3>2, <3>3 DEF Watched
    <2>2. QED
      BY <2>1 DEF HeadIsDriven
  <1>4. QED
    BY <1>1, <1>2, <1>3, PTL DEF Spec

-----------------------------------------------------------------------------
(* What a sweep selected, and what a run holds                              *)

\* No row is in the hands of two sweeps at once, as with one worker that sweeps.
\* The two workers of docker-compose.yml do not promise it.
SweepsAreDisjoint == \A v, w \in Sweepers : v # w => scan[v] \cap scan[w] = {}

\* No task is in the hands of two runs that have not written its result.  arq
\* does not promise it: equal jobs of one task may start side by side.
OneRunPerTask ==
    \A r, s \in Runs : Undecided(r) /\ Undecided(s) /\ job[r] = job[s] => r = s

\* What a sweep resets is what its query saw: executing, and no run acts on it.
OnlyOrphansAreReset ==
    [][\A w \in Sweepers : RecoverReset(w) =>
           \A t \in scan[w] : row[t] = "executing" /\ LeaseExpired(t)]_vars

\* It stays so from the query on; OnlyOrphansAreReset is the case of the reset.
ScanInv == \A w \in Sweepers : \A t \in scan[w] : row[t] = "executing" /\ LeaseExpired(t)

\* A run between its claim and its result has its row executing, so the check of
\* the next claim sees it.
HoldingInv == \A r \in Runs : Holding(r) => row[job[r]] = "executing"

\* A row leaves EXECUTING by a run that had not decided and is now done with it,
\* or by a sweep that selected it.
LEMMA LeavesExecuting ==
  ASSUME TypeOK, RunHasTask, [Next]_vars,
         NEW t \in Tasks, row[t] = "executing", row'[t] # "executing"
  PROVE  \/ \E r \in Runs : job[r] = t /\ Undecided(r) /\ ~Holding(r)'
         \/ \E w \in Sweepers : RecoverReset(w) /\ t \in scan[w]
  <1>1. ASSUME NEW c \in Tasks, CreateAction(c) \/ EnqueueOwed(c) \/ EnqueueFails(c)
        PROVE  FALSE
    BY <1>1 DEF CreateAction, EnqueueOwed, EnqueueFails, TypeOK
  <1>2. ASSUME NEW r \in Runs, Advance(r)
        PROVE  job[r] = t /\ Undecided(r) /\ ~Holding(r)'
    <2>1. CASE Prepare(r) \/ ClaimCheck(r) \/ GatePass(r) \/ NextCheck(r) \/ NextPick(r)
      BY <2>1 DEF Prepare, ClaimCheck, GatePass, NextCheck, NextPick
    <2>2. CASE ClaimCommit(r)
      BY <2>2 DEF ClaimCommit, TypeOK
    <2>3. CASE Defer(r) \/ Park(r) \/ GateDefer(r)
      BY <2>3 DEF Defer, Park, GateDefer, GoTo, Return, Undecided, Holding, TypeOK
    <2>4. CASE ActEnds(r) \/ ActPeerInvalid(r) \/ ActBanned(r) \/ ActFlood(r) \/ ActRotate(r)
      BY <2>4
      DEF ActEnds, ActPeerInvalid, ActBanned, ActFlood, ActRotate, GoTo, Undecided, Holding,
          TypeOK
    <2>5. QED
      BY <1>2, <2>1, <2>2, <2>3, <2>4 DEF Advance
  <1>3. ASSUME NEW r \in Runs, RunFault(r) PROVE FALSE
    BY <1>3 DEF RunFault, PrepareSleeps, RunRaises, JobTimeout, WorkerCrash
  <1>4. ASSUME NEW r \in Runs, NEW c \in Tasks, StartJob(r, c) PROVE FALSE
    BY <1>4 DEF StartJob
  <1>5. ASSUME NEW due \in SUBSET Tasks, ReenqueueDueDeferred(due) PROVE FALSE
    BY <1>5 DEF ReenqueueDueDeferred
  <1>6. ASSUME NEW w \in Sweepers, RecoverSelect(w) PROVE FALSE
    BY <1>6 DEF RecoverSelect
  <1>7. ASSUME NEW w \in Sweepers, RecoverReset(w) PROVE t \in scan[w]
    BY <1>7 DEF RecoverReset
  <1>8. ASSUME NEW a \in Accounts,
               \/ AccountOpens(a) \/ AccountCloses(a) \/ AccountSleeps(a)
               \/ Wake(a) \/ WakeCheck(a) \/ WakePick(a) \/ WakeFails(a)
        PROVE FALSE
    BY <1>8
    DEF AccountOpens, AccountCloses, AccountSleeps, Wake, WakeCheck, WakePick, WakeFails
  <1>9. CASE UNCHANGED vars
    BY <1>9 DEF vars
  <1>10. QED
    BY <1>1, <1>2, <1>3, <1>4, <1>5, <1>6, <1>7, <1>8, <1>9 DEF Next

\* A run gets to a task only by reading its row as queued, and holds it only from
\* a claim that writes executing.
LEMMA RunsBegin ==
  ASSUME TypeOK, [Next]_vars, NEW r \in Runs
  PROVE  /\ Undecided(r)' => \/ Undecided(r) /\ job'[r] = job[r]
                             \/ row[job'[r]] = "queued" /\ row' = row
         /\ Holding(r)' => \/ Holding(r) /\ job'[r] = job[r]
                           \/ /\ pc[r] = "claiming" /\ job'[r] = job[r]
                              /\ row' = [row EXCEPT ![job[r]] = "executing"]
  <1> USE DEF Undecided, Holding
  <1>1. CASE UNCHANGED runVars
    BY <1>1 DEF runVars
  <1>2. ASSUME NEW q \in Runs, NEW t \in Tasks, StartJob(q, t), q # r
        PROVE  pc'[r] = pc[r] /\ job'[r] = job[r]
    BY <1>2 DEF StartJob, GoTo, runVars, TypeOK
  <1>3. ASSUME NEW q \in Runs, Advance(q) \/ RunFault(q), q # r
        PROVE  pc'[r] = pc[r] /\ job'[r] = job[r]
    BY <1>3
    DEF Advance, RunFault, Prepare, Defer, Park, ClaimCheck, ClaimCommit, GatePass,
        GateDefer, ActEnds, ActPeerInvalid, ActBanned, ActFlood, ActRotate, NextCheck,
        NextPick, PrepareSleeps, RunRaises, JobTimeout, WorkerCrash, GoTo, Return, TypeOK
  <1>4. ASSUME NEW t \in Tasks, StartJob(r, t)
        PROVE  \/ pc'[r] = "idle"
               \/ /\ pc'[r] = "prepare"
                  /\ row[job'[r]] = "queued" /\ row' = row
    BY <1>4 DEF StartJob, GoTo, runVars, TypeOK
  <1>5. CASE ClaimCommit(r)
    BY <1>5 DEF ClaimCommit, GoTo, TypeOK
  <1>6. ASSUME Advance(r) \/ RunFault(r), ~ClaimCommit(r)
        PROVE  \/ pc'[r] \in {"idle", "next", "pick"}
               \/ /\ job'[r] = job[r] /\ pc[r] \in {"prepare", "claim"}
                  /\ pc'[r] \in {"claim", "defer", "park", "claiming"}
               \/ job'[r] = job[r] /\ pc'[r] = "act" /\ pc[r] = "gate"
    BY <1>6
    DEF Advance, RunFault, Prepare, Defer, Park, ClaimCheck, GatePass,
        GateDefer, ActEnds, ActPeerInvalid, ActBanned, ActFlood, ActRotate, NextCheck,
        NextPick, PrepareSleeps, RunRaises, JobTimeout, WorkerCrash, GoTo, Return, TypeOK
  <1>7. QED
    BY <1>1, <1>2, <1>3, <1>4, <1>5, <1>6
    DEF Next, vars, runVars, CreateAction, EnqueueOwed, EnqueueFails, ReenqueueDueDeferred,
        RecoverSelect, RecoverReset, AccountOpens, AccountCloses, AccountSleeps, Wake,
        WakeCheck, WakePick, WakeFails

\* A sweep gets rows only by its query, and keeps none it has reset.
LEMMA SweepsBegin ==
  ASSUME TypeOK, [Next]_vars, NEW w \in Sweepers, NEW t \in Tasks, t \in scan'[w]
  PROVE  \/ row[t] = "executing" /\ LeaseExpired(t) /\ UNCHANGED <<row, pc, job>>
         \/ t \in scan[w] /\ ~RecoverReset(w)
  <1>1. CASE UNCHANGED scan /\ ~RecoverReset(w)
    BY <1>1
  <1>2. ASSUME NEW v \in Sweepers, RecoverSelect(v)
        PROVE  \/ row[t] = "executing" /\ LeaseExpired(t) /\ UNCHANGED <<row, pc, job>>
               \/ t \in scan[w] /\ scan[w] = {}
               \/ t \in scan[w] /\ v # w /\ scan'[w] = scan[w]
    BY <1>2 DEF RecoverSelect, TypeOK
  <1>3. RecoverReset(w) => scan'[w] = {}
    BY DEF RecoverReset, TypeOK
  <1>4. ASSUME NEW v \in Sweepers, RecoverReset(v), v # w PROVE scan'[w] = scan[w]
    BY <1>4 DEF RecoverReset, TypeOK
  <1>5. QED
    BY <1>1, <1>2, <1>3, <1>4
    DEF Next, vars, CreateAction, EnqueueOwed, EnqueueFails, StartJob, ReenqueueDueDeferred,
        Advance, RunFault, Prepare, Defer, Park, ClaimCheck, ClaimCommit, GatePass,
        GateDefer, ActEnds, ActPeerInvalid, ActBanned, ActFlood, ActRotate, NextCheck,
        NextPick, PrepareSleeps, RunRaises, JobTimeout, WorkerCrash,
        AccountOpens, AccountCloses, AccountSleeps, Wake, WakeCheck, WakePick, WakeFails

LEMMA ScanNext ==
  TypeOK /\ RunHasTask /\ SweepsAreDisjoint /\ ScanInv /\ [Next]_vars => ScanInv'
  <1> SUFFICES ASSUME TypeOK, RunHasTask, SweepsAreDisjoint, ScanInv, [Next]_vars,
                      NEW w \in Sweepers, NEW t \in scan'[w]
               PROVE  row'[t] = "executing" /\ LeaseExpired(t)'
    BY DEF ScanInv
  <1>1. t \in Tasks
    BY NextTypeOK DEF TypeOK
  <1>2. CASE row[t] = "executing" /\ LeaseExpired(t) /\ UNCHANGED <<row, pc, job>>
    BY <1>2 DEF LeaseExpired, Undecided
  <1>3. CASE t \in scan[w] /\ ~RecoverReset(w)
    <2>1. row[t] = "executing" /\ \A r \in Runs : job[r] = t => ~Undecided(r)
      BY <1>3 DEF ScanInv, LeaseExpired
    <2>2. row'[t] = "executing"
      <3>1. \A v \in Sweepers : RecoverReset(v) => t \notin scan[v]
        BY <1>3 DEF SweepsAreDisjoint
      <3>2. QED
        BY <1>1, <2>1, <3>1, LeavesExecuting
    <2>3. \A r \in Runs : job'[r] = t => ~Undecided(r)'
      BY <2>1, RunsBegin
    <2>4. QED
      BY <2>2, <2>3 DEF LeaseExpired
  <1>4. QED
    BY <1>1, <1>2, <1>3, SweepsBegin

\* Whatever crashes, times out or is enqueued twice: as long as no two sweeps
\* hold one row, a sweep resets only rows that are executing and that no run will
\* act on any more, so never one that a run holds.
THEOREM SweepIsSafe ==
  Spec /\ []SweepsAreDisjoint => OnlyOrphansAreReset /\ RunningIsNeverReset
  <1>1. Init => ScanInv
    BY DEF Init, ScanInv
  <1>2. Inv => TypeOK /\ RunHasTask
    BY DEF Inv
  <1>3. ScanInv =>
          [\A w \in Sweepers : RecoverReset(w) =>
              \A t \in scan[w] : row[t] = "executing" /\ LeaseExpired(t)]_vars
    BY DEF ScanInv
  <1>4. ScanInv =>
          [\A w \in Sweepers : RecoverReset(w) =>
              \A r \in Runs : Holding(r) => job[r] \notin scan[w]]_vars
    BY DEF ScanInv, LeaseExpired, Undecided, Holding
  <1>5. QED
    BY <1>1, <1>2, <1>3, <1>4, ScanNext, InvAlways, PTL
    DEF Spec, OnlyOrphansAreReset, RunningIsNeverReset

LEMMA HoldingNext ==
  TypeOK /\ RunHasTask /\ OneRunPerTask /\ ScanInv /\ HoldingInv /\ [Next]_vars => HoldingInv'
  <1> SUFFICES ASSUME TypeOK, RunHasTask, OneRunPerTask, ScanInv, HoldingInv, [Next]_vars,
                      NEW r \in Runs, Holding(r)'
               PROVE  row'[job'[r]] = "executing"
    BY DEF HoldingInv
  <1>1. CASE pc[r] = "claiming" /\ row' = [row EXCEPT ![job[r]] = "executing"] /\ job'[r] = job[r]
    BY <1>1 DEF TypeOK, RunHasTask
  <1>2. CASE Holding(r) /\ job'[r] = job[r]
    <2>1. job[r] \in Tasks /\ row[job[r]] = "executing" /\ Undecided(r)
      BY <1>2 DEF HoldingInv, RunHasTask, Holding, Undecided
    <2>2. \A s \in Runs : job[s] = job[r] /\ Undecided(s) => s = r
      BY <2>1 DEF OneRunPerTask
    <2>3. \A w \in Sweepers : job[r] \notin scan[w]
      BY <2>1 DEF ScanInv, LeaseExpired
    <2>4. QED
      BY <1>2, <2>1, <2>2, <2>3, LeavesExecuting
  <1>3. QED
    BY <1>1, <1>2, RunsBegin

\* Duplicates are the only cause of what run tq_concurrent shows: in a behaviour
\* in which no task is in the hands of two runs, nor a row in those of two sweeps,
\* two tasks of one account never run together, whatever else fails.
THEOREM DuplicatesAreTheOnlyCause ==
  Spec /\ []OneRunPerTask /\ []SweepsAreDisjoint => []OneTaskRunsPerAccount
  <1>1. Init => ScanInv /\ HoldingInv
    BY DEF Init, ScanInv, HoldingInv, Holding
  <1>2. Inv => TypeOK /\ RunHasTask
    BY DEF Inv
  <1>3. Inv /\ HoldingInv => OneTaskRunsPerAccount
    BY DEF Inv, RunHasTask, OneExecutingRow, HoldingInv, OneTaskRunsPerAccount, Holding,
       SameAccount
  <1>4. QED
    BY <1>1, <1>2, <1>3, ScanNext, HoldingNext, InvAlways, PTL DEF Spec

=============================================================================
