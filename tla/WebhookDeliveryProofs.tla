----------------------- MODULE WebhookDeliveryProofs -----------------------
(***************************************************************************)
(* Proofs about WebhookDelivery for every backoff schedule, window, sweep  *)
(* period and number of faults, as long as a due job waits less than the   *)
(* window for a slot: what holds while no process dies in the middle of    *)
(* its work (Punctual), and what deaths can add at most.                   *)
(***************************************************************************)
EXTENDS WebhookDelivery, FiniteSetTheorems, TLAPS

\* What the re-drive relies on: a job starts and posts within the window (the
\* code compares the window with the backoff only), and nothing dies half-way.
Punctual ==
    /\ Latency + SendTime < Window
    /\ "crash" \notin Faults /\ "sweep" \notin Faults

\* Where a live job stands in time: it starts no earlier than the row is due, and
\* the row is never silent for longer than the wait for a slot and one POST.
JobIsNear ==
    \A j \in Jobs :
        /\ phase[j] = "queued" => silent + timer[j] <= 0 /\ timer[j] >= -Latency
        /\ phase[j] = "owed" => silent + timer[j] <= 0 /\ timer[j] >= 0
        /\ phase[j] = "sending" => silent + timer[j] <= Latency + SendTime /\ timer[j] >= 0

\* A live job means that the row still has attempts, and a posting run has read
\* the row as it is.
JobIsDue ==
    \A j \in Jobs : Live(j) =>
        /\ status = "pending" /\ attempts < MaxAttempts
        /\ phase[j] = "sending" =>
             loaded[j].status = "pending" /\ loaded[j].attempts = attempts

\* Every POST is recorded but the one in flight.
PostsAreRecorded ==
    /\ (\E j \in Jobs : phase[j] = "sending") => posts = attempts + 1
    /\ (\A j \in Jobs : phase[j] # "sending") => posts = attempts

\* The inductive invariant.  OneJobPerRow needs the timing: a second job comes
\* only from the sweep, and JobIsNear says that a row with a live job is not
\* stranded.
WInv ==
    /\ TypeOK /\ attempts <= MaxAttempts
    /\ OneJobPerRow /\ JobIsNear /\ JobIsDue /\ PostsAreRecorded

-----------------------------------------------------------------------------
LEMMA PostsBound == MaxPosts \in Nat /\ MaxAttempts < MaxPosts
  <1>1. MaxAttempts \in Nat /\ MaxFaults \in Nat
    BY TimesType
  <1>2. \A m, n \in Nat : m * (1 + n) \in Nat /\ m <= m * (1 + n)
    OBVIOUS
  <1>3. QED
    BY <1>1, <1>2 DEF MaxPosts

LEMMA BackoffType == \A n \in 1..MaxAttempts : Backoff[n] \in Nat
  BY TimesType

-----------------------------------------------------------------------------
(* The types hold whatever dies and however late a job is                    *)

LEMMA TriedType ==
  ASSUME TypeOK, NEW j \in Jobs
  PROVE  Tried(j) \in 1..MaxPosts /\ (Tried(j) < MaxAttempts => Backoff[Tried(j)] \in Nat)
  <1>1. loaded[j].attempts \in 0..MaxPosts
    BY DEF TypeOK
  <1>2. Tried(j) \in 1..MaxPosts
    BY <1>1, PostsBound, TimesType DEF Tried, AtMost
  <1>3. QED
    BY <1>2, BackoffType, PostsBound, TimesType

LEMMA RunKeepsType ==
  ASSUME TypeOK, NEW j \in Jobs,
         Run(j) \/ EnqueueLost(j) \/ RunRaises(j) \/ WorkerCrash(j)
  PROVE  TypeOK'
  <1> USE TimesType, PostsBound DEF TypeOK, Phases
  <1>1. CASE Start(j)
    <2>1. /\ posts' \in 0..MaxPosts
          /\ UNCHANGED <<status, attempts, silent, sweepIn, faults>>
      BY <1>1 DEF Start, rowVars, AtMost
    <2>2. phase' \in [Jobs -> Phases]
      BY <1>1 DEF Start
    <2>3. timer' \in [Jobs -> Int]
      BY <1>1 DEF Start
    <2>4. loaded' \in [Jobs -> [status : Statuses, attempts : 0..MaxPosts]]
      <3>1. [status |-> status, attempts |-> attempts] \in [status : Statuses, attempts : 0..MaxPosts]
        OBVIOUS
      <3>2. \/ loaded' = loaded
            \/ loaded' = [loaded EXCEPT ![j] = [status |-> status, attempts |-> attempts]]
        BY <1>1 DEF Start
      <3>3. QED
        BY <3>1, <3>2
    <2>5. QED
      BY <2>1, <2>2, <2>3, <2>4
  <1>2. ASSUME NEW new \in Statuses, WriteStatus(j, new) PROVE status' \in Statuses
    BY <1>2 DEF WriteStatus
  <1>3. CASE SendOk(j) \/ SendExhausted(j)
    <2>1. status' \in Statuses
      BY <1>2, <1>3 DEF SendOk, SendExhausted, Statuses
    <2>2. attempts' \in 0..MaxPosts
      BY <1>3, TriedType DEF SendOk, SendExhausted
    <2>3. phase' \in [Jobs -> Phases] /\ UNCHANGED <<silent, timer, loaded, sweepIn, posts, faults>>
      BY <1>3 DEF SendOk, SendExhausted
    <2>4. QED
      BY <2>1, <2>2, <2>3
  <1>4. CASE SendFails(j)
    BY <1>2, <1>4, TriedType DEF SendFails, Statuses
  <1>5. CASE EnqueueRetry(j) \/ Close(j)
    BY <1>5 DEF EnqueueRetry, Close, Is, rowVars
  <1>6. CASE EnqueueLost(j) \/ RunRaises(j)
    <2>1. phase' \in [Jobs -> Phases] /\ faults' \in 0..MaxFaults
      BY <1>6 DEF EnqueueLost, RunRaises, FaultOccurs
    <2>2. QED
      BY <1>6, <2>1 DEF EnqueueLost, RunRaises, rowVars
  <1>7. CASE WorkerCrash(j)
    <2>1. PICK wait \in {0, Redelivery} : timer' = [timer EXCEPT ![j] = wait]
      BY <1>7 DEF WorkerCrash
    <2>2. QED
      BY <1>7, <2>1 DEF WorkerCrash, FaultOccurs, rowVars
  <1>8. QED
    BY <1>1, <1>3, <1>4, <1>5, <1>6, <1>7 DEF Run

LEMMA TypeStep == TypeOK /\ [Next]_vars => TypeOK'
  <1> SUFFICES ASSUME TypeOK, [Next]_vars PROVE TypeOK'
    OBVIOUS
  <1> USE TimesType, PostsBound
  <1>1. CASE Tick
    BY <1>1 DEF Tick, TypeOK, AtMost
  <1>2. CASE Sweep \/ RedriveFails \/ RedriveDies
    <2>1. SweepDone /\ sweepIn' \in Int
      BY <1>2 DEF Sweep, SweepFindsNothing, Redrive, RedriveFails, RedriveDies, SweepDone, TypeOK
    <2>2. UNCHANGED <<status, attempts, loaded, posts>>
      BY <1>2 DEF Sweep, SweepFindsNothing, Redrive, RedriveFails, RedriveDies, rowVars, jobVars
    <2>3. /\ phase' \in [Jobs -> Phases] /\ timer' \in [Jobs -> Int]
      <3>1. \/ UNCHANGED jobVars
            \/ \E j \in Jobs : /\ phase' = [phase EXCEPT ![j] = "queued"]
                             /\ timer' = [timer EXCEPT ![j] = 0]
        BY <1>2 DEF Sweep, SweepFindsNothing, Redrive, RedriveFails, RedriveDies, Is
      <3>2. CASE UNCHANGED jobVars
        BY <3>2 DEF jobVars, TypeOK
      <3>3. ASSUME NEW j \in Jobs, phase' = [phase EXCEPT ![j] = "queued"],
                   timer' = [timer EXCEPT ![j] = 0]
            PROVE  phase' \in [Jobs -> Phases] /\ timer' \in [Jobs -> Int]
        <4>1. phase \in [Jobs -> Phases] /\ timer \in [Jobs -> Int] /\ "queued" \in Phases
          BY DEF TypeOK, Phases
        <4>2. QED
          BY <3>3, <4>1
      <3>4. QED
        BY <3>1, <3>2, <3>3
    <2>4. silent' \in Int /\ silent' <= Window
      BY <1>2 DEF Sweep, SweepFindsNothing, Redrive, RedriveFails, RedriveDies,
         rowVars, TypeOK
    <2>5. faults' \in 0..MaxFaults
      BY <1>2 DEF Sweep, SweepFindsNothing, Redrive, RedriveFails, RedriveDies,
         FaultOccurs, TypeOK
    <2>6. QED
      BY <2>1, <2>2, <2>3, <2>4, <2>5 DEF TypeOK
  <1>3. CASE \E j \in Jobs : Run(j) \/ EnqueueLost(j) \/ RunRaises(j) \/ WorkerCrash(j)
    BY <1>3, RunKeepsType
  <1>4. CASE UNCHANGED vars
    BY <1>4 DEF vars, TypeOK
  <1>5. QED
    BY <1>1, <1>2, <1>3, <1>4 DEF Next

\* Late jobs, lost enqueues, deaths and doubled chains of retries included, the
\* row keeps its statuses and its attempts stay countable.
THEOREM WebhookType == Spec => []TypeOK
  <1>1. Init => TypeOK
    BY TimesType, PostsBound DEF Init, TypeOK, Statuses, Phases
  <1>2. QED
    BY <1>1, TypeStep, PTL DEF Spec

-----------------------------------------------------------------------------
(* One live job per row, when nothing is late and nothing dies half-way      *)

LEMMA WInit == Init => WInv
  <1> SUFFICES ASSUME Init PROVE WInv
    OBVIOUS
  <1> USE TimesType, PostsBound
  <1>1. TypeOK
    BY DEF Init, TypeOK, Statuses, Phases
  <1>2. \A j \in Jobs : phase[j] \in {"none", "queued"}
    BY DEF Init
  <1>3. OneJobPerRow
    BY <1>2 DEF Init, OneJobPerRow, Live
  <1>4. JobIsNear /\ JobIsDue /\ PostsAreRecorded
    BY <1>2 DEF Init, JobIsNear, JobIsDue, PostsAreRecorded, Live
  <1>5. QED
    BY <1>1, <1>3, <1>4 DEF WInv, Init

\* A row with a live job is not stranded.
LEMMA LiveIsNotStranded ==
  ASSUME WInv, Punctual, Stranded, NEW j \in Jobs
  PROVE  ~Live(j)
  BY TimesType DEF WInv, Punctual, Stranded, JobIsNear, Live, TypeOK

\* What a posting run writes is what the row holds, plus one attempt.
LEMMA TriedIsNext ==
  ASSUME WInv, NEW j \in Jobs, phase[j] = "sending"
  PROVE  /\ Tried(j) = attempts + 1 /\ Tried(j) \in 1..MaxAttempts
         /\ loaded[j].status = "pending" /\ status = "pending"
  BY TimesType, PostsBound DEF WInv, TypeOK, JobIsDue, Live, Tried, AtMost

\* A run's own steps.
LEMMA RunKeepsWInv ==
  ASSUME WInv, NEW j \in Jobs, Run(j)
  PROVE  WInv'
  <1> USE TimesType, PostsBound
  <1>1. CASE Start(j)
    <2>1. status = "pending" /\ Live(j) /\ \A k \in Jobs : phase[k] # "sending"
      BY <1>1 DEF Start, WInv, JobIsDue, OneJobPerRow, Live
    <2>2. /\ phase' = [phase EXCEPT ![j] = "sending"]
          /\ timer' = [timer EXCEPT ![j] = SendTime]
          /\ loaded' = [loaded EXCEPT ![j] = [status |-> status, attempts |-> attempts]]
          /\ posts' = attempts + 1 /\ attempts < MaxAttempts
          /\ UNCHANGED <<status, attempts, silent, sweepIn, faults>>
      BY <1>1, <2>1 DEF Start, WInv, TypeOK, PostsAreRecorded, JobIsDue, AtMost, rowVars
    <2>3. TypeOK'
      <3>1. posts' \in 0..MaxPosts
        BY <2>2 DEF WInv, TypeOK
      <3>2. loaded' \in [Jobs -> [status : Statuses, attempts : 0..MaxPosts]]
        BY <2>2 DEF WInv, TypeOK
      <3>3. phase' \in [Jobs -> Phases] /\ timer' \in [Jobs -> Int]
        BY <2>2 DEF WInv, TypeOK, Phases
      <3>4. QED
        BY <2>2, <3>1, <3>2, <3>3 DEF WInv, TypeOK
    <2>4. OneJobPerRow'
      BY <2>1, <2>2 DEF WInv, TypeOK, OneJobPerRow, Live
    <2>5. JobIsNear'
      BY <1>1, <2>2 DEF Start, WInv, TypeOK, JobIsNear
    <2>6. JobIsDue'
      BY <2>1, <2>2 DEF WInv, TypeOK, JobIsDue, Live
    <2>7. PostsAreRecorded'
      BY <2>2 DEF WInv, TypeOK, PostsAreRecorded
    <2>8. QED
      BY <2>2, <2>3, <2>4, <2>5, <2>6, <2>7 DEF WInv
  <1>2. CASE SendOk(j) \/ SendExhausted(j)
    <2>1. phase[j] = "sending" /\ \A k \in Jobs : Live(k) => k = j
      BY <1>2 DEF SendOk, SendExhausted, WInv, OneJobPerRow, Live
    <2>2. /\ phase' = [phase EXCEPT ![j] = "closing"]
          /\ attempts' = attempts + 1 /\ attempts' \in 1..MaxAttempts
          /\ status' \in {"delivered", "failed"}
          /\ UNCHANGED <<silent, timer, loaded, sweepIn, posts, faults>>
      BY <1>2, <2>1, TriedIsNext DEF SendOk, SendExhausted, WriteStatus
    <2>3. \A k \in Jobs : ~Live(k)'
      BY <2>1, <2>2 DEF WInv, TypeOK, Live
    <2>4. TypeOK'
      BY <2>2 DEF WInv, TypeOK, Phases, Statuses
    <2>5. posts' = attempts'
      BY <2>1, <2>2 DEF WInv, TypeOK, PostsAreRecorded
    <2>6. QED
      BY <2>2, <2>3, <2>4, <2>5
      DEF WInv, OneJobPerRow, JobIsNear, JobIsDue, PostsAreRecorded, Live
  <1>3. CASE SendFails(j)
    <2>1. phase[j] = "sending" /\ \A k \in Jobs : Live(k) => k = j
      BY <1>3 DEF SendFails, WInv, OneJobPerRow, Live
    <2> DEFINE n == attempts + 1
    <2>2. n \in 1..MaxAttempts /\ n < MaxAttempts /\ Backoff[n] \in Nat
      BY <1>3, <2>1, TriedIsNext, BackoffType DEF SendFails
    <2>3. /\ phase' = [phase EXCEPT ![j] = "owed"]
          /\ timer' = [timer EXCEPT ![j] = Backoff[n]]
          /\ silent' = -Backoff[n] /\ attempts' = n /\ status' = "pending"
          /\ UNCHANGED <<loaded, sweepIn, posts, faults>>
      BY <1>3, <2>1, TriedIsNext DEF SendFails, WriteStatus
    <2>4. \A k \in Jobs : /\ Live(k)' => k = j
                          /\ phase'[k] # "sending"
      BY <2>1, <2>3 DEF WInv, TypeOK, Live
    <2>5. TypeOK'
      BY <2>2, <2>3 DEF WInv, TypeOK, Phases, Statuses
    <2>6. posts' = attempts'
      BY <2>1, <2>3 DEF WInv, TypeOK, PostsAreRecorded
    <2>7. JobIsNear'
      BY <2>2, <2>3, <2>4 DEF WInv, TypeOK, JobIsNear, Live
    <2>8. QED
      BY <2>2, <2>3, <2>4, <2>5, <2>6, <2>7
      DEF WInv, OneJobPerRow, JobIsDue, PostsAreRecorded, Live
  <1>4. CASE EnqueueRetry(j)
    <2>1. phase[j] = "owed" /\ \A k \in Jobs : Live(k) => k = j
      BY <1>4 DEF EnqueueRetry, WInv, OneJobPerRow, Live
    <2>2. PICK k \in Jobs :
            /\ phase[k] = "none"
            /\ phase' = [phase EXCEPT ![j] = "closing", ![k] = "queued"]
            /\ timer' = [timer EXCEPT ![k] = timer[j]]
      BY <1>4 DEF EnqueueRetry, Is
    <2>3. UNCHANGED <<status, attempts, silent, loaded, sweepIn, posts, faults>>
      BY <1>4 DEF EnqueueRetry, rowVars
    <2>4. \A i \in Jobs : /\ Live(i)' => i = k
                          /\ phase'[i] # "sending" /\ phase[i] # "sending"
      BY <2>1, <2>2 DEF WInv, TypeOK, Live
    <2>5. TypeOK'
      BY <2>2, <2>3 DEF WInv, TypeOK, Phases
    <2>6. phase'[k] = "queued" /\ timer'[k] = timer[j]
      BY <2>1, <2>2 DEF WInv, TypeOK
    <2>7. JobIsNear'
      BY <2>1, <2>3, <2>4, <2>6 DEF WInv, TypeOK, JobIsNear, Live
    <2>8. status = "pending" /\ attempts < MaxAttempts
      BY <2>1 DEF WInv, JobIsDue, Live
    <2>9. QED
      BY <2>3, <2>4, <2>5, <2>7, <2>8
      DEF WInv, OneJobPerRow, JobIsDue, PostsAreRecorded
  <1>5. CASE Close(j)
    BY <1>5
    DEF Close, rowVars, WInv, TypeOK, Phases, OneJobPerRow, JobIsNear, JobIsDue,
        PostsAreRecorded, Live
  <1>6. QED
    BY <1>1, <1>2, <1>3, <1>4, <1>5 DEF Run

LEMMA SweepInType == ASSUME sweepIn \in Int, SweepDone PROVE sweepIn' \in Int
  BY TimesType DEF SweepDone

LEMMA WNext == Punctual /\ WInv /\ [Next]_vars => WInv'
  <1> SUFFICES ASSUME Punctual, WInv, [Next]_vars PROVE WInv'
    OBVIOUS
  <1> USE TimesType
  <1>1. CASE Tick
    <2>1. /\ silent' = AtMost(silent + 1, Window)
          /\ timer' = [j \in Jobs |-> IF phase[j] = "none" THEN timer[j] ELSE timer[j] - 1]
          /\ sweepIn' = sweepIn - 1
          /\ UNCHANGED <<status, attempts, phase, loaded, posts, faults>>
          /\ \A j \in Jobs : /\ phase[j] \notin {"owed", "closing"}
                             /\ phase[j] = "queued" => timer[j] > -Latency
                             /\ phase[j] = "sending" => timer[j] > 0
      BY <1>1 DEF Tick, Is
    <2>2. silent' \in Int /\ silent' <= Window /\ silent' <= silent + 1
      BY <2>1 DEF WInv, TypeOK, AtMost
    <2>3. TypeOK'
      BY <2>1, <2>2 DEF WInv, TypeOK
    <2>4. JobIsNear'
      BY <2>1, <2>2 DEF WInv, TypeOK, JobIsNear
    <2>5. QED
      BY <2>1, <2>3, <2>4 DEF WInv, OneJobPerRow, JobIsDue, PostsAreRecorded, Live
  <1>2. CASE SweepFindsNothing \/ RedriveFails
    <2>1. UNCHANGED <<status, attempts, silent, phase, timer, loaded, posts>> /\ SweepDone
      BY <1>2 DEF SweepFindsNothing, RedriveFails, rowVars, jobVars
    <2>2. faults' \in 0..MaxFaults
      BY <1>2 DEF SweepFindsNothing, RedriveFails, FaultOccurs, WInv, TypeOK
    <2>3. TypeOK'
      BY <2>1, <2>2, SweepInType DEF WInv, TypeOK
    <2>4. QED
      BY <2>1, <2>3 DEF WInv, OneJobPerRow, JobIsNear, JobIsDue, PostsAreRecorded, Live
  <1>3. CASE Redrive
    <2>1. PICK k \in Jobs :
            /\ phase' = [phase EXCEPT ![k] = "queued"]
            /\ timer' = [timer EXCEPT ![k] = 0]
      BY <1>3 DEF Redrive, Is
    <2>2. /\ silent' = -Window /\ SweepDone
          /\ status = "pending" /\ attempts < MaxAttempts
          /\ UNCHANGED <<status, attempts, loaded, posts, faults>>
      BY <1>3 DEF Redrive, Stranded
    <2>3. \A i \in Jobs : ~Live(i)
      BY <1>3, LiveIsNotStranded DEF Redrive
    <2>4. \A i \in Jobs : /\ Live(i)' => i = k
                          /\ phase'[i] # "sending" /\ phase[i] # "sending"
      BY <2>1, <2>3 DEF WInv, TypeOK, Live
    <2>5. TypeOK'
      BY <2>1, <2>2, SweepInType DEF WInv, TypeOK, Phases
    <2>6. phase'[k] = "queued" /\ timer'[k] = 0
      BY <2>1 DEF WInv, TypeOK
    <2>7. JobIsNear'
      BY <2>2, <2>4, <2>6 DEF JobIsNear, Live
    <2>8. QED
      BY <2>2, <2>4, <2>5, <2>7 DEF WInv, OneJobPerRow, JobIsDue, PostsAreRecorded
  <1>4. ASSUME NEW j \in Jobs, EnqueueLost(j) PROVE WInv'
    <2>1. /\ phase[j] = "owed" /\ phase' = [phase EXCEPT ![j] = "none"]
          /\ UNCHANGED <<status, attempts, silent, timer, loaded, sweepIn, posts>>
          /\ faults' \in 0..MaxFaults
      BY <1>4 DEF EnqueueLost, FaultOccurs, rowVars, WInv, TypeOK
    <2>2. TypeOK'
      BY <2>1 DEF WInv, TypeOK, Phases
    <2>3. QED
      BY <2>1, <2>2
      DEF WInv, TypeOK, OneJobPerRow, JobIsNear, JobIsDue, PostsAreRecorded, Live
  <1>5. ~RedriveDies /\ \A j \in Jobs : ~RunRaises(j) /\ ~WorkerCrash(j)
    BY DEF Punctual, RedriveDies, RunRaises, WorkerCrash, FaultOccurs
  <1>6. CASE UNCHANGED vars
    BY <1>6
    DEF vars, WInv, TypeOK, OneJobPerRow, JobIsNear, JobIsDue, PostsAreRecorded, Live
  <1>7. QED
    BY <1>1, <1>2, <1>3, <1>4, <1>5, <1>6, RunKeepsWInv DEF Next, Sweep

\* The constants' condition is carried along as a part of the invariant.
TimedInv == Punctual /\ WInv

LEMMA TimedNext == TimedInv /\ [Next]_vars => TimedInv'
  BY WNext DEF TimedInv, Punctual

LEMMA TimedAlways == Punctual /\ Spec => []TimedInv
  <1>1. Punctual /\ Init => TimedInv
    BY WInit DEF TimedInv
  <1>2. QED
    BY <1>1, TimedNext, PTL DEF Spec

\* The sweep never adds a job to one that is still under way, whatever the
\* backoff is and however often an enqueue is lost.
THEOREM SweepDoesNotRace == Punctual /\ Spec => []OneJobPerRow
  <1>1. TimedInv => OneJobPerRow
    BY DEF TimedInv, WInv
  <1>2. QED
    BY TimedAlways, <1>1, PTL

\* The receiver sees at most MAX_ATTEMPTS posts of one event.
THEOREM RetryIsBounded == Punctual /\ Spec => []PostsAreBounded
  <1>1. TimedInv => PostsAreBounded
    BY TimesType DEF TimedInv, WInv, TypeOK, PostsAreRecorded, JobIsDue, PostsAreBounded, Live
  <1>2. QED
    BY TimedAlways, <1>1, PTL

\* A delivered webhook is neither overwritten nor posted again.
THEOREM DeliveredStays == Punctual /\ Spec => DeliveredIsFinal
  <1>1. TimedInv /\ [Next]_vars
          => [status = "delivered" => status' = "delivered" /\ posts' = posts]_vars
    <2> SUFFICES ASSUME TimedInv, Next, status = "delivered"
                 PROVE status' = "delivered" /\ posts' = posts
      OBVIOUS
    <2>1. \A j \in Jobs : ~Live(j)
      BY DEF TimedInv, WInv, JobIsDue
    <2>2. ASSUME NEW j \in Jobs,
                 Run(j) \/ EnqueueLost(j) \/ RunRaises(j) \/ WorkerCrash(j)
          PROVE status' = "delivered" /\ posts' = posts
      BY <2>1, <2>2
      DEF Run, Start, SendOk, SendExhausted, SendFails, EnqueueRetry, Close, EnqueueLost,
          RunRaises, WorkerCrash, rowVars, Live
    <2>3. QED
      BY <2>2
      DEF Next, Tick, Sweep, SweepFindsNothing, Redrive, RedriveFails, RedriveDies,
          Stranded, rowVars
  <1>2. QED
    BY <1>1, TimedAlways, PTL DEF Spec, DeliveredIsFinal

-----------------------------------------------------------------------------
(* Jobs per fault, whatever dies                                            *)

LiveJobs == {j \in Jobs : Live(j)}

\* A job that will have answered for the row before a window of silence is over: it
\* starts no later than the row is due, or it posts in time.
OnTime(j) ==
    \/ phase[j] \in {"queued", "owed"} /\ silent + timer[j] <= 0
    \/ phase[j] = "sending" /\ silent + timer[j] <= Latency + SendTime

Answered == \E j \in Jobs : OnTime(j)

\* No job waits longer than Latency, no POST is longer than SendTime, and a run that
\* has yet to enqueue the retry lets no time pass.
NothingWaits ==
    \A j \in Jobs :
        /\ phase[j] = "queued" => timer[j] >= -Latency
        /\ phase[j] \in {"owed", "sending"} => timer[j] >= 0

\* Every fault is good for one job; the one more that there may be is on time, so that
\* the sweep, which adds one to a row that nobody answers for, finds it missing.
ChainInv ==
    /\ TypeOK /\ NothingWaits
    /\ Cardinality(LiveJobs) <= 1 + faults
    /\ Cardinality(LiveJobs) <= faults \/ Answered

LEMMA LiveCount ==
  /\ IsFiniteSet(LiveJobs) /\ Cardinality(LiveJobs) \in Nat
  /\ IsFiniteSet(LiveJobs') /\ Cardinality(LiveJobs)' \in Nat
<1>1. LiveJobs \subseteq Jobs /\ LiveJobs' \subseteq Jobs
  BY DEF LiveJobs
<1>2. IsFiniteSet(LiveJobs) /\ IsFiniteSet(LiveJobs')
  BY <1>1, TimesType, FS_Subset
<1>3. Cardinality(LiveJobs) \in Nat /\ Cardinality(LiveJobs') \in Nat
  BY <1>2, FS_CardinalityType
<1> QED BY <1>2, <1>3

LEMMA OneMore ==
  ASSUME NEW j \in Jobs, LiveJobs' \subseteq LiveJobs \cup {j}
  PROVE  Cardinality(LiveJobs)' <= Cardinality(LiveJobs) + 1
<1>1. /\ IsFiniteSet(LiveJobs \cup {j})
      /\ Cardinality(LiveJobs \cup {j}) =
            IF j \in LiveJobs THEN Cardinality(LiveJobs) ELSE Cardinality(LiveJobs) + 1
  BY LiveCount, FS_AddElement
<1>2. Cardinality(LiveJobs') <= Cardinality(LiveJobs \cup {j})
  BY <1>1, FS_Subset
<1> QED BY <1>1, <1>2, LiveCount

LEMMA NoMore ==
  ASSUME LiveJobs' \subseteq LiveJobs
  PROVE  Cardinality(LiveJobs)' <= Cardinality(LiveJobs)
BY LiveCount, FS_Subset

LEMMA OneLess ==
  ASSUME NEW j \in LiveJobs, LiveJobs' \subseteq LiveJobs \ {j}
  PROVE  Cardinality(LiveJobs)' + 1 <= Cardinality(LiveJobs)
<1>1. /\ IsFiniteSet(LiveJobs \ {j})
      /\ Cardinality(LiveJobs \ {j}) = Cardinality(LiveJobs) - 1
  BY LiveCount, FS_RemoveElement
<1>2. Cardinality(LiveJobs') <= Cardinality(LiveJobs \ {j})
  BY <1>1, FS_Subset
<1> QED BY <1>1, <1>2, LiveCount

LEMMA OneForAnother ==
  ASSUME NEW j \in LiveJobs, NEW k \in Jobs, LiveJobs' \subseteq (LiveJobs \ {j}) \cup {k}
  PROVE  Cardinality(LiveJobs)' <= Cardinality(LiveJobs)
<1>1. /\ IsFiniteSet(LiveJobs \ {j})
      /\ Cardinality(LiveJobs \ {j}) = Cardinality(LiveJobs) - 1
  BY LiveCount, FS_RemoveElement
<1>2. PICK S : S = LiveJobs \ {j}
  OBVIOUS
<1>3. Cardinality(S) \in Nat
  BY <1>1, <1>2, FS_CardinalityType
<1>4. /\ IsFiniteSet(S \cup {k})
      /\ Cardinality(S \cup {k}) = IF k \in S THEN Cardinality(S) ELSE Cardinality(S) + 1
  BY <1>1, <1>2, FS_AddElement
<1>5. Cardinality(LiveJobs') <= Cardinality(S \cup {k})
  BY <1>2, <1>4, FS_Subset
<1> QED BY <1>1, <1>2, <1>3, <1>4, <1>5, LiveCount

\* A row with a job on time is not stranded.
LEMMA OnTimeIsNotStranded ==
  ASSUME ChainInv, Latency + SendTime < Window, Stranded, NEW j \in Jobs
  PROVE  ~ OnTime(j)
BY TimesType DEF ChainInv, NothingWaits, TypeOK, Stranded, OnTime

\* A job on time stays on time while it waits, is taken and is handed over.
LEMMA AnswerStays ==
  ASSUME TypeOK, NothingWaits, Answered,
         \/ Tick \/ SweepFindsNothing \/ RedriveFails \/ RedriveDies \/ UNCHANGED vars
         \/ \E j \in Jobs : \/ Start(j) /\ status # "delivered"
                            \/ EnqueueRetry(j) \/ Close(j)
                            \/ WorkerCrash(j) /\ phase[j] = "closing"
  PROVE  Answered'
<1> USE TimesType
<1>1. PICK i \in Jobs : OnTime(i)
  BY DEF Answered
<1>2. /\ TypeOK /\ NothingWaits
      /\ silent \in Int /\ \A j \in Jobs : timer[j] \in Int
  BY DEF TypeOK
<1>3. CASE Tick
  <2>1. /\ phase[i] # "none" => timer'[i] = timer[i] - 1
        /\ phase' = phase /\ silent' = AtMost(silent + 1, Window)
    BY <1>2, <1>3 DEF Tick, TypeOK
  <2>2. /\ timer[i] \in Int /\ timer'[i] = timer[i] - 1
        /\ silent \in Int /\ silent' \in Int /\ silent' <= silent + 1
    BY <1>1, <1>2, <2>1 DEF OnTime, AtMost
  <2>3. silent' + timer'[i] <= silent + timer[i]
    BY <2>2
  <2>4. PICK now, late \in Int :
          now = silent + timer[i] /\ late = silent' + timer'[i] /\ late <= now
    BY <2>2, <2>3
  <2>5. OnTime(i)'
    BY <1>1, <2>1, <2>4 DEF OnTime
  <2> QED BY <2>5 DEF Answered
<1>4. CASE SweepFindsNothing \/ RedriveFails \/ UNCHANGED vars
  <2>1. UNCHANGED <<silent, phase, timer>>
    BY <1>4 DEF SweepFindsNothing, RedriveFails, rowVars, jobVars, vars
  <2> QED BY <1>1, <2>1 DEF OnTime, Answered
<1>5. CASE RedriveDies
  <2>1. PICK k \in Jobs :
          /\ phase[k] = "none" /\ phase' = [phase EXCEPT ![k] = "queued"]
          /\ timer' = [timer EXCEPT ![k] = 0] /\ silent' = silent
    BY <1>5 DEF RedriveDies, Is, rowVars
  <2>2. i # k
    BY <1>1, <2>1 DEF OnTime
  <2> QED BY <1>1, <1>2, <2>1, <2>2 DEF OnTime, Answered, TypeOK
<1>6. ASSUME NEW j \in Jobs, Start(j), status # "delivered" PROVE Answered'
  <2>1. /\ phase[j] = "queued" /\ phase' = [phase EXCEPT ![j] = "sending"]
        /\ timer' = [timer EXCEPT ![j] = SendTime] /\ silent' = silent
    BY <1>6 DEF Start, rowVars
  <2>2. timer[j] >= -Latency
    BY <1>2, <2>1 DEF NothingWaits
  <2>3. CASE i = j
    <3>1. silent + timer[i] <= 0
      BY <1>1, <2>1, <2>3 DEF OnTime
    <3>2. phase'[i] = "sending" /\ timer'[i] = SendTime
      BY <1>2, <2>1, <2>3 DEF TypeOK
    <3> QED BY <1>2, <2>1, <2>2, <2>3, <3>1, <3>2 DEF OnTime, Answered
  <2>4. CASE i # j
    BY <1>1, <1>2, <2>1, <2>4 DEF OnTime, Answered, TypeOK
  <2> QED BY <2>3, <2>4
<1>7. ASSUME NEW j \in Jobs, EnqueueRetry(j) PROVE Answered'
  <2>1. PICK k \in Jobs :
          /\ phase[j] = "owed" /\ phase[k] = "none"
          /\ phase' = [phase EXCEPT ![j] = "closing", ![k] = "queued"]
          /\ timer' = [timer EXCEPT ![k] = timer[j]] /\ silent' = silent
    BY <1>7 DEF EnqueueRetry, Is, rowVars
  <2>2. CASE i = j
    BY <1>1, <1>2, <2>1, <2>2 DEF OnTime, Answered, TypeOK
  <2>3. CASE i # j
    <3>1. i # k
      BY <1>1, <2>1 DEF OnTime
    <3> QED BY <1>1, <1>2, <2>1, <2>3, <3>1 DEF OnTime, Answered, TypeOK
  <2> QED BY <2>2, <2>3
<1>8. ASSUME NEW j \in Jobs, Close(j) \/ (WorkerCrash(j) /\ phase[j] = "closing") PROVE Answered'
  <2>1. PICK new \in {"none", "queued"} :
          /\ phase[j] = "closing" /\ phase' = [phase EXCEPT ![j] = new]
          /\ silent' = silent
    BY <1>8 DEF Close, WorkerCrash, rowVars
  <2>2. \A h \in Jobs : h # j => timer'[h] = timer[h]
    BY <1>2, <1>8 DEF Close, WorkerCrash, TypeOK
  <2>3. i # j
    BY <1>1, <2>1 DEF OnTime
  <2> QED BY <1>1, <1>2, <2>1, <2>2, <2>3 DEF OnTime, Answered, TypeOK
<1> QED BY <1>3, <1>4, <1>5, <1>6, <1>7, <1>8

LEMMA ChainInit == Init => ChainInv
<1> SUFFICES ASSUME Init PROVE ChainInv
  OBVIOUS
<1>1. TypeOK
  BY TimesType, PostsBound DEF Init, TypeOK, Statuses, Phases
<1>2. NothingWaits
  BY TimesType DEF Init, NothingWaits
<1>3. CASE LiveJobs = {}
  <2>1. Cardinality(LiveJobs) = 0
    BY <1>3, FS_EmptySet
  <2> QED BY <1>1, <1>2, <2>1 DEF ChainInv, Init
<1>4. CASE LiveJobs # {}
  <2>1. PICK j \in Jobs : Live(j)
    BY <1>4 DEF LiveJobs
  <2>2. LiveJobs = {j}
    BY <2>1 DEF Init, LiveJobs, Live
  <2>3. Cardinality(LiveJobs) = 1
    BY <2>2, FS_Singleton
  <2>4. OnTime(j)
    BY <2>1 DEF Init, OnTime, Live
  <2> QED BY <1>1, <1>2, <2>3, <2>4 DEF ChainInv, Init, Answered
<1> QED BY <1>3, <1>4

\* A run's own steps: one that fails a POST puts itself on time, and one that ends
\* takes its job away.
LEMMA RunKeepsChains ==
  ASSUME ChainInv, NEW j \in Jobs, Run(j)
  PROVE  /\ NothingWaits'
         /\ Cardinality(LiveJobs)' <= 1 + faults
         /\ Cardinality(LiveJobs)' <= faults \/ Answered'
         /\ faults' = faults
<1> USE TimesType
<1>1. /\ TypeOK /\ NothingWaits /\ faults \in Nat
      /\ Cardinality(LiveJobs) <= 1 + faults
      /\ Cardinality(LiveJobs) <= faults \/ Answered
      /\ Cardinality(LiveJobs) \in Nat /\ Cardinality(LiveJobs)' \in Nat
  BY LiveCount DEF ChainInv, TypeOK
<1>2. CASE Start(j) /\ status = "delivered"
  <2>1. /\ phase[j] = "queued" /\ phase' = [phase EXCEPT ![j] = "none"]
        /\ UNCHANGED <<silent, timer, faults>>
    BY <1>2 DEF Start, rowVars
  <2>2. j \in LiveJobs /\ LiveJobs' \subseteq LiveJobs \ {j}
    BY <1>1, <2>1 DEF TypeOK, LiveJobs, Live
  <2>3. NothingWaits'
    BY <1>1, <2>1 DEF TypeOK, NothingWaits
  <2> QED BY <1>1, <2>1, <2>2, <2>3, OneLess
<1>3. CASE Start(j) /\ status # "delivered"
  <2>1. /\ phase[j] = "queued" /\ phase' = [phase EXCEPT ![j] = "sending"]
        /\ timer' = [timer EXCEPT ![j] = SendTime]
        /\ UNCHANGED <<silent, faults>>
    BY <1>3 DEF Start, rowVars
  <2>2. LiveJobs' \subseteq LiveJobs
    BY <1>1, <2>1 DEF TypeOK, LiveJobs, Live
  <2>3. NothingWaits'
    BY <1>1, <2>1 DEF TypeOK, NothingWaits
  <2>4. Answered => Answered'
    BY <1>1, <1>3, AnswerStays
  <2> QED BY <1>1, <2>1, <2>2, <2>3, <2>4, NoMore
<1>4. CASE SendOk(j) \/ SendExhausted(j)
  <2>1. /\ phase[j] = "sending" /\ phase' = [phase EXCEPT ![j] = "closing"]
        /\ UNCHANGED <<silent, timer, faults>>
    BY <1>4 DEF SendOk, SendExhausted
  <2>2. j \in LiveJobs /\ LiveJobs' \subseteq LiveJobs \ {j}
    BY <1>1, <2>1 DEF TypeOK, LiveJobs, Live
  <2>3. NothingWaits'
    BY <1>1, <2>1 DEF TypeOK, NothingWaits
  <2> QED BY <1>1, <2>1, <2>2, <2>3, OneLess
<1>5. CASE SendFails(j)
  <2>1. PICK wait \in Nat : wait = Backoff[Tried(j)]
    BY <1>1, <1>5, TriedType DEF SendFails
  <2>2. /\ phase[j] = "sending" /\ phase' = [phase EXCEPT ![j] = "owed"]
        /\ timer' = [timer EXCEPT ![j] = wait] /\ silent' = -wait
        /\ faults' = faults
    BY <1>5, <2>1 DEF SendFails
  <2>3. LiveJobs' \subseteq LiveJobs
    BY <1>1, <2>2 DEF TypeOK, LiveJobs, Live
  <2>4. NothingWaits'
    BY <1>1, <2>2 DEF TypeOK, NothingWaits
  <2>5. Answered'
    BY <1>1, <2>2 DEF TypeOK, OnTime, Answered
  <2> QED BY <1>1, <2>2, <2>3, <2>4, <2>5, NoMore
<1>6. CASE EnqueueRetry(j)
  <2>1. PICK k \in Jobs :
          /\ phase[j] = "owed" /\ phase[k] = "none"
          /\ phase' = [phase EXCEPT ![j] = "closing", ![k] = "queued"]
          /\ timer' = [timer EXCEPT ![k] = timer[j]]
          /\ UNCHANGED <<silent, faults>>
    BY <1>6 DEF EnqueueRetry, Is, rowVars
  <2>2. j \in LiveJobs /\ LiveJobs' \subseteq (LiveJobs \ {j}) \cup {k}
    BY <1>1, <2>1 DEF TypeOK, LiveJobs, Live
  <2>3. NothingWaits'
    BY <1>1, <2>1 DEF TypeOK, NothingWaits
  <2>4. Answered => Answered'
    BY <1>1, <1>6, AnswerStays
  <2> QED BY <1>1, <2>1, <2>2, <2>3, <2>4, OneForAnother
<1>7. CASE Close(j)
  <2>1. /\ phase[j] = "closing" /\ phase' = [phase EXCEPT ![j] = "none"]
        /\ UNCHANGED <<silent, timer, faults>>
    BY <1>7 DEF Close, rowVars
  <2>2. LiveJobs' \subseteq LiveJobs
    BY <1>1, <2>1 DEF TypeOK, LiveJobs, Live
  <2>3. NothingWaits'
    BY <1>1, <2>1 DEF TypeOK, NothingWaits
  <2>4. Answered => Answered'
    BY <1>1, <1>7, AnswerStays
  <2> QED BY <1>1, <2>1, <2>2, <2>3, <2>4, NoMore
<1> QED BY <1>2, <1>3, <1>4, <1>5, <1>6, <1>7 DEF Run

LEMMA ChainNext == Latency + SendTime < Window /\ ChainInv /\ [Next]_vars => ChainInv'
<1> SUFFICES ASSUME Latency + SendTime < Window, ChainInv, [Next]_vars PROVE ChainInv'
  OBVIOUS
<1> USE TimesType
<1>0. TypeOK /\ TypeOK'
  BY TypeStep DEF ChainInv
<1>1. /\ TypeOK /\ TypeOK' /\ NothingWaits /\ faults \in Nat
      /\ Cardinality(LiveJobs) <= 1 + faults
      /\ Cardinality(LiveJobs) <= faults \/ Answered
      /\ Cardinality(LiveJobs) \in Nat /\ Cardinality(LiveJobs)' \in Nat
  <2>1. faults \in Nat
    BY <1>0 DEF TypeOK
  <2> QED BY <1>0, <2>1, LiveCount DEF ChainInv
<1>2. ASSUME NEW j \in Jobs, Run(j) PROVE ChainInv'
  BY <1>1, <1>2, RunKeepsChains DEF ChainInv
<1>3. CASE Tick
  <2>1. /\ silent' = AtMost(silent + 1, Window)
        /\ timer' = [j \in Jobs |-> IF phase[j] = "none" THEN timer[j] ELSE timer[j] - 1]
        /\ UNCHANGED <<phase, faults>>
        /\ \A j \in Jobs : /\ phase[j] \notin {"owed", "closing"}
                           /\ phase[j] = "queued" => timer[j] > -Latency
                           /\ phase[j] = "sending" => timer[j] > 0
    BY <1>3 DEF Tick, Is
  <2>2. \A k \in Jobs : /\ timer[k] \in Int
                        /\ phase[k] # "none" => timer'[k] = timer[k] - 1
    BY <1>1, <2>1 DEF TypeOK
  <2>3. NothingWaits'
    BY <2>1, <2>2 DEF NothingWaits
  <2>4. Answered => Answered'
    BY <1>1, <1>3, AnswerStays
  <2>5. LiveJobs' = LiveJobs
    BY <2>1 DEF LiveJobs, Live
  <2> QED BY <1>1, <2>1, <2>3, <2>4, <2>5 DEF ChainInv
<1>4. CASE SweepFindsNothing \/ RedriveFails
  <2>1. UNCHANGED <<phase, timer>> /\ faults' \in {faults, faults + 1}
    BY <1>4 DEF SweepFindsNothing, RedriveFails, FaultOccurs, jobVars
  <2>2. NothingWaits' /\ LiveJobs' = LiveJobs
    BY <1>1, <2>1 DEF NothingWaits, LiveJobs, Live
  <2>3. Answered => Answered'
    BY <1>1, <1>4, AnswerStays
  <2> QED BY <1>1, <2>1, <2>2, <2>3 DEF ChainInv
<1>5. CASE Redrive \/ RedriveDies
  <2>1. PICK k \in Jobs :
          /\ phase' = [phase EXCEPT ![k] = "queued"] /\ timer' = [timer EXCEPT ![k] = 0]
    BY <1>5 DEF Redrive, RedriveDies, Is
  <2>2. \/ silent' = -Window /\ faults' = faults
        \/ faults' = faults + 1
    BY <1>5 DEF Redrive, RedriveDies, FaultOccurs
  <2>3. Cardinality(LiveJobs) <= faults
    BY <1>1, <1>5, OnTimeIsNotStranded DEF Redrive, RedriveDies, Answered
  <2>4. LiveJobs' \subseteq LiveJobs \cup {k}
    BY <1>1, <2>1 DEF TypeOK, LiveJobs, Live
  <2>5. Cardinality(LiveJobs)' <= Cardinality(LiveJobs) + 1
    BY <2>4, OneMore
  <2>6. NothingWaits'
    BY <1>1, <2>1 DEF TypeOK, NothingWaits
  <2>7. silent' = -Window => Answered'
    BY <1>1, <2>1 DEF TypeOK, OnTime, Answered
  <2> QED BY <1>1, <2>2, <2>3, <2>5, <2>6, <2>7 DEF ChainInv
<1>6. ASSUME NEW j \in Jobs, EnqueueLost(j) \/ RunRaises(j) PROVE ChainInv'
  <2>1. /\ phase[j] \in {"owed", "sending"} /\ phase' = [phase EXCEPT ![j] = "none"]
        /\ UNCHANGED <<silent, timer>> /\ faults' = faults + 1
    BY <1>6 DEF EnqueueLost, RunRaises, FaultOccurs, rowVars
  <2>2. LiveJobs' \subseteq LiveJobs
    BY <1>1, <2>1 DEF TypeOK, LiveJobs, Live
  <2>3. NothingWaits'
    BY <1>1, <2>1 DEF TypeOK, NothingWaits
  <2> QED BY <1>1, <2>1, <2>2, <2>3, NoMore DEF ChainInv
<1>7. ASSUME NEW j \in Jobs, WorkerCrash(j) PROVE ChainInv'
  <2>1. PICK wait \in Nat : timer' = [timer EXCEPT ![j] = wait]
    BY <1>7 DEF WorkerCrash
  <2>2. /\ phase[j] \in {"sending", "owed", "closing"}
        /\ phase' = [phase EXCEPT ![j] = "queued"]
        /\ silent' = silent /\ faults' = faults + 1
    BY <1>7 DEF WorkerCrash, FaultOccurs, rowVars
  <2>3. NothingWaits'
    <3>1. /\ phase'[j] = "queued" /\ timer'[j] = wait
          /\ \A i \in Jobs : i # j => phase'[i] = phase[i] /\ timer'[i] = timer[i]
      BY <1>0, <2>1, <2>2 DEF TypeOK
    <3> QED BY <1>1, <3>1 DEF NothingWaits
  <2>4. CASE phase[j] # "closing"
    <3>1. LiveJobs' \subseteq LiveJobs
      BY <1>1, <2>2, <2>4 DEF TypeOK, LiveJobs, Live
    <3> QED BY <1>1, <2>2, <2>3, <3>1, NoMore DEF ChainInv
  <2>5. CASE phase[j] = "closing"
    <3>1. Cardinality(LiveJobs)' <= Cardinality(LiveJobs) + 1
      <4>1. LiveJobs' \subseteq LiveJobs \cup {j}
        BY <1>1, <2>2 DEF TypeOK, LiveJobs, Live
      <4> QED BY <4>1, OneMore
    <3>2. Answered => Answered'
      BY <1>1, <1>7, <2>5, AnswerStays
    <3> QED BY <1>1, <2>2, <2>3, <3>1, <3>2 DEF ChainInv
  <2> QED BY <2>4, <2>5
<1>8. CASE UNCHANGED vars
  <2>1. UNCHANGED <<phase, timer, faults>>
    BY <1>8 DEF vars
  <2>2. NothingWaits' /\ LiveJobs' = LiveJobs
    BY <1>1, <2>1 DEF NothingWaits, LiveJobs, Live
  <2>3. Answered => Answered'
    BY <1>1, <1>8, AnswerStays
  <2> QED BY <1>1, <2>1, <2>2, <2>3 DEF ChainInv
<1> QED
  BY <1>2, <1>3, <1>4, <1>5, <1>6, <1>7, <1>8 DEF Next, Sweep

\* webhook_redrive.py:17-19: however many processes die, and wherever, a row has at most
\* one job more than there were faults, as long as a due job waits less than the window.
\* No assumption relates the redelivery of a dead worker's job to the window.
THEOREM FaultsAreTheOnlySource ==
  Latency + SendTime < Window /\ Spec => []FaultsAddOneJob
<1> DEFINE Served == Latency + SendTime < Window
<1>1. Served /\ Init => Served /\ ChainInv
  BY ChainInit
<1>2. Served /\ ChainInv /\ [Next]_vars => (Served /\ ChainInv)'
  BY ChainNext
<1>3. Served /\ ChainInv => FaultsAddOneJob
  BY DEF ChainInv, FaultsAddOneJob, LiveJobs
<1> QED BY <1>1, <1>2, <1>3, PTL DEF Spec

-----------------------------------------------------------------------------
(* Posts per fault                                                           *)

\* What the deployment has besides: a POST ends before the shortest retry is due.
PostsAreShort == \A n \in 1..MaxAttempts - 1 : SendTime < Backoff[n]

\* A run in flight takes the row back to what it read plus one, whatever the row holds
\* by then.  The row may be found with v attempts or fewer before all runs have ended ...
MayBeFound(v) ==
    \/ v >= attempts
    \/ \E i \in Jobs : phase[i] = "sending" /\ v >= loaded[i].attempts

\* ... and by a job that starts when its timer has run out: a POST that ends before that
\* has been counted.
MayFind(j, v) ==
    \/ v >= attempts
    \/ \E i \in Jobs : /\ phase[i] = "sending"
                       /\ \/ v > loaded[i].attempts
                          \/ v >= loaded[i].attempts /\ timer[i] >= timer[j]

\* Job j has yet to make its POST number v (it makes the last one in any case); one that
\* posts has made that one, and is not owed it again.
Owes(j, v) ==
    \/ phase[j] \in {"queued", "owed"} /\ (v = MaxAttempts - 1 \/ MayFind(j, v))
    \/ phase[j] = "sending" /\ v < MaxAttempts - 1 /\ MayBeFound(v)

Due == {p \in Jobs \X (0..MaxAttempts - 1) : Owes(p[1], p[2])}

\* The sweep will start one more chain: the row has attempts left and nobody who is on
\* time answers for it.
Forsaken ==
    status = "pending" /\ attempts < MaxAttempts /\ \A j \in Jobs : ~OnTime(j)

Debt == IF Forsaken THEN MaxAttempts ELSE 0

Allowance(f) == MaxAttempts * (1 + f) + f

\* Every fault pays for one POST that is made again and for one chain; what was posted
\* and what is still owed stays within that.
PostsInv ==
    /\ ChainInv
    /\ \A j \in Jobs : phase[j] = "sending" =>
           timer[j] <= SendTime /\ loaded[j].status # "delivered"
    /\ posts + Cardinality(Due) + Debt <= Allowance(faults)

LEMMA AllowanceGrows ==
  ASSUME NEW f \in Nat
  PROVE  Allowance(f) \in Nat /\ Allowance(f + 1) = Allowance(f) + MaxAttempts + 1
<1>1. \A m, n \in Nat : m * (1 + n) \in Nat /\ m * (1 + (n + 1)) = m * (1 + n) + m
  OBVIOUS
<1>2. MaxAttempts \in Nat /\ f + 1 \in Nat
  BY TimesType
<1>3. PICK k \in Nat : k = MaxAttempts * (1 + f) /\ MaxAttempts * (1 + (f + 1)) = k + MaxAttempts
  BY <1>1, <1>2
<1> QED BY <1>2, <1>3 DEF Allowance

-----------------------------------------------------------------------------
(* How much Due grows or shrinks                                             *)

LEMMA DueElements ==
  /\ \A p \in Due : p[1] \in Jobs /\ p[2] \in 0..MaxAttempts - 1 /\ p = <<p[1], p[2]>>
  /\ \A p \in Due' : p[1] \in Jobs /\ p[2] \in 0..MaxAttempts - 1 /\ p = <<p[1], p[2]>>
  /\ \A j \in Jobs, v \in 0..MaxAttempts - 1 :
        (<<j, v>> \in Due <=> Owes(j, v)) /\ (<<j, v>> \in Due' <=> Owes(j, v)')
BY DEF Due

LEMMA DueCount ==
  /\ IsFiniteSet(Due) /\ Cardinality(Due) \in Nat
  /\ IsFiniteSet(Due') /\ Cardinality(Due)' \in Nat
<1>1. IsFiniteSet(0..MaxAttempts - 1)
  BY FS_Interval, TimesType
<1>2. IsFiniteSet(Jobs \X (0..MaxAttempts - 1))
  BY <1>1, FS_Product, TimesType
<1>3. Due \in SUBSET (Jobs \X (0..MaxAttempts - 1)) /\ Due' \in SUBSET (Jobs \X (0..MaxAttempts - 1))
  BY DEF Due
<1>4. IsFiniteSet(Due) /\ IsFiniteSet(Due')
  BY <1>2, <1>3, FS_Subset
<1> QED BY <1>4, FS_CardinalityType

LEMMA DueShrinks ==
  ASSUME \A j \in Jobs, v \in 0..MaxAttempts - 1 : Owes(j, v)' => Owes(j, v)
  PROVE  Cardinality(Due)' <= Cardinality(Due)
<1>1. Due' \in SUBSET Due
  BY DueElements
<1> QED BY <1>1, DueCount, FS_Subset

LEMMA DueLosesOne ==
  ASSUME NEW k \in Jobs, Owes(k, MaxAttempts - 1),
         \A j \in Jobs, v \in 0..MaxAttempts - 1 :
            Owes(j, v)' => Owes(j, v) /\ ~ (j = k /\ v = MaxAttempts - 1)
  PROVE  Cardinality(Due)' + 1 <= Cardinality(Due)
<1>1. PICK last \in 0..MaxAttempts - 1 : last = MaxAttempts - 1
  BY TimesType
<1>2. <<k, last>> \in Due
  BY <1>1, DueElements
<1>3. Due' \in SUBSET (Due \ {<<k, last>>})
  BY <1>1, DueElements
<1>4. IsFiniteSet(Due \ {<<k, last>>}) /\ Cardinality(Due \ {<<k, last>>}) = Cardinality(Due) - 1
  BY <1>2, DueCount, FS_RemoveElement
<1>5. Cardinality(Due') <= Cardinality(Due \ {<<k, last>>})
  BY <1>3, <1>4, FS_Subset
<1> QED BY <1>4, <1>5, DueCount

LEMMA DueGainsOne ==
  ASSUME NEW k \in Jobs,
         \A j \in Jobs, v \in 0..MaxAttempts - 1 :
            Owes(j, v)' => Owes(j, v) \/ (j = k /\ v = MaxAttempts - 1)
  PROVE  Cardinality(Due)' <= Cardinality(Due) + 1
<1>1. PICK last \in 0..MaxAttempts - 1 : last = MaxAttempts - 1
  BY TimesType
<1>2. Due' \in SUBSET (Due \cup {<<k, last>>})
  BY <1>1, DueElements
<1>3. /\ IsFiniteSet(Due \cup {<<k, last>>})
      /\ Cardinality(Due \cup {<<k, last>>}) =
           IF <<k, last>> \in Due THEN Cardinality(Due) ELSE Cardinality(Due) + 1
  BY DueCount, FS_AddElement
<1>4. Cardinality(Due') <= Cardinality(Due \cup {<<k, last>>})
  BY <1>2, <1>3, FS_Subset
<1> QED BY <1>3, <1>4, DueCount

LEMMA ChainSize ==
  ASSUME NEW k \in Jobs
  PROVE  /\ IsFiniteSet({k} \X (0..MaxAttempts - 1))
         /\ Cardinality({k} \X (0..MaxAttempts - 1)) = MaxAttempts
<1>1. IsFiniteSet({k}) /\ Cardinality({k}) = 1
  BY FS_Singleton
<1>2. IsFiniteSet(0..MaxAttempts - 1) /\ Cardinality(0..MaxAttempts - 1) = MaxAttempts
  <2>1. PICK last \in Nat : last = MaxAttempts - 1 /\ last + 1 = MaxAttempts
    BY TimesType
  <2>2. IsFiniteSet(0..last) /\ Cardinality(0..last) = last + 1
    <3>1. /\ IsFiniteSet(0..last)
          /\ Cardinality(0..last) = IF 0 > last THEN 0 ELSE last - 0 + 1
      BY <2>1, FS_Interval
    <3> QED BY <2>1, <3>1
  <2> QED BY <2>1, <2>2
<1>3. PICK K, N : K = {k} /\ N = 0..MaxAttempts - 1
  OBVIOUS
<1>4. IsFiniteSet(K \X N) /\ Cardinality(K \X N) = 1 * MaxAttempts
  <2>1. /\ IsFiniteSet(K) /\ Cardinality(K) = 1
        /\ IsFiniteSet(N) /\ Cardinality(N) = MaxAttempts
    BY <1>1, <1>2, <1>3
  <2>2. IsFiniteSet(K \X N) /\ Cardinality(K \X N) = Cardinality(K) * Cardinality(N)
    BY <2>1, FS_Product
  <2> QED BY <2>1, <2>2
<1>5. 1 * MaxAttempts = MaxAttempts
  BY TimesType
<1> QED BY <1>3, <1>4, <1>5

LEMMA DueGainsChain ==
  ASSUME NEW k \in Jobs,
         \A j \in Jobs, v \in 0..MaxAttempts - 1 : Owes(j, v)' => Owes(j, v) \/ j = k
  PROVE  Cardinality(Due)' <= Cardinality(Due) + MaxAttempts
<1>1. PICK C : C = {k} \X (0..MaxAttempts - 1)
  OBVIOUS
<1>2. IsFiniteSet(C) /\ Cardinality(C) = MaxAttempts
  BY <1>1, ChainSize
<1>3. Due' \in SUBSET (Due \cup C)
  BY <1>1, DueElements
<1>4. PICK both \in Nat : /\ IsFiniteSet(Due \cup C)
                          /\ Cardinality(Due \cup C) = Cardinality(Due) + Cardinality(C) - both
  <2>1. IsFiniteSet(Due \cap C)
    BY <1>2, DueCount, FS_Intersection
  <2>2. Cardinality(Due \cap C) \in Nat
    BY <2>1, FS_CardinalityType
  <2> QED BY <1>2, <2>2, DueCount, FS_Union
<1>5. Cardinality(Due') <= Cardinality(Due \cup C)
  BY <1>3, <1>4, FS_Subset
<1> QED BY <1>2, <1>4, <1>5, DueCount, TimesType

\* The POSTs that job k owes are counted one by one against those it owed before.
LEMMA DueStepsDown ==
  ASSUME NEW k \in Jobs,
         \A j \in Jobs, v \in 0..MaxAttempts - 1 :
            Owes(j, v)' => /\ j # k => Owes(j, v)
                           /\ j = k => v # 0 /\ Owes(j, v - 1)
  PROVE  Cardinality(Due)' <= Cardinality(Due)
<1> DEFINE f == [p \in Due' |-> IF p[1] = k THEN <<k, p[2] - 1>> ELSE p]
<1>1. f \in [Due' -> Due]
  <2> SUFFICES ASSUME NEW p \in Due' PROVE (IF p[1] = k THEN <<k, p[2] - 1>> ELSE p) \in Due
    OBVIOUS
  <2>1. PICK j \in Jobs, v \in 0..MaxAttempts - 1 : p = <<j, v>> /\ Owes(j, v)'
    BY DueElements
  <2>2. CASE j = k
    <3>1. PICK u \in 0..MaxAttempts - 1 : u = v - 1
      BY <2>1, <2>2, TimesType
    <3>2. <<k, u>> \in Due
      BY <2>1, <2>2, <3>1, DueElements
    <3> QED BY <2>1, <2>2, <3>1, <3>2
  <2>3. CASE j # k
    BY <2>1, <2>3, DueElements
  <2> QED BY <2>2, <2>3
<1>2. ASSUME NEW p \in Due', NEW q \in Due', f[p] = f[q] PROVE p = q
  <2>1. PICK j \in Jobs, v \in 0..MaxAttempts - 1 : p = <<j, v>>
    BY DueElements
  <2>2. PICK i \in Jobs, u \in 0..MaxAttempts - 1 : q = <<i, u>>
    BY DueElements
  <2>3. f[p] = (IF j = k THEN <<k, v - 1>> ELSE p) /\ f[q] = (IF i = k THEN <<k, u - 1>> ELSE q)
    BY <2>1, <2>2
  <2> HIDE DEF f
  <2> QED BY <1>2, <2>1, <2>2, <2>3, TimesType
<1> HIDE DEF f
<1>3. f \in Injection(Due', Due)
  BY <1>1, <1>2 DEF Injection, IsInjective
<1> QED BY <1>3, DueCount, FS_Injection

LEMMA DueStepsUp ==
  ASSUME NEW k \in Jobs,
         \A j \in Jobs, v \in 0..MaxAttempts - 1 :
            Owes(j, v)' => /\ j # k => Owes(j, v)
                           /\ j = k => v = MaxAttempts - 1 \/ Owes(j, v + 1)
  PROVE  Cardinality(Due)' <= Cardinality(Due) + 1
<1>0. PICK last \in 0..MaxAttempts - 1 : last = MaxAttempts - 1
  BY TimesType
<1> DEFINE S == Due' \ {<<k, last>>}
           f == [p \in S |-> IF p[1] = k THEN <<k, p[2] + 1>> ELSE p]
<1>1. f \in [S -> Due]
  <2> SUFFICES ASSUME NEW p \in S PROVE (IF p[1] = k THEN <<k, p[2] + 1>> ELSE p) \in Due
    OBVIOUS
  <2>1. PICK j \in Jobs, v \in 0..MaxAttempts - 1 : p = <<j, v>> /\ Owes(j, v)'
    BY DueElements
  <2>2. CASE j = k
    <3>0. v # last
      BY <2>1, <2>2
    <3>1. PICK u \in 0..MaxAttempts - 1 : u = v + 1
      BY <1>0, <3>0, TimesType
    <3>2. <<k, u>> \in Due
      BY <1>0, <2>1, <2>2, <3>0, <3>1, DueElements
    <3> QED BY <2>1, <2>2, <3>1, <3>2
  <2>3. CASE j # k
    BY <2>1, <2>3, DueElements
  <2> QED BY <2>2, <2>3
<1>2. ASSUME NEW p \in S, NEW q \in S, f[p] = f[q] PROVE p = q
  <2>1. PICK j \in Jobs, v \in 0..MaxAttempts - 1 : p = <<j, v>>
    BY DueElements
  <2>2. PICK i \in Jobs, u \in 0..MaxAttempts - 1 : q = <<i, u>>
    BY DueElements
  <2>3. f[p] = (IF j = k THEN <<k, v + 1>> ELSE p) /\ f[q] = (IF i = k THEN <<k, u + 1>> ELSE q)
    BY <2>1, <2>2
  <2> HIDE DEF f, S
  <2> QED BY <1>2, <2>1, <2>2, <2>3, TimesType
<1> HIDE DEF f
<1>3. f \in Injection(S, Due)
  BY <1>1, <1>2 DEF Injection, IsInjective
<1>4. Cardinality(S) <= Cardinality(Due)
  BY <1>3, DueCount, FS_Injection
<1>5. IsFiniteSet(S) /\ Cardinality(S) >= Cardinality(Due') - 1
  <2>1. Cardinality(S) = IF <<k, last>> \in Due' THEN Cardinality(Due') - 1 ELSE Cardinality(Due')
    BY DueCount, FS_RemoveElement
  <2>2. IsFiniteSet(S)
    BY DueCount, FS_RemoveElement
  <2> QED BY <2>1, <2>2, DueCount
<1>6. Cardinality(S) \in Nat
  BY <1>5, FS_CardinalityType
<1> HIDE DEF S
<1> QED BY <1>4, <1>5, <1>6, DueCount

\* The retry that k carries is the one that j owed.
LEMMA DueIsHandedOver ==
  ASSUME NEW j \in Jobs, NEW k \in Jobs, 
         \A i \in Jobs, v \in 0..MaxAttempts - 1 :
            Owes(i, v)' => /\ i # j
                           /\ i # k => Owes(i, v)
                           /\ i = k => Owes(j, v)
  PROVE  Cardinality(Due)' <= Cardinality(Due)
<1> DEFINE f == [p \in Due' |-> IF p[1] = k THEN <<j, p[2]>> ELSE p]
<1>1. f \in [Due' -> Due]
  <2> SUFFICES ASSUME NEW p \in Due' PROVE (IF p[1] = k THEN <<j, p[2]>> ELSE p) \in Due
    OBVIOUS
  <2>1. PICK i \in Jobs, v \in 0..MaxAttempts - 1 : p = <<i, v>> /\ Owes(i, v)'
    BY DueElements
  <2> QED BY <2>1, DueElements
<1>2. ASSUME NEW p \in Due', NEW q \in Due', f[p] = f[q] PROVE p = q
  <2>1. PICK i \in Jobs, v \in 0..MaxAttempts - 1 : p = <<i, v>> /\ i # j
    BY DueElements
  <2>2. PICK h \in Jobs, u \in 0..MaxAttempts - 1 : q = <<h, u>> /\ h # j
    BY DueElements
  <2>3. f[p] = (IF i = k THEN <<j, v>> ELSE p) /\ f[q] = (IF h = k THEN <<j, u>> ELSE q)
    BY <2>1, <2>2
  <2> HIDE DEF f
  <2> QED BY <1>2, <2>1, <2>2, <2>3
<1> HIDE DEF f
<1>3. f \in Injection(Due', Due)
  BY <1>1, <1>2 DEF Injection, IsInjective
<1> QED BY <1>3, DueCount, FS_Injection

\* What the steps below use of the invariant.
LEMMA PostsFacts ==
  ASSUME PostsInv
  PROVE  /\ TypeOK /\ NothingWaits
         /\ \A j \in Jobs : phase[j] = "sending" =>
              timer[j] <= SendTime /\ loaded[j].status # "delivered"
         /\ attempts \in Nat /\ faults \in Nat /\ posts \in Nat
         /\ \A j \in Jobs : loaded[j].attempts \in Nat /\ timer[j] \in Int
         /\ MaxAttempts \in Nat /\ MaxAttempts >= 1
BY PostsBound, TimesType DEF PostsInv, ChainInv, TypeOK

LEMMA DebtBound ==
  /\ Debt \in {0, MaxAttempts} /\ Debt' \in {0, MaxAttempts}
  /\ (Forsaken' => Forsaken) => Debt' <= Debt
BY TimesType DEF Debt

LEMMA AnsweredIsNotForsaken ==
  /\ (Answered => Answered') /\ status' = status /\ attempts' = attempts => Debt' <= Debt
  /\ Answered' => Debt' = 0
  /\ (status' # "pending" \/ attempts' >= MaxAttempts) /\ attempts' \in Nat => Debt' = 0
<1>1. Forsaken <=> status = "pending" /\ attempts < MaxAttempts /\ ~Answered
  BY DEF Forsaken, Answered
<1>2. Forsaken' <=> status' = "pending" /\ attempts' < MaxAttempts /\ ~Answered'
  BY DEF Forsaken, Answered
<1>3. (Answered => Answered') /\ status' = status /\ attempts' = attempts => (Forsaken' => Forsaken)
  BY <1>1, <1>2
<1>4. Answered' => ~Forsaken'
  BY <1>2
<1>5. (status' # "pending" \/ attempts' >= MaxAttempts) /\ attempts' \in Nat => ~Forsaken'
  BY <1>2, TimesType
<1> QED BY <1>3, <1>4, <1>5, DebtBound DEF Debt

-----------------------------------------------------------------------------
(* Steps of a run                                                            *)

LEMMA StartSpends ==
  ASSUME PostsInv, NEW j \in Jobs, Start(j)
  PROVE  posts' + Cardinality(Due)' + Debt' <= posts + Cardinality(Due) + Debt
<1>0. /\ TypeOK /\ NothingWaits
      /\ attempts \in Nat /\ posts \in Nat /\ MaxAttempts \in Nat /\ MaxAttempts >= 1
      /\ \A i \in Jobs : loaded[i].attempts \in Nat /\ timer[i] \in Int
  BY PostsFacts
<1>1. CASE status = "delivered"
  <2>1. /\ phase' = [phase EXCEPT ![j] = "none"] /\ phase[j] = "queued"
        /\ UNCHANGED <<timer, loaded, posts, status, attempts>>
    BY <1>1 DEF Start, rowVars
  <2>2. \A i \in Jobs, v \in 0..MaxAttempts - 1 : Owes(i, v)' => Owes(i, v)
    BY <1>0, <2>1 DEF Owes, MayFind, MayBeFound, TypeOK
  <2>3. Debt' = 0
    BY <1>0, <1>1, <2>1, AnsweredIsNotForsaken
  <2> QED BY <1>0, <2>1, <2>2, <2>3, DueShrinks, DueCount, DebtBound
<1>2. CASE status # "delivered"
  <2>1. /\ phase[j] = "queued" /\ timer[j] <= 0
        /\ phase' = [phase EXCEPT ![j] = "sending"]
        /\ timer' = [timer EXCEPT ![j] = SendTime]
        /\ loaded' = [loaded EXCEPT ![j] = [status |-> status, attempts |-> attempts]]
        /\ posts' = AtMost(posts + 1, MaxPosts)
        /\ UNCHANGED <<status, attempts>>
    BY <1>2 DEF Start, rowVars
  <2>2. /\ phase'[j] = "sending" /\ loaded'[j].attempts = attempts
        /\ \A i \in Jobs : i # j => /\ phase'[i] = phase[i] /\ timer'[i] = timer[i]
                                    /\ loaded'[i] = loaded[i]
    BY <1>0, <2>1 DEF TypeOK
  <2>3. posts' <= posts + 1 /\ posts' \in Nat
    BY <1>0, <2>1, PostsBound DEF AtMost
  <2>4. Owes(j, MaxAttempts - 1)
    BY <2>1 DEF Owes
  <2>5. ASSUME NEW i \in Jobs, NEW v \in 0..MaxAttempts - 1, Owes(i, v)'
        PROVE  Owes(i, v) /\ ~ (i = j /\ v = MaxAttempts - 1)
    <3>1. v \in Nat
      OBVIOUS
    <3>2. MayBeFound(v)' => MayBeFound(v)
      BY <1>0, <2>1, <2>2, <3>1 DEF MayBeFound
    <3>3. MayBeFound(v) => MayFind(j, v)
      <4>1. \A k \in Jobs : phase[k] = "sending" => timer[k] >= timer[j]
        BY <1>0, <2>1 DEF NothingWaits
      <4> QED BY <4>1 DEF MayBeFound, MayFind
    <3>4. CASE i = j
      BY <2>1, <2>2, <2>5, <3>2, <3>3, <3>4 DEF Owes
    <3>5. CASE i # j
      <4>1. MayFind(i, v)' => MayFind(i, v)
        BY <1>0, <2>1, <2>2, <3>1, <3>5 DEF MayFind
      <4> QED BY <2>2, <2>5, <3>2, <3>5, <4>1 DEF Owes
    <3> QED BY <3>4, <3>5
  <2>6. Cardinality(Due)' + 1 <= Cardinality(Due)
    BY <2>4, <2>5, DueLosesOne
  <2>7. Debt' <= Debt
    BY <1>2, <2>1, PostsFacts, AnswerStays, AnsweredIsNotForsaken
  <2> QED BY <1>0, <2>3, <2>6, <2>7, DueCount, DebtBound
<1> QED BY <1>1, <1>2

\* A run that has its answer frees what it owed; what it wrote takes nobody further back
\* than it was known to.
LEMMA EndFrees ==
  ASSUME PostsInv, NEW j \in Jobs, SendOk(j) \/ SendExhausted(j)
  PROVE  posts' + Cardinality(Due)' + Debt' <= posts + Cardinality(Due) + Debt
<1>0. /\ TypeOK /\ posts \in Nat /\ MaxAttempts \in Nat /\ MaxAttempts >= 1
      /\ loaded[j].status # "delivered" \/ phase[j] # "sending"
      /\ \A i \in Jobs : loaded[i].attempts \in Nat /\ timer[i] \in Int
  BY PostsFacts
<1>1. /\ phase[j] = "sending" /\ phase' = [phase EXCEPT ![j] = "closing"]
      /\ attempts' = Tried(j) /\ UNCHANGED <<timer, loaded, posts>>
  BY DEF SendOk, SendExhausted
<1>2. Debt' = 0
  <2>1. SendOk(j) => status' = "delivered"
    BY <1>0, <1>1 DEF SendOk, WriteStatus
  <2>2. SendExhausted(j) => attempts' >= MaxAttempts
    BY <1>1 DEF SendExhausted
  <2>3. attempts' \in Nat
    BY <1>0, <1>1, TriedType, PostsBound
  <2> QED BY <2>1, <2>2, <2>3, AnsweredIsNotForsaken
<1>3. ASSUME NEW i \in Jobs, NEW v \in 0..MaxAttempts - 1, Owes(i, v)' PROVE Owes(i, v)
  <2>1. v >= attempts' => v > loaded[j].attempts
    BY <1>0, <1>1, PostsBound DEF Tried, AtMost
  <2>2. \A k \in Jobs : k # j => phase'[k] = phase[k]
    BY <1>0, <1>1 DEF TypeOK
  <2>3. phase'[j] = "closing"
    BY <1>0, <1>1 DEF TypeOK
  <2>4. v >= loaded[j].attempts \/ ~ (v > loaded[j].attempts)
    BY <1>0
  <2>5. MayBeFound(v)' => MayBeFound(v)
    BY <1>1, <2>1, <2>2, <2>3, <2>4 DEF MayBeFound
  <2>6. MayFind(i, v)' => MayFind(i, v)
    BY <1>1, <2>1, <2>2, <2>3 DEF MayFind
  <2> QED BY <1>3, <2>2, <2>3, <2>5, <2>6 DEF Owes
<1> QED BY <1>0, <1>1, <1>2, <1>3, DueShrinks, DueCount, DebtBound

\* A failed POST: no POST in flight outlasts the wait for the retry, so each that the job
\* still owes is one that it owed already, one attempt earlier.
LEMMA FailureIsCounted ==
  ASSUME PostsInv, PostsAreShort, NEW j \in Jobs, SendFails(j)
  PROVE  posts' + Cardinality(Due)' + Debt' <= posts + Cardinality(Due) + Debt
<1>0. /\ TypeOK /\ posts \in Nat /\ MaxAttempts \in Nat /\ MaxAttempts >= 1
      /\ \A i \in Jobs : loaded[i].attempts \in Nat /\ timer[i] \in Int
      /\ \A i \in Jobs : phase[i] = "sending" => timer[i] <= SendTime
  BY PostsFacts
<1>1. PICK wait \in Nat : wait = Backoff[Tried(j)]
  BY <1>0, TriedType DEF SendFails
<1>2. /\ phase[j] = "sending" /\ phase' = [phase EXCEPT ![j] = "owed"]
      /\ timer' = [timer EXCEPT ![j] = wait] /\ silent' = -wait
      /\ attempts' = Tried(j) /\ Tried(j) < MaxAttempts
      /\ UNCHANGED <<loaded, posts>>
  BY <1>1 DEF SendFails
<1>3. attempts' = loaded[j].attempts + 1
  BY <1>0, <1>2, PostsBound DEF Tried, AtMost
<1>4. SendTime < wait
  BY <1>0, <1>1, <1>2, TriedType DEF PostsAreShort
<1>5. /\ phase'[j] = "owed" /\ timer'[j] = wait
      /\ \A i \in Jobs : i # j => phase'[i] = phase[i] /\ timer'[i] = timer[i]
  BY <1>0, <1>2 DEF TypeOK
<1>6. Debt' = 0
  <2>1. OnTime(j)'
    BY <1>2, <1>5 DEF OnTime
  <2> QED BY <2>1, AnsweredIsNotForsaken DEF Answered
<1>7. ASSUME NEW i \in Jobs, NEW v \in 0..MaxAttempts - 1, Owes(i, v)'
      PROVE  /\ i # j => Owes(i, v)
             /\ i = j => v # 0 /\ Owes(i, v - 1)
  <2>0. v \in Nat /\ v < MaxAttempts
    BY <1>0
  <2>1. CASE i # j
    <3>1. MayBeFound(v)' => MayBeFound(v)
      BY <1>0, <1>2, <1>3, <1>5, <2>0 DEF MayBeFound
    <3>2. MayFind(i, v)' => MayFind(i, v)
      BY <1>0, <1>2, <1>3, <1>5, <2>0, <2>1 DEF MayFind
    <3> QED BY <1>5, <1>7, <2>1, <3>1, <3>2 DEF Owes
  <2>2. CASE i = j
    <3>1. v = MaxAttempts - 1 \/ MayFind(j, v)'
      BY <1>5, <1>7, <2>2 DEF Owes
    <3>2. PICK k \in Jobs : phase[k] = "sending" /\ v > loaded[k].attempts
      <4>1. CASE v >= attempts' \/ v = MaxAttempts - 1
        BY <1>0, <1>2, <1>3, <2>0, <4>1
      <4>2. CASE ~ (v >= attempts' \/ v = MaxAttempts - 1)
        <5>1. PICK k \in Jobs : /\ phase'[k] = "sending"
                                /\ v > loaded'[k].attempts
                                   \/ (v >= loaded'[k].attempts /\ timer'[k] >= timer'[j])
          BY <3>1, <4>2 DEF MayFind
        <5>2. k # j /\ phase[k] = "sending" /\ timer'[k] <= SendTime /\ loaded'[k] = loaded[k]
          BY <1>0, <1>2, <1>5, <5>1
        <5>3. timer'[k] \in Int /\ ~ (timer'[k] >= timer'[j])
          BY <1>0, <1>4, <1>5, <5>2, TimesType
        <5> QED BY <5>1, <5>2, <5>3
      <4> QED BY <4>1, <4>2
    <3>3. PICK u \in Nat : u = v - 1 /\ u < MaxAttempts - 1 /\ u >= loaded[k].attempts
      BY <1>0, <2>0, <3>2
    <3>4. Owes(j, u)
      BY <1>2, <3>2, <3>3 DEF Owes, MayBeFound
    <3>5. v # 0
      BY <1>0, <2>0, <3>2
    <3> QED BY <2>2, <3>3, <3>4, <3>5
  <2> QED BY <2>1, <2>2
<1>8. Cardinality(Due)' <= Cardinality(Due)
  BY <1>7, DueStepsDown
<1> QED BY <1>0, <1>2, <1>6, <1>8, DueCount, DebtBound

LEMMA HandingOverIsFree ==
  ASSUME PostsInv, NEW j \in Jobs, EnqueueRetry(j)
  PROVE  posts' + Cardinality(Due)' + Debt' <= posts + Cardinality(Due) + Debt
<1>0. /\ TypeOK /\ posts \in Nat /\ MaxAttempts \in Nat
      /\ \A i \in Jobs : loaded[i].attempts \in Nat /\ timer[i] \in Int
  BY PostsFacts
<1>1. PICK k \in Jobs :
        /\ phase[j] = "owed" /\ phase[k] = "none"
        /\ phase' = [phase EXCEPT ![j] = "closing", ![k] = "queued"]
        /\ timer' = [timer EXCEPT ![k] = timer[j]]
        /\ UNCHANGED <<status, attempts, loaded, posts>>
  BY DEF EnqueueRetry, Is, rowVars
<1>2. /\ phase'[j] = "closing" /\ phase'[k] = "queued" /\ timer'[k] = timer[j]
      /\ \A i \in Jobs : i # j /\ i # k => phase'[i] = phase[i] /\ timer'[i] = timer[i]
  BY <1>0, <1>1 DEF TypeOK
<1>3. ASSUME NEW i \in Jobs, NEW v \in 0..MaxAttempts - 1, Owes(i, v)'
      PROVE  /\ i # j
             /\ i # k => Owes(i, v)
             /\ i = k => Owes(j, v)
  <2>1. i # j
    BY <1>2, <1>3 DEF Owes
  <2>2. \A h \in Jobs : phase'[h] = "sending" => phase[h] = "sending" /\ timer'[h] = timer[h]
    BY <1>2
  <2>3. MayBeFound(v)' => MayBeFound(v)
    BY <1>1, <2>2 DEF MayBeFound
  <2>4. CASE i = k
    <3>1. MayFind(k, v)' => MayFind(j, v)
      BY <1>1, <1>2, <2>2 DEF MayFind
    <3> QED BY <1>1, <1>2, <1>3, <2>1, <2>4, <3>1 DEF Owes
  <2>5. CASE i # k
    <3>1. MayFind(i, v)' => MayFind(i, v)
      BY <1>1, <1>2, <2>1, <2>2, <2>5 DEF MayFind
    <3> QED BY <1>2, <1>3, <2>1, <2>3, <2>5, <3>1 DEF Owes
  <2> QED BY <2>4, <2>5
<1>4. Cardinality(Due)' <= Cardinality(Due)
  BY <1>1, <1>3, DueIsHandedOver
<1>5. Debt' <= Debt
  BY <1>1, PostsFacts, AnswerStays, AnsweredIsNotForsaken
<1> QED BY <1>0, <1>1, <1>4, <1>5, DueCount, DebtBound

\* Of the job that leaves its phase, and may leave POSTs unmade, nobody else owes more.
LEMMA OthersOweNoMore ==
  ASSUME PostsInv, NEW j \in Jobs, NEW new \in {"none", "queued"},
         phase' = [phase EXCEPT ![j] = new],
         \A i \in Jobs : i # j => timer'[i] = timer[i],
         UNCHANGED <<attempts, loaded>>
  PROVE  \A i \in Jobs, v \in 0..MaxAttempts - 1 :
            /\ MayBeFound(v)' => MayBeFound(v)
            /\ i # j /\ Owes(i, v)' => Owes(i, v)
<1>1. /\ phase'[j] \in {"none", "queued"}
      /\ \A i \in Jobs : i # j => phase'[i] = phase[i]
  BY PostsFacts DEF TypeOK
<1>2. ASSUME NEW v \in 0..MaxAttempts - 1 PROVE MayBeFound(v)' => MayBeFound(v)
  BY <1>1 DEF MayBeFound
<1>3. ASSUME NEW i \in Jobs, NEW v \in 0..MaxAttempts - 1, i # j, Owes(i, v)' PROVE Owes(i, v)
  <2>1. MayFind(i, v)' => MayFind(i, v)
    BY <1>1, <1>3 DEF MayFind
  <2> QED BY <1>1, <1>2, <1>3, <2>1 DEF Owes
<1> QED BY <1>2, <1>3

LEMMA LossIsAFault ==
  ASSUME PostsInv, NEW j \in Jobs, Close(j) \/ EnqueueLost(j) \/ RunRaises(j)
  PROVE  /\ posts' = posts /\ Cardinality(Due)' <= Cardinality(Due)
         /\ Close(j) => Debt' <= Debt
<1>1. /\ phase' = [phase EXCEPT ![j] = "none"]
      /\ UNCHANGED <<status, attempts, timer, loaded, posts>>
  BY DEF Close, EnqueueLost, RunRaises, rowVars
<1>2. phase'[j] = "none"
  BY <1>1, PostsFacts DEF TypeOK
<1>3. ASSUME NEW i \in Jobs, NEW v \in 0..MaxAttempts - 1, Owes(i, v)' PROVE Owes(i, v)
  <2>1. i # j
    BY <1>2, <1>3 DEF Owes
  <2> QED BY <1>1, <1>3, <2>1, OthersOweNoMore
<1>4. Close(j) => Debt' <= Debt
  BY <1>1, PostsFacts, AnswerStays, AnsweredIsNotForsaken
<1> QED BY <1>1, <1>3, <1>4, DueShrinks

\* A death costs the POST that is made again, or one more chain; not both, unless the
\* row loses the only job that was on time.
LEMMA DeathIsAFault ==
  ASSUME PostsInv, NEW j \in Jobs, WorkerCrash(j)
  PROVE  posts' = posts /\ Cardinality(Due)' + Debt' <= Cardinality(Due) + Debt + MaxAttempts + 1
<1>0. /\ TypeOK /\ MaxAttempts \in Nat /\ attempts \in Nat
      /\ \A i \in Jobs : loaded[i].attempts \in Nat
  BY PostsFacts
<1>1. /\ phase[j] \in {"sending", "owed", "closing"}
      /\ phase' = [phase EXCEPT ![j] = "queued"]
      /\ \A i \in Jobs : i # j => timer'[i] = timer[i]
      /\ UNCHANGED <<status, attempts, loaded, posts>>
  BY <1>0 DEF WorkerCrash, rowVars, TypeOK
<1>2. /\ phase'[j] = "queued"
      /\ \A i \in Jobs : i # j => phase'[i] = phase[i]
  BY <1>0, <1>1 DEF TypeOK
<1>3. \A i \in Jobs, v \in 0..MaxAttempts - 1 :
        /\ MayBeFound(v)' => MayBeFound(v)
        /\ i # j /\ Owes(i, v)' => Owes(i, v)
  BY <1>1, OthersOweNoMore
<1>4. \A v \in 0..MaxAttempts - 1 : MayFind(j, v)' => MayBeFound(v)'
  BY <1>0, <1>1 DEF MayFind, MayBeFound
<1>5. CASE phase[j] = "closing"
  <2>1. Cardinality(Due)' <= Cardinality(Due) + MaxAttempts
    BY <1>3, DueGainsChain
  <2>2. Debt' <= Debt
    BY <1>1, <1>5, PostsFacts, AnswerStays, AnsweredIsNotForsaken
  <2> QED BY <1>0, <1>1, <2>1, <2>2, DueCount, DebtBound
<1>6. CASE phase[j] = "sending"
  <2>1. ASSUME NEW i \in Jobs, NEW v \in 0..MaxAttempts - 1, Owes(i, v)'
        PROVE  Owes(i, v) \/ (i = j /\ v = MaxAttempts - 1)
    <3>1. CASE i # j
      BY <1>3, <2>1, <3>1
    <3>2. CASE i = j /\ v # MaxAttempts - 1
      <4>1. MayBeFound(v)
        BY <1>2, <1>3, <1>4, <2>1, <3>2 DEF Owes
      <4>2. v < MaxAttempts - 1
        BY <1>0, <3>2
      <4> QED BY <1>6, <3>2, <4>1, <4>2 DEF Owes
    <3> QED BY <3>1, <3>2
  <2>2. Cardinality(Due)' <= Cardinality(Due) + 1
    BY <2>1, DueGainsOne
  <2> QED BY <1>0, <1>1, <2>2, DueCount, DebtBound
<1>7. CASE phase[j] = "owed"
  <2>1. ASSUME NEW i \in Jobs, NEW v \in 0..MaxAttempts - 1, Owes(i, v)'
        PROVE  /\ i # j => Owes(i, v)
               /\ i = j => v = MaxAttempts - 1 \/ Owes(j, v + 1)
    <3>1. CASE i # j
      BY <1>3, <2>1, <3>1
    <3>2. CASE i = j /\ v # MaxAttempts - 1
      <4>1. MayBeFound(v)
        BY <1>2, <1>3, <1>4, <2>1, <3>2 DEF Owes
      <4>2. PICK u \in Nat : u = v + 1
        OBVIOUS
      <4>3. MayFind(j, u)
        BY <1>0, <4>1, <4>2 DEF MayBeFound, MayFind
      <4> QED BY <1>7, <3>2, <4>2, <4>3 DEF Owes
    <3> QED BY <3>1, <3>2
  <2>2. Cardinality(Due)' <= Cardinality(Due) + 1
    BY <2>1, DueStepsUp
  <2> QED BY <1>0, <1>1, <2>2, DueCount, DebtBound
<1> QED BY <1>1, <1>5, <1>6, <1>7

-----------------------------------------------------------------------------
(* Steps of the clock and of the sweep                                       *)

LEMMA TimeIsFree ==
  ASSUME PostsInv, Tick \/ SweepFindsNothing \/ RedriveFails \/ UNCHANGED vars
  PROVE  posts' + Cardinality(Due)' + Debt' <= posts + Cardinality(Due) + Debt
<1>0. /\ TypeOK /\ posts \in Nat
      /\ \A i \in Jobs : timer[i] \in Int
  BY PostsFacts
<1>1. UNCHANGED <<status, attempts, phase, loaded, posts>>
  BY DEF Tick, SweepFindsNothing, RedriveFails, rowVars, jobVars, vars
<1>2. \A i, k \in Jobs : phase[i] # "none" /\ phase[k] # "none" =>
        (timer'[i] >= timer'[k] => timer[i] >= timer[k])
  <2>1. CASE Tick
    <3>1. \A i \in Jobs : phase[i] # "none" => timer'[i] = timer[i] - 1
      BY <1>0, <2>1 DEF Tick, TypeOK
    <3> QED BY <1>0, <3>1
  <2>2. CASE ~Tick
    BY <2>2 DEF SweepFindsNothing, RedriveFails, jobVars, vars
  <2> QED BY <2>1, <2>2
<1>3. ASSUME NEW i \in Jobs, NEW v \in 0..MaxAttempts - 1, Owes(i, v)' PROVE Owes(i, v)
  <2>1. MayBeFound(v)' => MayBeFound(v)
    BY <1>1 DEF MayBeFound
  <2>2. phase[i] # "none" /\ MayFind(i, v)' => MayFind(i, v)
    BY <1>1, <1>2 DEF MayFind
  <2> QED BY <1>1, <1>3, <2>1, <2>2 DEF Owes
<1>4. Debt' <= Debt
  BY <1>1, PostsFacts, AnswerStays, AnsweredIsNotForsaken
<1> QED BY <1>0, <1>1, <1>3, <1>4, DueShrinks, DueCount, DebtBound

\* A sweep that commits pays its chain with the debt; one that dies is a fault.
LEMMA RedrivePaysTheDebt ==
  ASSUME Latency + SendTime < Window, PostsInv, Redrive \/ RedriveDies
  PROVE  /\ posts' = posts
         /\ Redrive => Cardinality(Due)' + Debt' <= Cardinality(Due) + Debt
         /\ RedriveDies => Cardinality(Due)' + Debt' <= Cardinality(Due) + Debt + MaxAttempts
<1>0. TypeOK /\ MaxAttempts \in Nat
  BY PostsFacts
<1>1. PICK k \in Jobs :
        /\ phase[k] = "none" /\ phase' = [phase EXCEPT ![k] = "queued"]
        /\ timer' = [timer EXCEPT ![k] = 0]
        /\ UNCHANGED <<status, attempts, loaded, posts>>
  BY DEF Redrive, RedriveDies, Is, rowVars
<1>2. \A i \in Jobs : i # k => timer'[i] = timer[i]
  BY <1>0, <1>1 DEF TypeOK
<1>3. ASSUME NEW i \in Jobs, NEW v \in 0..MaxAttempts - 1, Owes(i, v)' PROVE Owes(i, v) \/ i = k
  BY <1>1, <1>2, <1>3, OthersOweNoMore
<1>4. Cardinality(Due)' <= Cardinality(Due) + MaxAttempts
  BY <1>3, DueGainsChain
<1>5. Redrive => Debt = MaxAttempts /\ Debt' = 0
  <2> SUFFICES ASSUME Redrive PROVE Debt = MaxAttempts /\ Debt' = 0
    OBVIOUS
  <2>1. Forsaken
    BY OnTimeIsNotStranded DEF Redrive, Forsaken, Stranded, PostsInv
  <2>2. silent' = -Window /\ phase'[k] = "queued" /\ timer'[k] = 0
    BY <1>0, <1>1 DEF Redrive, TypeOK
  <2>3. OnTime(k)'
    BY <2>2, TimesType DEF OnTime
  <2> QED BY <2>1, <2>3, AnsweredIsNotForsaken DEF Debt, Answered
<1>6. RedriveDies => Debt' <= Debt
  BY <1>1, PostsFacts, AnswerStays, AnsweredIsNotForsaken
<1> QED BY <1>0, <1>1, <1>4, <1>5, <1>6, DueCount, DebtBound

-----------------------------------------------------------------------------
LEMMA PostsInit == Init => PostsInv
<1> SUFFICES ASSUME Init PROVE PostsInv
  OBVIOUS
<1>1. ChainInv
  BY ChainInit
<1>2. posts = 0 /\ faults = 0 /\ \A j \in Jobs : phase[j] \in {"none", "queued"}
  BY DEF Init
<1>3. Allowance(faults) = MaxAttempts
  <2>1. \A m \in Nat : m * (1 + 0) + 0 = m
    OBVIOUS
  <2> QED BY <1>2, <2>1, TimesType DEF Allowance
<1>4. Cardinality(Due) + Debt <= MaxAttempts
  <2>1. CASE \A j \in Jobs : phase[j] = "none"
    <3>1. Due = {}
      BY <2>1, DueElements DEF Owes
    <3> QED BY <3>1, FS_EmptySet, DebtBound, TimesType
  <2>2. CASE \E j \in Jobs : phase[j] = "queued"
    <3>1. PICK j \in Jobs : phase[j] = "queued"
      BY <2>2
    <3>2. \A i \in Jobs : i # j => phase[i] = "none"
      BY <3>1 DEF Init
    <3>3. PICK C : C = {j} \X (0..MaxAttempts - 1) /\ IsFiniteSet(C) /\ Cardinality(C) = MaxAttempts
      BY ChainSize
    <3>4. Due \in SUBSET C
      BY <3>2, <3>3, DueElements DEF Owes
    <3>5. Cardinality(Due) <= MaxAttempts
      BY <3>3, <3>4, FS_Subset
    <3>6. OnTime(j)
      BY <3>1 DEF Init, OnTime
    <3>7. Debt = 0
      BY <3>6 DEF Debt, Forsaken
    <3> QED BY <3>5, <3>7, DueCount, TimesType
  <2> QED BY <1>2, <2>1, <2>2
<1> QED BY <1>1, <1>2, <1>3, <1>4, DueCount, DebtBound, TimesType DEF PostsInv

\* A POST in flight has not outlasted SendTime and is made for no delivered row.
LEMMA PostsInFlight ==
  ASSUME PostsInv, [Next]_vars, NEW j \in Jobs, phase'[j] = "sending"
  PROVE  timer'[j] <= SendTime /\ loaded'[j].status # "delivered"
<1>0. /\ TypeOK
      /\ phase[j] = "sending" => timer[j] <= SendTime /\ loaded[j].status # "delivered"
      /\ timer[j] \in Int /\ SendTime \in Nat
  BY PostsFacts, TimesType
<1>1. CASE Tick
  <2>1. phase[j] = "sending" /\ timer'[j] = timer[j] - 1 /\ loaded' = loaded
    BY <1>0, <1>1 DEF Tick, TypeOK
  <2> QED BY <1>0, <2>1
<1>2. CASE Sweep \/ RedriveFails \/ RedriveDies \/ UNCHANGED vars
  <2>1. phase[j] = "sending" /\ timer'[j] = timer[j] /\ loaded' = loaded
    BY <1>0, <1>2
    DEF Sweep, SweepFindsNothing, Redrive, RedriveFails, RedriveDies, Is, rowVars, jobVars,
        vars, TypeOK
  <2> QED BY <1>0, <2>1
<1>3. ASSUME NEW i \in Jobs, Start(i) PROVE timer'[j] <= SendTime /\ loaded'[j].status # "delivered"
  <2>1. CASE i # j \/ status = "delivered"
    <3>1. phase[j] = "sending" /\ timer'[j] = timer[j] /\ loaded'[j] = loaded[j]
      BY <1>0, <1>3, <2>1 DEF Start, TypeOK
    <3> QED BY <1>0, <3>1
  <2>2. CASE i = j /\ status # "delivered"
    <3>1. timer'[j] = SendTime /\ loaded'[j].status = status
      BY <1>0, <1>3, <2>2 DEF Start, TypeOK
    <3> QED BY <1>0, <2>2, <3>1
  <2> QED BY <2>1, <2>2
<1>4. ASSUME NEW i \in Jobs,
             \/ SendOk(i) \/ SendExhausted(i) \/ SendFails(i) \/ EnqueueRetry(i) \/ Close(i)
             \/ EnqueueLost(i) \/ RunRaises(i) \/ WorkerCrash(i)
      PROVE  timer'[j] <= SendTime /\ loaded'[j].status # "delivered"
  <2>1. phase[j] = "sending" /\ loaded' = loaded
    BY <1>0, <1>4
    DEF SendOk, SendExhausted, SendFails, EnqueueRetry, Close, EnqueueLost, RunRaises,
        WorkerCrash, Is, TypeOK
  <2>2. timer'[j] = timer[j]
    <3>1. CASE SendFails(i) \/ WorkerCrash(i)
      <4>1. PICK wait : timer' = [timer EXCEPT ![i] = wait]
        BY <3>1 DEF SendFails, WorkerCrash
      <4>2. phase'[i] # "sending"
        BY <1>0, <3>1 DEF SendFails, WorkerCrash, TypeOK
      <4> QED BY <1>0, <4>1, <4>2 DEF TypeOK
    <3>2. CASE EnqueueRetry(i)
      <4>1. PICK k \in Jobs : phase[k] = "none" /\ timer' = [timer EXCEPT ![k] = timer[i]]
        BY <3>2 DEF EnqueueRetry, Is
      <4> QED BY <1>0, <2>1, <4>1 DEF TypeOK
    <3>3. CASE ~ (SendFails(i) \/ WorkerCrash(i) \/ EnqueueRetry(i))
      BY <1>4, <3>3 DEF SendOk, SendExhausted, Close, EnqueueLost, RunRaises
    <3> QED BY <3>1, <3>2, <3>3
  <2> QED BY <1>0, <2>1, <2>2
<1> QED BY <1>1, <1>2, <1>3, <1>4 DEF Next, Run

LEMMA PostsNext ==
  ASSUME Latency + SendTime < Window, PostsAreShort, PostsInv, [Next]_vars
  PROVE  PostsInv'
<1>1. ChainInv'
  BY ChainNext DEF PostsInv
<1>2. \A j \in Jobs : phase'[j] = "sending" =>
        timer'[j] <= SendTime /\ loaded'[j].status # "delivered"
  BY PostsInFlight
<1>3. posts' + Cardinality(Due)' + Debt' <= Allowance(faults)'
  <2>1. /\ posts + Cardinality(Due) + Debt <= Allowance(faults)
        /\ faults \in Nat /\ posts \in Nat /\ MaxAttempts \in Nat
        /\ Cardinality(Due) \in Nat /\ Cardinality(Due)' \in Nat
        /\ Debt \in Nat /\ Debt' \in Nat /\ posts' \in Nat
    BY <1>1, PostsFacts, DueCount, DebtBound DEF PostsInv, ChainInv, TypeOK
  <2>2. PICK most \in Nat : most = Allowance(faults) /\ Allowance(faults + 1) = most + MaxAttempts + 1
    BY <2>1, AllowanceGrows
  <2>3. CASE /\ posts' + Cardinality(Due)' + Debt' <= posts + Cardinality(Due) + Debt
             /\ faults' \in {faults, faults + 1}
    BY <2>1, <2>2, <2>3
  <2>4. CASE /\ posts' = posts /\ faults' = faults + 1
             /\ Cardinality(Due)' + Debt' <= Cardinality(Due) + Debt + MaxAttempts + 1
    BY <2>1, <2>2, <2>4
  <2>5. CASE Tick \/ SweepFindsNothing \/ RedriveFails \/ UNCHANGED vars
    <3>1. faults' \in {faults, faults + 1}
      BY <2>5 DEF Tick, SweepFindsNothing, RedriveFails, FaultOccurs, vars
    <3> QED BY <2>3, <2>5, <3>1, TimeIsFree
  <2>6. CASE Redrive
    <3>1. posts' = posts /\ faults' = faults
      BY <2>6 DEF Redrive
    <3>2. Cardinality(Due)' + Debt' <= Cardinality(Due) + Debt
      BY <2>6, RedrivePaysTheDebt
    <3> QED BY <2>1, <2>3, <3>1, <3>2
  <2>7. CASE RedriveDies
    <3>1. posts' = posts /\ faults' = faults + 1
      BY <2>7 DEF RedriveDies, FaultOccurs
    <3>2. Cardinality(Due)' + Debt' <= Cardinality(Due) + Debt + MaxAttempts
      BY <2>7, RedrivePaysTheDebt
    <3> QED BY <2>1, <2>4, <3>1, <3>2
  <2>8. ASSUME NEW j \in Jobs, Run(j) PROVE posts' + Cardinality(Due)' + Debt' <= Allowance(faults)'
    <3>1. faults' = faults
      BY <2>8 DEF Run, Start, SendOk, SendExhausted, SendFails, EnqueueRetry, Close
    <3>2. posts' + Cardinality(Due)' + Debt' <= posts + Cardinality(Due) + Debt
      <4>1. CASE Close(j)
        BY <2>1, <4>1, LossIsAFault
      <4> QED BY <2>8, <4>1, StartSpends, EndFrees, FailureIsCounted, HandingOverIsFree DEF Run
    <3> QED BY <2>3, <3>1, <3>2
  <2>9. ASSUME NEW j \in Jobs, EnqueueLost(j) \/ RunRaises(j)
        PROVE  posts' + Cardinality(Due)' + Debt' <= Allowance(faults)'
    <3>1. faults' = faults + 1
      BY <2>9 DEF EnqueueLost, RunRaises, FaultOccurs
    <3>2. posts' = posts /\ Cardinality(Due)' <= Cardinality(Due)
      BY <2>9, LossIsAFault
    <3>3. Debt' <= MaxAttempts
      BY <2>1, DebtBound
    <3>4. Cardinality(Due)' + Debt' <= Cardinality(Due) + Debt + MaxAttempts + 1
      BY <2>1, <3>2, <3>3
    <3> QED BY <2>4, <3>1, <3>2, <3>4
  <2>10. ASSUME NEW j \in Jobs, WorkerCrash(j)
         PROVE  posts' + Cardinality(Due)' + Debt' <= Allowance(faults)'
    <3>1. faults' = faults + 1
      BY <2>10 DEF WorkerCrash, FaultOccurs
    <3>2. /\ posts' = posts
          /\ Cardinality(Due)' + Debt' <= Cardinality(Due) + Debt + MaxAttempts + 1
      BY <2>10, DeathIsAFault
    <3> QED BY <2>4, <3>1, <3>2
  <2> QED BY <2>5, <2>6, <2>7, <2>8, <2>9, <2>10 DEF Next, Sweep
<1> QED BY <1>1, <1>2, <1>3 DEF PostsInv

\* deliver_webhook.py:40-64: jobs of one row overwrite each other's attempts, and still,
\* whatever dies and however long a job waits (below the window), the receiver sees no
\* more than the posts of one chain for every fault and one, and one more per fault.
THEOREM CrashesCostOneChainEach ==
  Latency + SendTime < Window /\ PostsAreShort /\ Spec => []CrashesMultiplyPosts
<1> DEFINE Served == Latency + SendTime < Window /\ PostsAreShort
<1>1. Served /\ Init => Served /\ PostsInv
  BY PostsInit
<1>2. Served /\ PostsInv /\ [Next]_vars => (Served /\ PostsInv)'
  BY PostsNext DEF PostsAreShort
<1>3. Served /\ PostsInv => CrashesMultiplyPosts
  <2> SUFFICES ASSUME PostsInv PROVE posts <= Allowance(faults)
    BY DEF CrashesMultiplyPosts, Allowance
  <2>1. Allowance(faults) \in Nat /\ posts \in Nat
    BY PostsFacts, AllowanceGrows
  <2> QED BY <2>1, DueCount, DebtBound, TimesType DEF PostsInv
<1> QED BY <1>1, <1>2, <1>3, PTL DEF Spec

=============================================================================
