------------------------ MODULE RecoveryLeaseProofs ------------------------
(***************************************************************************)
(* Proofs about RecoveryLease: for every timeout, every longer lease,      *)
(* every sweep period, every time scale and any number of runs.            *)
(***************************************************************************)
EXTENDS RecoveryLease, TLAPS

-----------------------------------------------------------------------------
(* The lease outlasts every live run                                        *)

\* What a live run knows: its job is younger than job_timeout, and if the row is
\* executing it was stamped no earlier than the job began, by this run or by
\* another one that claimed after this one had read the row as queued.
\* LiveLeaseHolds alone says nothing about the stamp.
LeaseInv ==
    /\ TypeOK
    /\ \A r \in Runs : Live(r) => began[r] <= now /\ now <= began[r] + JobTimeout
    /\ \A r \in Runs : Live(r) /\ row = "executing" => began[r] <= startedAt

\* The Clock is never behind real time.
LEMMA ClockAhead == TypeOK => ClockNow \in Nat /\ now <= ClockNow
  <1> SUFFICES ASSUME TypeOK PROVE now * Scale \in Nat /\ now <= now * Scale
    BY DEF ClockNow
  <1>1. now \in Nat /\ Scale \in Nat /\ Scale >= 1
    BY TimesType DEF TypeOK
  <1>2. \A m, n \in Nat : m >= 1 => n * m \in Nat /\ n <= n * m
    OBVIOUS
  <1>3. QED
    BY <1>1, <1>2

LEMMA LeaseInit == Init => LeaseInv
  BY TimesType DEF Init, LeaseInv, TypeOK, Live

LEMMA LeaseNext == LeaseInv /\ [Next]_vars => LeaseInv'
  <1> SUFFICES ASSUME LeaseInv, [Next]_vars PROVE LeaseInv'
    OBVIOUS
  <1> USE TimesType DEF LeaseInv, TypeOK, Live
  <1>1. CASE Tick
    BY <1>1 DEF Tick
  <1>2. CASE Requeue
    BY <1>2 DEF Requeue
  <1>3. CASE Sweep
    BY <1>3 DEF Sweep, Expired
  <1>4. ASSUME NEW r \in Runs, StartJob(r) PROVE LeaseInv'
    BY <1>4 DEF StartJob
  <1>5. ASSUME NEW r \in Runs, Claim(r) PROVE LeaseInv'
    <2>1. startedAt' \in Nat /\ now <= startedAt'
      BY <1>5, ClockAhead DEF Claim
    <2>2. QED
      BY <1>5, <2>1 DEF Claim
  <1>6. ASSUME NEW r \in Runs, PutOff(r) \/ Finish(r) PROVE LeaseInv'
    BY <1>6 DEF PutOff, Finish
  <1>7. ASSUME NEW r \in Runs, Die(r) PROVE LeaseInv'
    BY <1>7 DEF Die
  <1>8. CASE UNCHANGED vars
    BY <1>8 DEF vars
  <1>9. QED
    BY <1>1, <1>2, <1>3, <1>4, <1>5, <1>6, <1>7, <1>8 DEF Next

\* With a lease longer than job_timeout the sweep never selects the row that a
\* live run has read, also when several runs read and claimed it and whatever
\* TIME_SCALE is.
THEOREM LeaseIsLongEnough == Spec => []LiveLeaseHolds
  <1>1. LeaseInv => LiveLeaseHolds
    BY TimesType DEF LeaseInv, TypeOK, Live, LiveLeaseHolds, Expired
  <1>2. QED
    BY LeaseInit, LeaseNext, <1>1, PTL DEF Spec

\* No claim, sweep or death leaves the type of the row, of its stamp or of a run.
THEOREM LeaseType == Spec => []TypeOK
  <1>1. LeaseInv => TypeOK
    BY DEF LeaseInv
  <1>2. QED
    BY LeaseInit, LeaseNext, <1>1, PTL DEF Spec

-----------------------------------------------------------------------------
(* An orphan is found in time                                               *)

\* An executing row was either stamped after the latest sweep or was too young
\* for it; the stamp is at most the time its run died.
OrphanInv ==
    /\ TypeOK
    /\ Scale = 1
    /\ lastSweep <= now /\ now <= lastSweep + SweepEvery
    /\ row = "executing" => startedAt <= now /\ lastSweep <= startedAt + Lease
    /\ Orphaned => startedAt <= diedAt

LEMMA OrphanInit == Scale = 1 /\ Init => OrphanInv
  BY TimesType DEF Init, OrphanInv, TypeOK, Orphaned

LEMMA OrphanNext == OrphanInv /\ [Next]_vars => OrphanInv'
  <1> SUFFICES ASSUME OrphanInv, [Next]_vars PROVE OrphanInv'
    OBVIOUS
  <1> USE TimesType DEF OrphanInv, TypeOK, Orphaned
  <1>1. CASE Tick
    BY <1>1 DEF Tick
  <1>2. CASE Requeue
    BY <1>2 DEF Requeue
  <1>3. CASE Sweep
    BY <1>3 DEF Sweep, Expired
  <1>4. ASSUME NEW r \in Runs, StartJob(r) PROVE OrphanInv'
    BY <1>4 DEF StartJob
  <1>5. ASSUME NEW r \in Runs, Claim(r) PROVE OrphanInv'
    <2>1. startedAt' = now
      BY <1>5 DEF Claim, ClockNow
    <2>2. QED
      BY <1>5, <2>1 DEF Claim
  <1>6. ASSUME NEW r \in Runs, PutOff(r) \/ Finish(r) PROVE OrphanInv'
    BY <1>6 DEF PutOff, Finish
  <1>7. ASSUME NEW r \in Runs, Die(r) PROVE OrphanInv'
    BY <1>7 DEF Die
  <1>8. CASE UNCHANGED vars
    BY <1>8 DEF vars
  <1>9. QED
    BY <1>1, <1>2, <1>3, <1>4, <1>5, <1>6, <1>7, <1>8 DEF Next

\* In production time (TIME_SCALE = 1) no orphan stays executing longer than the
\* lease and one sweep period after its run died.
THEOREM OrphansAreFound == Scale = 1 /\ Spec => []OrphanRequeuedInTime
  <1>1. OrphanInv => OrphanRequeuedInTime
    BY TimesType DEF OrphanInv, TypeOK, Orphaned, OrphanRequeuedInTime
  <1>2. QED
    BY OrphanInit, OrphanNext, <1>1, PTL DEF Spec

=============================================================================
