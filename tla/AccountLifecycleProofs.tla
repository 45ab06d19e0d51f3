----------------------- MODULE AccountLifecycleProofs -----------------------
(***************************************************************************)
(* Proofs about AccountLifecycle for any number of runs, ticks and         *)
(* requests at work on the account, any warmup schedule and any limit of   *)
(* strikes.                                                                *)
(***************************************************************************)
EXTENDS AccountLifecycle, TLAPS

\* What a tick loaded was true of the row, and days do not run backwards.
TicksAreEarned ==
    \A t \in Ticks : tick[t].on =>
        /\ tick[t].day <= day
        /\ \A k \in 1..Ready : tick[t].tier >= k => day >= Due[k]

\* Whoever is at work found a status that admitted it.
CopiesAreAdmitted ==
    /\ \A r \in Runs : run[r].at # "idle" => run[r].status \in AccountStatus \ Parked
    /\ \A q \in Requests :
         /\ req[q].op = "reactivate" => req[q].status = "sleeping"
         /\ req[q].op = "unban" => req[q].status = "banned"
         /\ req[q].op = "create" => req[q].status \notin Parked
    /\ deciding => held = "active"

\* The inductive invariant.  TierNeedsDays needs TicksAreEarned, because a tick
\* promotes from the tier it loaded and not from the row's.
LInv ==
    /\ TypeOK /\ TierNeedsDays /\ WarmupIsUnfinished
    /\ TicksAreEarned /\ CopiesAreAdmitted

-----------------------------------------------------------------------------
LEMMA IdleTypes ==
  IdleRun \in RunStates /\ IdleTick \in TickStates /\ IdleReq \in RequestStates
  <1>1. IdleRun \in RunStates
    BY DEF IdleRun, RunStates
  <1>2. IdleTick \in TickStates
    BY LifecycleConstants DEF IdleTick, TickStates, Tiers
  <1>3. IdleReq \in RequestStates
    BY DEF IdleReq, RequestStates
  <1>4. QED
    BY <1>1, <1>2, <1>3

\* A new proxy leaves the runs where they are.
LEMMA NewProxyKeepsRuns ==
  ASSUME TypeOK, NewProxy
  PROVE  /\ run' \in [Runs -> RunStates]
         /\ \A r \in Runs : run'[r].at = run[r].at /\ run'[r].status = run[r].status
  <1>1. ASSUME NEW r \in Runs
        PROVE  /\ [run[r] EXCEPT !.own = FALSE] \in RunStates
               /\ [run[r] EXCEPT !.own = FALSE].at = run[r].at
               /\ [run[r] EXCEPT !.own = FALSE].status = run[r].status
    BY DEF TypeOK, RunStates
  <1>2. QED
    BY <1>1 DEF NewProxy

LEMMA LInit == Init => LInv
  <1> SUFFICES ASSUME Init PROVE LInv
    OBVIOUS
  <1> USE LifecycleConstants DEF Init
  <1>1. TypeOK
    <2>1. 0 \in Tiers /\ 0 \in 0..LastDay /\ 0 \in 0..Strikes /\ 0 \in 0..MaxRestarts
      BY DEF Tiers
    <2>2. /\ run \in [Runs -> RunStates] /\ tick \in [Ticks -> TickStates]
          /\ req \in [Requests -> RequestStates]
      BY IdleTypes
    <2>3. QED
      BY <2>1, <2>2 DEF TypeOK, AccountStatus
  <1>2. TierNeedsDays /\ WarmupIsUnfinished
    BY DEF TierNeedsDays, WarmupIsUnfinished
  <1>3. TicksAreEarned /\ CopiesAreAdmitted
    BY DEF TicksAreEarned, CopiesAreAdmitted, IdleRun, IdleTick, IdleReq
  <1>4. QED
    BY <1>1, <1>2, <1>3 DEF LInv

\* Actions that touch neither the tier nor the days nor a tick keep what is
\* known of them.
LEMMA TiersUntouched ==
  ASSUME LInv, UNCHANGED <<tier, day, tick>>, status' = "warmup" => status = "warmup"
  PROVE  TierNeedsDays' /\ WarmupIsUnfinished' /\ TicksAreEarned'
  BY DEF LInv, TierNeedsDays, WarmupIsUnfinished, TicksAreEarned

LEMMA RunKeeps ==
  ASSUME LInv, NEW r \in Runs, RunStep(r)
  PROVE  LInv'
  <1> USE LifecycleConstants DEF LInv
  <1> DEFINE Kept == TypeOK' /\ CopiesAreAdmitted' /\ (status' = "warmup" => status = "warmup")
  <1>1. ASSUME NEW facing \in BOOLEAN, RunLoad(r, facing) PROVE Kept
    <2>1. run[r].at = "idle" /\ status \in AccountStatus \ Parked
      BY <1>1 DEF RunLoad, TypeOK
    <2>2. TypeOK'
      BY <1>1, <2>1 DEF RunLoad, TypeOK, RunStates, rowVars, proxyVars, loopVars
    <2>3. CopiesAreAdmitted'
      BY <1>1, <2>1 DEF RunLoad, TypeOK, CopiesAreAdmitted, rowVars, loopVars
    <2>4. QED
      BY <1>1, <2>2, <2>3 DEF RunLoad, rowVars
  <1>2. ASSUME RunGate(r) PROVE Kept
    BY <1>2, IdleTypes DEF RunGate, TypeOK, CopiesAreAdmitted, AccountStatus, IdleRun, NotLoaded,
                proxyVars, loopVars
  <1>3. ASSUME RunEnds(r) PROVE Kept
    BY <1>3, IdleTypes DEF RunEnds, TypeOK, CopiesAreAdmitted, IdleRun, NotLoaded,
                rowVars, proxyVars, loopVars
  <1>4. ASSUME RunFlood(r) PROVE Kept
    BY <1>4, IdleTypes DEF RunFlood, TypeOK, CopiesAreAdmitted, AccountStatus, IdleRun, NotLoaded,
                proxyVars, loopVars
  <1>5. ASSUME RunBan(r) PROVE Kept
    BY <1>5, IdleTypes DEF RunBan, TypeOK, CopiesAreAdmitted, AccountStatus, IdleRun, NotLoaded,
                proxyVars, loopVars
  <1>6. ASSUME RunRotates(r) PROVE Kept
    BY <1>6, IdleTypes DEF RunRotates, RotatePort, TypeOK, CopiesAreAdmitted, IdleRun, NotLoaded, rowVars
  <1>7. Kept
    BY <1>1, <1>2, <1>3, <1>4, <1>5, <1>6 DEF RunStep
  <1>8. UNCHANGED <<tier, day, tick>>
    BY DEF RunStep, RunLoad, RunGate, RunEnds, RunFlood, RunBan, RunRotates, RotatePort, rowVars
  <1>9. QED
    BY <1>7, <1>8, TiersUntouched

\* The promotion is the only step that raises the tier.
LEMMA PromotionIsEarned ==
  ASSUME LInv, NEW t \in Ticks, TickStep(t)
  PROVE  /\ tier' \in Tiers /\ status' \in AccountStatus
         /\ TierNeedsDays' /\ WarmupIsUnfinished'
  <1> DEFINE new == tick[t].tier + 1
  <1> USE LifecycleConstants DEF LInv
  <1>1. tick[t].on /\ tick[t].day <= day /\ day' = day
    BY DEF TickStep, TicksAreEarned
  <1>2. tick[t].tier \in Tiers /\ tick[t].day \in Nat /\ day \in Nat
    BY DEF TypeOK, TickStates, Tiers
  <1>3. CASE new \in 1..Ready /\ tick[t].day >= Due[new]
    <2>1. tier' = new /\ status' = IF new = Ready THEN "active" ELSE status
      BY <1>3 DEF TickStep, Promotion
    <2>2. Due[new] \in Nat
      BY <1>3
    <2>3. day >= Due[new]
      BY <1>1, <1>2, <1>3, <2>2
    <2>4. ASSUME NEW k \in 1..Ready, tier' >= k PROVE day' >= Due[k]
      <3>1. CASE k = new
        BY <1>1, <2>3, <3>1
      <3>2. CASE k # new
        <4>1. tick[t].tier >= k
          BY <1>2, <2>1, <2>4, <3>2 DEF Tiers
        <4>2. QED
          BY <1>1, <4>1 DEF TicksAreEarned
      <3>3. QED
        BY <3>1, <3>2
    <2>5. TierNeedsDays'
      BY <2>4 DEF TierNeedsDays
    <2>6. WarmupIsUnfinished' /\ tier' \in Tiers
      BY <1>3, <2>1 DEF WarmupIsUnfinished, Tiers
    <2>7. QED
      BY <2>1, <2>5, <2>6 DEF TypeOK, AccountStatus
  <1>4. CASE ~(new \in 1..Ready /\ tick[t].day >= Due[new])
    <2>1. UNCHANGED <<tier, status, day>>
      BY <1>4 DEF TickStep, Promotion
    <2>2. QED
      BY <2>1 DEF TypeOK, TierNeedsDays, WarmupIsUnfinished
  <1>5. QED
    BY <1>3, <1>4

LEMMA TickKeeps ==
  ASSUME LInv, NEW t \in Ticks, TickLoad(t) \/ TickStep(t)
  PROVE  LInv'
  <1> USE LifecycleConstants DEF LInv
  <1>1. CASE TickLoad(t)
    <2>1. TypeOK' /\ CopiesAreAdmitted'
      BY <1>1 DEF TickLoad, TypeOK, TickStates, CopiesAreAdmitted, rowVars, proxyVars, loopVars
    <2>2. TierNeedsDays' /\ WarmupIsUnfinished'
      BY <1>1 DEF TickLoad, TierNeedsDays, WarmupIsUnfinished, rowVars
    <2>3. TicksAreEarned'
      BY <1>1 DEF TickLoad, TypeOK, TierNeedsDays, TicksAreEarned, rowVars
    <2>4. QED
      BY <2>1, <2>2, <2>3
  <1>2. CASE TickStep(t)
    <2>1. TypeOK'
      BY <1>2, PromotionIsEarned, IdleTypes DEF TickStep, TypeOK, proxyVars, loopVars
    <2>2. CopiesAreAdmitted' /\ TicksAreEarned'
      BY <1>2 DEF TickStep, TypeOK, CopiesAreAdmitted, TicksAreEarned, IdleTick, loopVars
    <2>3. QED
      BY <1>2, <2>1, <2>2, PromotionIsEarned
  <1>3. QED
    BY <1>1, <1>2

LEMMA RequestKeeps ==
  ASSUME LInv, NEW q \in Requests, RequestStep(q)
  PROVE  LInv'
  <1> USE LifecycleConstants DEF LInv
  <1> DEFINE Kept == TypeOK' /\ CopiesAreAdmitted' /\ (status' = "warmup" => status = "warmup")
  <1>1. ASSUME NEW op \in {"reactivate", "unban", "create"}, RequestLoad(q, op) PROVE Kept
    <2>1. TypeOK'
      BY <1>1 DEF RequestLoad, TypeOK, RequestStates, rowVars, proxyVars, loopVars
    <2>2. /\ op = "reactivate" => status = "sleeping"
          /\ op = "unban" => status = "banned"
          /\ op = "create" => status \notin Parked
      BY <1>1 DEF RequestLoad, Admitted
    <2>3. CopiesAreAdmitted'
      BY <1>1, <2>2 DEF RequestLoad, TypeOK, CopiesAreAdmitted, Parked, rowVars, loopVars
    <2>4. QED
      BY <1>1, <2>1, <2>3 DEF RequestLoad, rowVars
  <1>2. ASSUME Reactivate(q) PROVE Kept
    <2>1. /\ run' \in [Runs -> RunStates]
          /\ \A r \in Runs : run'[r].at = run[r].at /\ run'[r].status = run[r].status
      BY <1>2, NewProxyKeepsRuns DEF Reactivate
    <2>2. 0 \in 0..Strikes /\ req' \in [Requests -> RequestStates]
      BY <1>2, IdleTypes DEF Reactivate, TypeOK
    <2>3. TypeOK'
      BY <1>2, <2>1, <2>2 DEF Reactivate, NewProxy, TypeOK, AccountStatus
    <2>4. CopiesAreAdmitted'
      BY <1>2, <2>1 DEF Reactivate, TypeOK, CopiesAreAdmitted, IdleReq
    <2>5. QED
      BY <1>2, <2>3, <2>4 DEF Reactivate
  <1>3. ASSUME Unban(q) PROVE Kept
    BY <1>3, IdleTypes DEF Unban, TypeOK, CopiesAreAdmitted, AccountStatus, IdleReq, NotLoaded,
                proxyVars, loopVars
  <1>4. ASSUME CreateRejected(q) PROVE Kept
    BY <1>4, IdleTypes DEF CreateRejected, TypeOK, CopiesAreAdmitted, AccountStatus, IdleReq, NotLoaded,
                proxyVars, loopVars
  <1>5. ASSUME RequestRefused(q) PROVE Kept
    BY <1>5, IdleTypes DEF RequestRefused, TypeOK, CopiesAreAdmitted, IdleReq, NotLoaded,
                rowVars, proxyVars, loopVars
  <1>6. Kept
    BY <1>1, <1>2, <1>3, <1>4, <1>5 DEF RequestStep
  <1>7. UNCHANGED <<tier, day, tick>>
    BY DEF RequestStep, RequestLoad, Reactivate, Unban, CreateRejected, RequestRefused, rowVars
  <1>8. QED
    BY <1>6, <1>7, TiersUntouched

LEMMA LoopKeeps ==
  ASSUME LInv, Reassign \/ LoopCheck \/ LoopSleeps \/ LoopLetsGo
  PROVE  LInv'
  <1> USE LifecycleConstants DEF LInv
  <1> DEFINE Kept == TypeOK' /\ CopiesAreAdmitted' /\ (status' = "warmup" => status = "warmup")
  <1>1. ASSUME Reassign PROVE Kept
    BY <1>1, NewProxyKeepsRuns DEF Reassign, NewProxy, TypeOK, CopiesAreAdmitted, rowVars
  <1>2. ASSUME LoopCheck PROVE Kept
    <2>1. strikes' \in 0..Strikes /\ (\E n \in 0..Strikes : Judge(n))
      BY <1>2 DEF LoopCheck, ChecksFail, TypeOK
    <2>2. held' \in AccountStatus \cup {NotLoaded} /\ deciding' \in BOOLEAN
            /\ (deciding' => held' = "active")
      BY <2>1 DEF Judge, TypeOK
    <2>3. UNCHANGED <<rowVars, proxyVars, run, tick, req, restarts>>
            /\ knows' \in {"none", "current", "old"}
      BY <1>2 DEF LoopCheck, ChecksFail, TypeOK
    <2>4. TypeOK'
      BY <2>1, <2>2, <2>3 DEF TypeOK, rowVars, proxyVars
    <2>5. QED
      BY <2>2, <2>3, <2>4 DEF CopiesAreAdmitted, rowVars
  <1>3. ASSUME LoopSleeps PROVE Kept
    BY <1>3 DEF LoopSleeps, TypeOK, CopiesAreAdmitted, AccountStatus, proxyVars
  <1>4. ASSUME LoopLetsGo PROVE Kept
    BY <1>4 DEF LoopLetsGo, TypeOK, CopiesAreAdmitted, rowVars, proxyVars
  <1>5. Kept
    BY <1>1, <1>2, <1>3, <1>4
  <1>6. UNCHANGED <<tier, day, tick>>
    BY DEF Reassign, LoopCheck, ChecksFail, LoopSleeps, LoopLetsGo, rowVars
  <1>7. QED
    BY <1>5, <1>6, TiersUntouched

LEMMA WorldKeeps ==
  ASSUME LInv, \/ GatewayRestarts \/ WorkerDies
               \/ NextDay \/ FloodPasses \/ ProxyChanges
  PROVE  LInv'
  <1> USE LifecycleConstants DEF LInv
  <1>1. CASE GatewayRestarts
    <2>1. TypeOK'
      <3>1. 0 \in 0..Strikes /\ req' \in [Requests -> RequestStates]
        BY <1>1, IdleTypes DEF GatewayRestarts
      <3>2. restarts' \in 0..MaxRestarts
        BY <1>1 DEF GatewayRestarts, TypeOK
      <3>3. UNCHANGED <<status, tier, day, flood, gate, dead, run, tick>>
        BY <1>1 DEF GatewayRestarts, rowVars, proxyVars
      <3>4. held' = NotLoaded /\ deciding' = FALSE /\ strikes' = 0 /\ knows' = "none"
        BY <1>1 DEF GatewayRestarts
      <3>5. QED
        BY <3>1, <3>2, <3>3, <3>4 DEF TypeOK
    <2>2. CopiesAreAdmitted'
      BY <1>1 DEF GatewayRestarts, CopiesAreAdmitted, IdleReq
    <2>3. QED
      BY <1>1, <2>1, <2>2, TiersUntouched DEF GatewayRestarts, rowVars
  <1>2. CASE WorkerDies
    <2>1. TypeOK' /\ CopiesAreAdmitted'
      BY <1>2, IdleTypes DEF WorkerDies, TypeOK, CopiesAreAdmitted, IdleRun,
                  rowVars, proxyVars, loopVars
    <2>2. TierNeedsDays' /\ WarmupIsUnfinished' /\ TicksAreEarned'
      BY <1>2 DEF WorkerDies, TierNeedsDays, WarmupIsUnfinished, TicksAreEarned, IdleTick, rowVars
    <2>3. QED
      BY <2>1, <2>2
  <1>3. CASE NextDay
    <2>1. TypeOK' /\ CopiesAreAdmitted' /\ WarmupIsUnfinished'
      BY <1>3 DEF NextDay, TypeOK, CopiesAreAdmitted, WarmupIsUnfinished, proxyVars, loopVars
    <2>2. day \in Nat /\ (\A k \in 1..Ready : Due[k] \in Nat) /\ day' = day + 1
            /\ (\A t \in Ticks : tick[t].day \in Nat) /\ UNCHANGED <<tier, tick>>
      BY <1>3 DEF NextDay, TypeOK, TickStates
    <2>3. TierNeedsDays' /\ TicksAreEarned'
      BY <2>2 DEF TierNeedsDays, TicksAreEarned
    <2>4. QED
      BY <2>1, <2>3
  <1>4. CASE FloodPasses
    <2>1. TypeOK' /\ CopiesAreAdmitted'
      BY <1>4 DEF FloodPasses, TypeOK, CopiesAreAdmitted, proxyVars, loopVars
    <2>2. QED
      BY <1>4, <2>1, TiersUntouched DEF FloodPasses
  <1>5. CASE ProxyChanges
    <2>1. TypeOK' /\ CopiesAreAdmitted'
      BY <1>5 DEF ProxyChanges, TypeOK, CopiesAreAdmitted, rowVars, loopVars
    <2>2. QED
      BY <1>5, <2>1, TiersUntouched DEF ProxyChanges, rowVars
  <1>6. QED
    BY <1>1, <1>2, <1>3, <1>4, <1>5

LEMMA LStep == LInv /\ [Next]_vars => LInv'
  <1> SUFFICES ASSUME LInv, [Next]_vars PROVE LInv'
    OBVIOUS
  <1>1. CASE Next
    BY <1>1, RunKeeps, TickKeeps, RequestKeeps, LoopKeeps, WorldKeeps DEF Next
  <1>2. CASE UNCHANGED vars
    BY <1>2 DEF vars, rowVars, proxyVars, loopVars, LInv, TypeOK, TierNeedsDays,
                WarmupIsUnfinished, TicksAreEarned, CopiesAreAdmitted
  <1>3. QED
    BY <1>1, <1>2

LEMMA LAlways == Spec => []LInv
  BY LInit, LStep, PTL DEF Spec

-----------------------------------------------------------------------------
(* No writer of the account row leaves its type.                           *)
THEOREM LifecycleType == Spec => []TypeOK
  BY LAlways, PTL DEF LInv

(* However many ticks overlap, no tier is reached before the cumulative    *)
(* days of the tiers below it (advance_tier_if_due).                       *)
THEOREM PromotionNeedsDays == Spec => []TierNeedsDays
  BY LAlways, PTL DEF LInv

(* An account in warmup always has a tier left to reach (the ACTIVE write  *)
(* of advance_tier_if_due).                                                *)
THEOREM WarmupHasATierLeft == Spec => []WarmupIsUnfinished
  BY LAlways, PTL DEF LInv

\* With fresh copies only a request can end a ban or a sleep.
LEMMA ParkedStep ==
  ASSUME LInv, Next, CopiesAreFresh, status \in Parked
  PROVE  status' = status \/ Released
  <1> USE DEF Parked
  <1>1. /\ \A r \in Runs : run[r].at = "idle"
        /\ \A t \in Ticks : ~tick[t].on
        /\ ~deciding
        /\ \A q \in Requests : req[q].op # "create"
    BY DEF LInv, CopiesAreAdmitted, CopiesAreFresh
  <1>2. ASSUME NEW r \in Runs, RunStep(r) PROVE status' = status
    BY <1>1, <1>2 DEF RunStep, RunLoad, RunGate, RunEnds, RunFlood, RunBan, RunRotates, RotatePort
  <1>3. ASSUME NEW t \in Ticks, TickLoad(t) \/ TickStep(t) PROVE status' = status
    BY <1>1, <1>3 DEF TickLoad, TickStep, rowVars
  <1>4. ASSUME NEW q \in Requests, RequestStep(q) PROVE status' = status \/ Released
    <2>1. CASE Reactivate(q)
      <3>1. status = "sleeping"
        BY <2>1 DEF Reactivate, LInv, CopiesAreAdmitted, CopiesAreFresh
      <3>2. QED
        BY <2>1, <3>1 DEF Released
    <2>2. CASE Unban(q)
      <3>1. status = "banned"
        BY <2>2 DEF Unban, LInv, CopiesAreAdmitted, CopiesAreFresh
      <3>2. QED
        BY <2>2, <3>1 DEF Released
    <2>3. CASE ~Reactivate(q) /\ ~Unban(q)
      BY <1>1, <1>4, <2>3 DEF RequestStep, RequestLoad, CreateRejected, RequestRefused, rowVars
    <2>4. QED
      BY <2>1, <2>2, <2>3
  <1>5. CASE \/ Reassign \/ LoopCheck \/ LoopSleeps \/ LoopLetsGo
             \/ GatewayRestarts \/ WorkerDies \/ NextDay \/ FloodPasses \/ ProxyChanges
    BY <1>1, <1>5 DEF Reassign, LoopCheck, ChecksFail, LoopSleeps, LoopLetsGo, GatewayRestarts,
                      WorkerDies, NextDay, FloodPasses, ProxyChanges, rowVars
  <1>6. QED
    BY <1>2, <1>3, <1>4, <1>5 DEF Next

(* A ban outlasts everybody but unban and a sleep everybody but            *)
(* reactivate, once those who loaded the account before it are done; for   *)
(* any number of runs, ticks and requests.                                 *)
THEOREM ParkedStays == Spec => ParkedHolds
  <1>1. LInv /\ [Next]_vars
          => [CopiesAreFresh /\ status \in Parked => status' = status \/ Released]_vars
    BY ParkedStep
  <1>2. QED
    BY <1>1, LAlways, PTL DEF Spec, ParkedHolds

=============================================================================
