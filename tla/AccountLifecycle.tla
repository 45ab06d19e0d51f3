-------------------------- MODULE AccountLifecycle --------------------------
(***************************************************************************)
(* accounts.status and warmup_tier of one account, and everyone who writes *)
(* them: runs of run_task, warmup ticks, API requests and the proxy health *)
(* loop of the gateway.                                                    *)
(*                                                                         *)
(* Each of them works on the row it loaded and commits later, after awaits *)
(* of up to minutes; no writer locks the row or compares its version.      *)
(* Sessions keep what they loaded (expire_on_commit=False), and the health *)
(* loop keeps one session for the life of the process: an account or proxy *)
(* that its local variables still reference is not read again, a query for *)
(* it returns the object as it was.                                        *)
(***************************************************************************)
EXTENDS Integers

CONSTANTS
    Runs, Ticks, Requests,  \* who may be at work at a time
    Ready,        \* position of `ready` in TIER_ORDER
    Due,          \* tier -> day from which it may be reached, the cumulative
                  \* days of the tiers below it
    LastDay,      \* bound: days that pass
    Strikes,      \* PROXY_FAIL_STRIKES
    MaxRestarts   \* bound: deaths of the gateway or of the worker

ASSUME LifecycleConstants ==
    /\ Ready \in Nat \ {0}
    /\ Due \in [1..Ready -> Nat]
    /\ LastDay \in Nat /\ MaxRestarts \in Nat
    /\ Strikes \in Nat \ {0}

VARIABLES
    status, tier, \* of the row
    day,          \* days since created_at; warmup_day follows it at each tick
    flood,        \* flood_until: none, past or future
    gate,         \* what the proxy fails: geo (critical, no override), asn
    dead,         \* nothing listens at the proxy's current URL
    run,          \* run -> what it is at and what it loaded
    tick,         \* tick -> the tier and day it loaded
    req,          \* request -> its operation and the status it loaded
    held,         \* status of the account object the loop's session holds
    deciding,     \* the loop has found it active and not yet committed
    strikes,      \* failed checks in a row of the account's proxy
    knows,        \* the URL in the loop's proxy object: none, current, old
    restarts

rowVars == <<status, tier, day, flood>>
proxyVars == <<gate, dead>>
loopVars == <<held, deciding, strikes, knows>>
vars == <<rowVars, proxyVars, run, tick, req, loopVars, restarts>>

AccountStatus == {"warmup", "active", "flood", "sleeping", "banned"}
Parked == {"sleeping", "banned"}
NotLoaded == "none"
Tiers == 0..Ready

IdleRun == [at |-> "idle", status |-> NotLoaded, flood |-> "none", own |-> FALSE]
IdleTick == [on |-> FALSE, tier |-> 0, day |-> 0]
IdleReq == [op |-> "idle", status |-> NotLoaded]

RunStates ==
    [at : {"idle", "gate", "executing"},
     status : (AccountStatus \ Parked) \cup {NotLoaded},
     flood : {"none", "past", "future"}, own : BOOLEAN]
TickStates == [on : BOOLEAN, tier : Tiers, day : 0..LastDay]
RequestStates ==
    [op : {"idle", "reactivate", "unban", "create"},
     status : AccountStatus \cup {NotLoaded}]

TypeOK ==
    /\ status \in AccountStatus /\ tier \in Tiers /\ day \in 0..LastDay
    /\ flood \in {"none", "past", "future"}
    /\ gate \in {"clear", "geo", "asn"} /\ dead \in BOOLEAN
    /\ run \in [Runs -> RunStates]
    /\ tick \in [Ticks -> TickStates]
    /\ req \in [Requests -> RequestStates]
    /\ held \in AccountStatus \cup {NotLoaded} /\ deciding \in BOOLEAN
    /\ strikes \in 0..Strikes /\ knows \in {"none", "current", "old"}
    /\ restarts \in 0..MaxRestarts

Init ==
    /\ status = "warmup" /\ tier = 0 /\ day = 0 /\ flood = "none"
    /\ gate \in {"clear", "geo", "asn"} /\ dead \in BOOLEAN
    /\ run = [r \in Runs |-> IdleRun]
    /\ tick = [t \in Ticks |-> IdleTick]
    /\ req = [q \in Requests |-> IdleReq]
    /\ held = NotLoaded /\ deciding = FALSE /\ strikes = 0 /\ knows = "none"
    /\ restarts = 0

-----------------------------------------------------------------------------
(* run_task. `own`: the proxy it loaded is still the account's.            *)

RunLoad(r, facing) ==
    LET refused == gate \in (IF facing THEN {"geo", "asn"} ELSE {"geo"}) IN
    /\ run[r].at = "idle" /\ status \notin Parked
    /\ refused \/ flood # "future"
    /\ run' = [run EXCEPT ![r] =
         [at |-> IF refused THEN "gate" ELSE "executing",
          status |-> status, flood |-> flood, own |-> TRUE]]
    /\ UNCHANGED <<rowVars, proxyVars, tick, req, loopVars, restarts>>

\* prepare puts an account with a refused proxy to sleep
RunGate(r) ==
    /\ run[r].at = "gate"
    /\ status' = "sleeping"
    /\ run' = [run EXCEPT ![r] = IdleRun]
    /\ UNCHANGED <<tier, day, flood, proxyVars, tick, req, loopVars, restarts>>

\* success, a failure of the task alone, busy, out of hours or over budget
RunEnds(r) ==
    /\ run[r].at = "executing"
    /\ run' = [run EXCEPT ![r] = IdleRun]
    /\ UNCHANGED <<rowVars, proxyVars, tick, req, loopVars, restarts>>

RunFlood(r) ==
    /\ run[r].at = "executing"
    /\ status' = IF run[r].status = "flood" THEN status ELSE "flood"
    /\ flood' = "future"
    /\ run' = [run EXCEPT ![r] = IdleRun]
    /\ UNCHANGED <<tier, day, proxyVars, tick, req, loopVars, restarts>>

RunBan(r) ==
    /\ run[r].at = "executing"
    /\ status' = "banned"
    /\ flood' = IF run[r].flood = "none" THEN flood ELSE "none"
    /\ run' = [run EXCEPT ![r] = IdleRun]
    /\ UNCHANGED <<tier, day, proxyVars, tick, req, loopVars, restarts>>

\* rotate_port: another port of the same host, drawn at random, with or without a
\* listener; the loop's copy of the proxy keeps the old one
RotatePort ==
    /\ dead' \in BOOLEAN
    /\ knows' = IF knows = "current" THEN "old" ELSE knows

\* a connection error moves the proxy
RunRotates(r) ==
    /\ run[r].at = "executing" /\ run[r].own
    /\ RotatePort
    /\ run' = [run EXCEPT ![r] = IdleRun]
    /\ UNCHANGED <<rowVars, gate, tick, req, held, deciding, strikes, restarts>>

-----------------------------------------------------------------------------
(* run_warmup_tick: the accounts are selected once, then taken in turn.    *)

TickLoad(t) ==
    /\ ~tick[t].on /\ status = "warmup"
    /\ tick' = [tick EXCEPT ![t] = [on |-> TRUE, tier |-> tier, day |-> day]]
    /\ UNCHANGED <<rowVars, proxyVars, run, req, loopVars, restarts>>

\* Mutant: the days of the current tier alone.
MutantPromotionPerTier(t) ==
    LET new == tick[t].tier + 1
        before == IF new > 1 THEN Due[new - 1] ELSE 0 IN
    IF new \in 1..Ready /\ tick[t].day >= Due[new] - before
    THEN /\ tier' = new
         /\ status' = IF new = Ready THEN "active" ELSE status
    ELSE UNCHANGED <<tier, status>>

\* Mutant: the promotion to ready does not write the status.
MutantPromotionKeepsStatus(t) ==
    LET new == tick[t].tier + 1 IN
    /\ tier' = IF new \in 1..Ready /\ tick[t].day >= Due[new] THEN new ELSE tier
    /\ status' = status

\* Mutant: off by one at the end of TIER_ORDER.
MutantPromotionStopsEarly(t) ==
    LET new == tick[t].tier + 1 IN
    /\ tier' = IF new \in 1..(Ready - 1) /\ tick[t].day >= Due[new] THEN new ELSE tier
    /\ status' = status

\* advance_tier_if_due on the loaded account
Promotion(t) ==
    LET new == tick[t].tier + 1 IN
    IF new \in 1..Ready /\ tick[t].day >= Due[new]
    THEN /\ tier' = new
         /\ status' = IF new = Ready THEN "active" ELSE status
    ELSE UNCHANGED <<tier, status>>

TickStep(t) ==
    /\ tick[t].on
    /\ Promotion(t)
    /\ tick' = [tick EXCEPT ![t] = IdleTick]
    /\ UNCHANGED <<day, flood, proxyVars, run, req, loopVars, restarts>>

-----------------------------------------------------------------------------
(* API requests                                                            *)

\* Mutant: reactivate does not look at the status.
MutantAdmitted(op) ==
    CASE op = "reactivate" -> TRUE
      [] op = "unban" -> status = "banned"
      [] op = "create" -> status \notin Parked /\ gate = "geo"

\* the status a request has to find to go on
Admitted(op) ==
    CASE op = "reactivate" -> status = "sleeping"
      [] op = "unban" -> status = "banned"
      [] op = "create" -> status \notin Parked /\ gate = "geo"

RequestLoad(q, op) ==
    /\ req[q].op = "idle" /\ Admitted(op)
    /\ req' = [req EXCEPT ![q] = [op |-> op, status |-> status]]
    /\ UNCHANGED <<rowVars, proxyVars, run, tick, loopVars, restarts>>

\* a row of its own in proxies, which the loop has not seen yet
NewProxy ==
    /\ gate' = "clear" /\ strikes' = 0 /\ knows' = "none"
    /\ run' = [r \in Runs |-> [run[r] EXCEPT !.own = FALSE]]

\* health_check has passed
Reactivate(q) ==
    /\ req[q].op = "reactivate"
    /\ status' = "active"
    /\ NewProxy /\ dead' = FALSE
    /\ req' = [req EXCEPT ![q] = IdleReq]
    /\ UNCHANGED <<tier, day, flood, tick, held, deciding, restarts>>

Unban(q) ==
    /\ req[q].op = "unban"
    /\ status' = "active"
    /\ req' = [req EXCEPT ![q] = IdleReq]
    /\ UNCHANGED <<tier, day, flood, proxyVars, run, tick, loopVars, restarts>>

\* create_action refuses the proxy and puts the account to sleep
CreateRejected(q) ==
    /\ req[q].op = "create"
    /\ status' = "sleeping"
    /\ req' = [req EXCEPT ![q] = IdleReq]
    /\ UNCHANGED <<tier, day, flood, proxyVars, run, tick, loopVars, restarts>>

\* reactivate answers 409 or 422
RequestRefused(q) ==
    /\ req[q].op = "reactivate"
    /\ req' = [req EXCEPT ![q] = IdleReq]
    /\ UNCHANGED <<rowVars, proxyVars, run, tick, loopVars, restarts>>

\* PUT /{account_id}/proxy, which looks at no status
Reassign ==
    /\ NewProxy /\ dead' \in BOOLEAN
    /\ UNCHANGED <<rowVars, tick, req, held, deciding, restarts>>

-----------------------------------------------------------------------------
(* run_health_check_loop                                                   *)

\* Mutant: `n == PROXY_FAIL_STRIKES` on an uncapped count.
MutantJudge(n) ==
    LET judged == n = Strikes /\ strikes < n IN
    /\ held' = IF judged /\ held = NotLoaded THEN status ELSE held
    /\ deciding' = (judged /\ held' = "active")

\* after n failed checks in a row: load the account, or find it still held
Judge(n) ==
    /\ held' = IF n = Strikes /\ held = NotLoaded THEN status ELSE held
    /\ deciding' = (n = Strikes /\ held' = "active")

\* health_check: may a connection to the URL that the loop holds fail?  One that a
\* worker has replaced may or may not have a listener
ChecksFail == IF knows = "old" THEN BOOLEAN ELSE {dead}

\* strikes are counted up to the limit: beyond it the count makes no difference
LoopCheck ==
    /\ ~deciding
    /\ \E failed \in ChecksFail :
         LET n == IF ~failed THEN 0
                  ELSE IF strikes < Strikes THEN strikes + 1 ELSE Strikes IN
         /\ strikes' = n
         /\ Judge(n)
    /\ knows' = IF knows = "none" THEN "current" ELSE knows
    /\ UNCHANGED <<rowVars, proxyVars, run, tick, req, restarts>>

LoopSleeps ==
    /\ deciding
    /\ status' = "sleeping" /\ held' = "sleeping" /\ deciding' = FALSE
    /\ UNCHANGED <<tier, day, flood, proxyVars, run, tick, req, strikes, knows, restarts>>

\* the accounts of another dead proxy take the place of this one in
\* `accounts` and `account`, and the session lets go of it
LoopLetsGo ==
    /\ ~deciding /\ held # NotLoaded
    /\ held' = NotLoaded
    /\ UNCHANGED <<rowVars, proxyVars, run, tick, req, deciding, strikes, knows, restarts>>

-----------------------------------------------------------------------------
GatewayRestarts ==
    /\ restarts < MaxRestarts /\ restarts' = restarts + 1
    /\ req' = [q \in Requests |-> IdleReq]
    /\ held' = NotLoaded /\ deciding' = FALSE /\ strikes' = 0 /\ knows' = "none"
    /\ UNCHANGED <<rowVars, proxyVars, run, tick>>

WorkerDies ==
    /\ restarts < MaxRestarts /\ restarts' = restarts + 1
    /\ run' = [r \in Runs |-> IdleRun]
    /\ tick' = [t \in Ticks |-> IdleTick]
    /\ UNCHANGED <<rowVars, proxyVars, req, loopVars>>

NextDay ==
    /\ day < LastDay /\ day' = day + 1
    /\ UNCHANGED <<status, tier, flood, proxyVars, run, tick, req, loopVars, restarts>>

FloodPasses ==
    /\ flood = "future" /\ flood' = "past"
    /\ UNCHANGED <<status, tier, day, proxyVars, run, tick, req, loopVars, restarts>>

ProxyChanges ==
    /\ dead' = ~dead
    /\ UNCHANGED <<rowVars, gate, run, tick, req, loopVars, restarts>>

RunStep(r) ==
    \/ \E facing \in BOOLEAN : RunLoad(r, facing)
    \/ RunGate(r) \/ RunEnds(r) \/ RunFlood(r) \/ RunBan(r) \/ RunRotates(r)

RequestStep(q) ==
    \/ \E op \in {"reactivate", "unban", "create"} : RequestLoad(q, op)
    \/ Reactivate(q) \/ Unban(q) \/ CreateRejected(q) \/ RequestRefused(q)

Next ==
    \/ \E r \in Runs : RunStep(r)
    \/ \E t \in Ticks : TickLoad(t) \/ TickStep(t)
    \/ \E q \in Requests : RequestStep(q)
    \/ Reassign
    \/ LoopCheck \/ LoopSleeps \/ LoopLetsGo
    \/ GatewayRestarts \/ WorkerDies
    \/ NextDay \/ FloodPasses \/ ProxyChanges

Spec == Init /\ [][Next]_vars

\* The cron fires daily, the loop's period is 300 s; nobody has to send a
\* request or a task, and no proxy has to fail or to recover.
FairSpec ==
    /\ Spec
    /\ WF_vars(NextDay)
    /\ \A t \in Ticks : WF_vars(TickLoad(t)) /\ WF_vars(TickStep(t))
    /\ WF_vars(LoopCheck) /\ WF_vars(LoopSleeps)

-----------------------------------------------------------------------------
(* Safety. No tier is reached before the days of all the tiers below it,   *)
(* even when overlapping ticks promote from copies (advance_tier_if_due).  *)
TierNeedsDays == \A k \in 1..Ready : tier >= k => day >= Due[k]

(* An account that still counts as warming has a tier left to reach, so    *)
(* the tick that selects it can finish its warmup.                         *)
WarmupIsUnfinished == status = "warmup" => tier < Ready

\* nobody is about to write on what they read before the last change of status
CopiesAreFresh ==
    /\ \A r \in Runs : run[r].at # "idle" => run[r].status = status
    /\ \A t \in Ticks : tick[t].on => status = "warmup"
    /\ \A q \in Requests : req[q].op # "idle" => req[q].status = status
    /\ deciding => held = status

\* what ends a sleep and what ends a ban
Released ==
    \/ status = "sleeping" /\ (\E q \in Requests : Reactivate(q))
    \/ status = "banned" /\ (\E q \in Requests : Unban(q))

(* A ban ends only by unban and a sleep only by reactivate (or is lost to  *)
(* someone who loaded the account before it was set): prepare, the ticks,  *)
(* the loop and the other requests leave such an account alone.            *)
ParkedHolds ==
    [][CopiesAreFresh /\ status \in Parked => status' = status \/ Released]_vars

(* Liveness. Warmup comes to an end: by promotion to ready or by an event. *)
WarmupEnds == <>(status # "warmup")

\* the proxy is not replaced or rotated any more, and nothing listens there
ProxyStaysDead == <>[](dead /\ knows = "current")

(* An account whose proxy stays dead does not stay active: the loop puts   *)
(* it to sleep (proxy_fail_sleeping).                                      *)
DeadProxySleeps == ProxyStaysDead => []<>(status # "active")

(* The same, if the session lets go of the account again and again.        *)
ReloadedProxySleeps ==
    ProxyStaysDead /\ []<>(held = NotLoaded) => []<>(status # "active")

=============================================================================
