------------------------------- MODULE Budget -------------------------------
(***************************************************************************)
(* The daily budgets: counters in Redis that the workers charge before a   *)
(* Telegram call, the caps each process holds from safety.yaml, and the    *)
(* gateway's view of what is left.  The members that scale an aggregate    *)
(* cap come from CredentialPool.tla, which goes on at the same time.       *)
(*                                                                         *)
(* A counter lives for Window ticks from its first unit: a fixed window,   *)
(* not a sliding one.  A process reads safety.yaml once, at its first use; *)
(* only the gateway has an endpoint that reads it again.                   *)
(***************************************************************************)
EXTENDS CredentialPool

CONSTANTS
    Workers,      \* arq processes
    Slots,        \* bound: the jobs the workers run at a time
    WorkerOf,     \* slot -> its worker
    Gateway,
    Writes,       \* budget actions of WRITE_BUDGET_ACTION
    Sensitive,    \* SENSITIVE_ACTIONS
    Reads,        \* keys of READ_LIMITS
    UseCases,
    UseOf,        \* account -> use_case
    Orders,       \* bound: the <<account, action>> pairs that tasks ask for
    Watched,      \* the orders whose calls are recorded
    Proxies,      \* ids of proxy rows
    ProxyOf,      \* account -> its proxy row; accounts on the host's address share one
    Files,        \* the contents safety.yaml may have, one of them Broken
    Broken,
    Defaults,     \* safety_defaults.py
    TopCap,       \* <<use_case, action>> -> the largest cap of any content
    Window        \* ttl of a counter

Processes == Workers \cup {Gateway}
Actions == Writes \cup Reads

Bigger(m, n) == IF m >= n THEN m ELSE n
Smaller(m, n) == IF m <= n THEN m ELSE n

-----------------------------------------------------------------------------
(* safety_config: caps from the file, on a floor of defaults                *)

Merge(base, override) ==
    [k \in DOMAIN base \cup DOMAIN override |->
        IF k \in DOMAIN override THEN override[k] ELSE base[k]]

\* Mutant: a section of the file takes the place of the defaults' whole section.
MutantLoadFromDisk(f) ==
    IF f = Broken THEN Defaults
    ELSE [limits |-> Merge(f.profile, f.limits), profile |-> f.profile, reads |-> f.reads]

\* Every section is merged key by key; rate_limits, complete by then, wins over the
\* `conservative` profile.  A file that cannot be parsed yields the defaults.
LoadFromDisk(f) ==
    IF f = Broken THEN Defaults
    ELSE [limits |-> Merge(Merge(Defaults.limits, f.profile),
                           Merge(Defaults.limits, f.limits)),
          profile |-> f.profile,
          reads |-> Merge(Defaults.reads, f.reads)]

\* effective_cap of a non-premium account under the conservative profile
CapIn(section, k) == IF k \in DOMAIN section THEN section[k] ELSE 0
Cap(t, a, x) == CapIn(t.limits, <<UseOf[a], x>>)

\* round(0.6 * cap * members), at least one account's own cap
AggregateCap(perAccount, members) ==
    Bigger(perAccount, (6 * (perAccount * Bigger(1, members)) + 5) \div 10)

Tables == {LoadFromDisk(f) : f \in Files}

ASSUME BudgetConstants ==
    /\ IsFiniteSet(Slots) /\ Gateway \notin Workers
    /\ WorkerOf \in [Slots -> Workers] /\ None \notin Tables
    /\ Writes \cap Reads = {} /\ Sensitive \subseteq Writes
    /\ UseOf \in [Accounts -> UseCases] /\ ProxyOf \in [Accounts -> Proxies]
    /\ Orders \subseteq Accounts \X Actions /\ Watched \subseteq Orders
    /\ Broken \in Files
    /\ TopCap \in [UseCases \X Actions -> Nat]
    /\ \A t \in Tables, u \in UseCases :
        /\ \A x \in Writes : CapIn(t.limits, <<u, x>>) \in 0..TopCap[<<u, x>>]
        /\ \A x \in Reads : CapIn(t.reads, x) \in 0..TopCap[<<u, x>>]
    /\ Window \in Nat \ {0}

-----------------------------------------------------------------------------
VARIABLES
    file,         \* safety.yaml
    loaded,       \* process -> the table in its memory, None before its first use
    used,         \* counter -> its value, 0 when the key is absent
    ttl,          \* counter -> time left to live
    job,          \* worker -> the job it runs
    recent        \* history: watched order -> calls made in the current tick and in
                  \* the Window - 1 ticks before it

budgetVars == <<file, loaded, used, ttl, job, recent>>
configVars == <<file, loaded>>
vars == <<poolVars, budgetVars>>

AcctKey(a, x) == <<"acct", a, x>>
ApiKey(c, u, x) == <<"api", c, u, x>>
NetKey(p, x) == <<"net", p, x>>
ReadKey(a, x) == <<"read", a, x>>

Keys ==
    {AcctKey(a, x) : a \in Accounts, x \in Writes}
    \cup {ApiKey(c, u, x) : c \in Creds, u \in UseCases, x \in Sensitive}
    \cup {NetKey(p, x) : p \in Proxies, x \in Sensitive}
    \cup {ReadKey(a, x) : a \in Accounts, x \in Reads}

Job ==
    [stage : {"asking", "acting"}, acct : Accounts, action : Actions,
     cap : Nat, members : Nat, left : {0, 1}]

ASSUME NoneIsNoJob == None \notin Job

TypeOK ==
    /\ PoolTypeOK
    /\ file \in Files
    /\ loaded \in [Processes -> Tables \cup {None}]
    /\ used \in [Keys -> Nat]
    /\ ttl \in [Keys -> 0..Window]
    /\ job \in [Slots -> Job \cup {None}]
    /\ recent \in [Watched -> [0..Window - 1 -> Nat]]

Init ==
    /\ PoolInit
    /\ file \in Files
    /\ loaded = [p \in Processes |-> None]
    /\ used = [k \in Keys |-> 0]
    /\ ttl = [k \in Keys |-> 0]
    /\ job = [s \in Slots |-> None]
    /\ recent = [o \in Watched |-> [i \in 0..Window - 1 |-> 0]]

-----------------------------------------------------------------------------
(* the configuration                                                        *)

\* _ensure_loaded: what a process goes by, read from disk at its first use
TableOf(p) == IF loaded[p] = None THEN LoadFromDisk(file) ELSE loaded[p]
Consults(p) == loaded' = [loaded EXCEPT ![p] = TableOf(p)]

EditFile ==
    /\ file' \in Files
    /\ UNCHANGED <<poolVars, loaded, used, ttl, job, recent>>

\* POST /v1/admin/reload-safety or SIGHUP, both in the gateway
Reload ==
    /\ loaded' = [loaded EXCEPT ![Gateway] = LoadFromDisk(file)]
    /\ UNCHANGED <<poolVars, file, used, ttl, job, recent>>

\* a process dies with its job and starts with nothing read
Restart(p) ==
    /\ loaded' = [loaded EXCEPT ![p] = None]
    /\ job' = [s \in Slots |-> IF WorkerOf[s] = p THEN None ELSE job[s]]
    /\ UNCHANGED <<poolVars, file, used, ttl, recent>>

-----------------------------------------------------------------------------
(* the counters                                                             *)

\* Mutant: the expiry is left to a second round-trip.
MutantIncremented(S) ==
    /\ used' = [k \in Keys |-> IF k \in S THEN used[k] + 1 ELSE used[k]]
    /\ ttl' = ttl

\* INCR, with EXPIRE at the first unit, in one script
Incremented(S) ==
    /\ used' = [k \in Keys |-> IF k \in S THEN used[k] + 1 ELSE used[k]]
    /\ ttl' = [k \in Keys |-> IF k \in S /\ used[k] = 0 THEN Window ELSE ttl[k]]

\* the counters one unit of a write action goes to
Budgets(a, x) ==
    {AcctKey(a, x)} \cup
    (IF x \in Sensitive
       THEN {ApiKey(req[a].cred, UseOf[a], x), NetKey(ProxyOf[a], x)} ELSE {})

\* the api aggregate counts the credential's members, the net aggregate one
CapOf(k, cap, members) ==
    CASE k[1] = "acct" -> cap
      [] k[1] = "api" -> AggregateCap(cap, members)
      [] OTHER -> AggregateCap(cap, 1)

Affordable(a, x, cap, members) ==
    \A k \in Budgets(a, x) : used[k] + 1 <= CapOf(k, cap, members)

Members(a) == Bigger(1, count[req[a].cred])

-----------------------------------------------------------------------------
(* run_task                                                                 *)

Enters(s, stage, a, x, cap, members) ==
    job' = [job EXCEPT ![s] = [stage |-> stage, acct |-> a, action |-> x,
                               cap |-> cap, members |-> members, left |-> 1]]
Leaves(s) == job' = [job EXCEPT ![s] = None]
BecomesActing(s) == job' = [job EXCEPT ![s].stage = "acting"]

\* _consume_write_budget up to the script: the cap of the worker's table and the
\* members committed now.  No positive cap, no budget: the action goes on.
TakeWrite(s, a, x) ==
    LET cap == Cap(TableOf(WorkerOf[s]), a, x) IN
    /\ job[s] = None /\ Onboarded(a)
    /\ Consults(WorkerOf[s])
    /\ Enters(s, IF cap <= 0 THEN "acting" ELSE "asking", a, x, cap, Members(a))
    /\ UNCHANGED <<poolVars, file, used, ttl, recent>>

\* Mutant: the counters were compared when the job was taken.
MutantSpend(s) ==
    /\ job[s] # None /\ job[s].stage = "asking"
    /\ Incremented(Budgets(job[s].acct, job[s].action))
    /\ BecomesActing(s)
    /\ UNCHANGED <<poolVars, configVars, recent>>

\* The script: every counter has room and takes one unit ...
Spend(s) ==
    /\ job[s] # None /\ job[s].stage = "asking"
    /\ Affordable(job[s].acct, job[s].action, job[s].cap, job[s].members)
    /\ Incremented(Budgets(job[s].acct, job[s].action))
    /\ BecomesActing(s)
    /\ UNCHANGED <<poolVars, configVars, recent>>

\* ... or none does, and the task is deferred for an hour.
RefuseWrite(s) ==
    /\ job[s] # None /\ job[s].stage = "asking"
    /\ ~ Affordable(job[s].acct, job[s].action, job[s].cap, job[s].members)
    /\ Leaves(s)
    /\ UNCHANGED <<poolVars, configVars, used, ttl, recent>>

\* _read_budget_exceeded: a read is counted first and compared after, so the counter
\* passes its cap.  Beyond the cap the task is deferred; no cap, no budget.
\* Bound: the counter is followed to one past the largest cap.
TakeRead(s, a, x) ==
    LET cap == CapIn(TableOf(WorkerOf[s]).reads, x)
        k == ReadKey(a, x) IN
    /\ job[s] = None /\ Onboarded(a)
    /\ Consults(WorkerOf[s])
    /\ IF cap = 0
         THEN UNCHANGED <<used, ttl>> /\ Enters(s, "acting", a, x, 0, 1)
         ELSE /\ IF used[k] > TopCap[<<UseOf[a], x>>] THEN UNCHANGED <<used, ttl>>
                   ELSE Incremented({k})
              /\ IF used[k] + 1 > cap THEN UNCHANGED job
                   ELSE Enters(s, "acting", a, x, cap, 1)
    /\ UNCHANGED <<poolVars, file, recent>>

\* Bound: calls are counted to one past what AtMostTwoWindows allows.
Recorded(a, x) ==
    recent' = [o \in Watched |->
        IF o = <<a, x>>
          THEN [recent[o] EXCEPT ![0] = Smaller(@ + 1, 2 * TopCap[<<UseOf[a], x>>] + 1)]
          ELSE recent[o]]

\* The call reaches Telegram, whatever becomes of its answer.
Perform(s) ==
    /\ job[s] # None /\ job[s].stage = "acting"
    /\ Recorded(job[s].acct, job[s].action)
    /\ Leaves(s)
    /\ UNCHANGED <<poolVars, configVars, used, ttl>>

\* Mutant: the unit of a call that failed is given back, though Telegram may have
\* performed it.
MutantFail(s) ==
    LET refunded == Budgets(job[s].acct, job[s].action) IN
    /\ job[s] # None /\ job[s].stage = "acting"
    /\ job[s].action \in Writes /\ \A k \in refunded : used[k] > 1
    /\ used' = [k \in Keys |-> IF k \in refunded THEN used[k] - 1 ELSE used[k]]
    /\ Recorded(job[s].acct, job[s].action)
    /\ Leaves(s)
    /\ UNCHANGED <<poolVars, configVars, ttl>>

\* It fails on the way (FloodWait, a dead proxy): the unit stays spent, and the retry
\* of the task asks for another.
Fail(s) ==
    /\ job[s] # None /\ job[s].stage = "acting"
    /\ Leaves(s)
    /\ UNCHANGED <<poolVars, configVars, used, ttl, recent>>

-----------------------------------------------------------------------------
(* time                                                                     *)

\* A counter goes with its ttl.  Bound: a job lasts at most one tick (job_timeout is
\* 600 s, a counter lives 86400 s).
Tick ==
    /\ \A s \in Slots : job[s] # None => job[s].left = 1 /\ job[s].stage = "acting"
    /\ job' = [s \in Slots |->
                IF job[s] = None THEN None ELSE [job[s] EXCEPT !.left = 0]]
    /\ ttl' = [k \in Keys |-> IF ttl[k] = 0 THEN 0 ELSE ttl[k] - 1]
    /\ used' = [k \in Keys |-> IF ttl[k] = 1 THEN 0 ELSE used[k]]
    /\ recent' = [o \in Watched |->
                    [i \in 0..Window - 1 |-> IF i = 0 THEN 0 ELSE recent[o][i - 1]]]
    /\ UNCHANGED <<poolVars, configVars>>

Works(s) == Spend(s) \/ RefuseWrite(s) \/ Perform(s) \/ Fail(s)

BudgetNext ==
    \/ EditFile \/ Reload \/ Tick
    \/ \E p \in Processes : Restart(p)
    \/ \E s \in Slots :
        \/ Works(s)
        \/ \E o \in Orders : \/ o[2] \in Writes /\ TakeWrite(s, o[1], o[2])
                             \/ o[2] \in Reads /\ TakeRead(s, o[1], o[2])

Next == (PoolNext /\ UNCHANGED budgetVars) \/ BudgetNext

Spec == Init /\ [][Next]_vars

-----------------------------------------------------------------------------
(* GET /v1/limits                                                           *)

\* Mutant: the dashboard has a formula of its own for the aggregate cap.
MutantRemaining(a, x) ==
    LET cap == Cap(TableOf(Gateway), a, x)
        own == Bigger(0, cap - used[AcctKey(a, x)])
        key == ApiKey(req[a].cred, UseOf[a], x)
    IN IF x \in Sensitive
         THEN Smaller(own, Bigger(0, (6 * (cap * Members(a)) + 5) \div 10 - used[key]))
         ELSE own

\* what the gateway reports as left of a write action
Remaining(a, x) ==
    LET cap == Cap(TableOf(Gateway), a, x)
        own == Bigger(0, cap - used[AcctKey(a, x)])
        key == ApiKey(req[a].cred, UseOf[a], x)
    IN IF x \in Sensitive
         THEN Smaller(own, Bigger(0, AggregateCap(cap, Members(a)) - used[key]))
         ELSE own

-----------------------------------------------------------------------------
(* Properties                                                               *)

\* redis_client.py:35-39: a counter never exists without an expiry, so no account
\* stays over its cap forever.
EveryCounterExpires == \A k \in Keys : used[k] > 0 => ttl[k] > 0

\* budget.py:121-124, accounts.py:231: the aggregate of a credential stays within the
\* share of the accounts it really has, whatever workers ask at the same time with
\* whatever tables, and whatever increments of the member count were lost.
AggregateWithinMembers ==
    \A c \in Creds, u \in UseCases, x \in Sensitive :
        used[ApiKey(c, u, x)] <=
            AggregateCap(TopCap[<<u, x>>], Cardinality(Linked(c)))

AlwaysCapped(a, x) ==
    IF x \in Writes THEN \A t \in Tables : Cap(t, a, x) > 0
                    ELSE \A t \in Tables : CapIn(t.reads, x) > 0

\* the calls counted in f, each as <<ticks ago, number within the tick>>
CallsOf(f) == UNION {{i} \X (1..f[i]) : i \in DOMAIN f}
Total(f) == Cardinality(CallsOf(f))

\* limits.py:59-60: the window starts at the first unit and does not slide, so any 24
\* hours see at most the calls of two windows; failed calls, retries and restarts of
\* the processes add none.  Only where the cap is positive: without one the workers
\* count nothing.
AtMostTwoWindows ==
    \A o \in Watched :
        AlwaysCapped(o[1], o[2]) => Total(recent[o]) <= 2 * TopCap[<<UseOf[o[1]], o[2]>>]

\* limits.py:52-55: where the gateway reports nothing left, a worker with the same
\* table is refused.  (Not the converse: the report leaves out the net aggregate.)
ZeroRemainingIsRefused ==
    \A a \in Accounts, x \in Writes, w \in Workers :
        Onboarded(a) /\ TableOf(w) = TableOf(Gateway) /\ Cap(TableOf(w), a, x) > 0
        /\ Remaining(a, x) = 0
            => ~ Affordable(a, x, Cap(TableOf(w), a, x), Members(a))

KeyOf(o) == IF o[2] \in Writes THEN AcctKey(o[1], o[2]) ELSE ReadKey(o[1], o[2])

\* the jobs about to make a call of the order, and those of them that took its unit in
\* this tick
Acting(o) ==
    {s \in Slots : /\ job[s] # None /\ job[s].stage = "acting"
                   /\ job[s].acct = o[1] /\ job[s].action = o[2]}
Taken(o) == {s \in Acting(o) : job[s].left = 1}

\* the defaults cap the action, and no content of the file that can be read says 0
KeptOn(a, x) ==
    LET k == IF x \in Writes THEN <<UseOf[a], x>> ELSE x
        Section(t) == IF x \in Writes THEN t.limits ELSE t.reads IN
    /\ CapIn(Section(Defaults), k) > 0
    /\ \A f \in Files \ {Broken} : k \in DOMAIN Section(f) => Section(f)[k] > 0

\* safety_config.py:59-64 and :88-95, base_task.py:319-322: no cap means no budget, so
\* an action that nobody turned off must not lose its cap on the way from a file that
\* leaves it out or is broken, at whatever time a process read it.  Each call about to
\* be made has a unit of its own in the counter.
NoCallIsUncounted ==
    \A o \in Watched :
        KeptOn(o[1], o[2]) => Cardinality(Taken(o)) <= used[KeyOf(o)]

=============================================================================
