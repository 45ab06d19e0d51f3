--------------------------- MODULE WarmupCalendar ---------------------------
(***************************************************************************)
(* The daily warmup action of one account against its weekly schedule: the *)
(* warmup tick of each worker (cron at 03:00 UTC, and once at the start of *)
(* every worker) inserts a task, enqueues its job and then sets the        *)
(* deduplication key; the gate of run_task defers the task to the next     *)
(* opening, as often as it finds the account closed.                       *)
(*                                                                         *)
(* The order of the account's tasks among each other is TaskQueue's: here  *)
(* a task that is due is looked at in its slot.                            *)
(***************************************************************************)
EXTENDS Schedule

CONSTANTS
    Workers,
    Cron,         \* slot of the UTC day at which the cron fires
    None,
    MaxRows       \* bound: rows inserted for one day

ASSUME CalendarConstants ==
    /\ MaxRows \in Nat /\ Cron \in 0..Hours - 1
    /\ None \notin [age : Nat, left : Nat]

VARIABLES
    now,          \* bound: taken modulo two weeks
    tick,         \* worker -> idle, checked (the key was absent), committed (the
                  \* row is in), enqueued (the key is yet to be set)
    cronDue,      \* the cron of this day is still to fire
    done,         \* the key warmup:done:{account}:{day} is set
    rows,         \* rows inserted for this warmup day
    rival,        \* history: two ticks were under way at a time on this day
    crashed,      \* history: a tick died on this day
    task          \* one of the actions that were enqueued: its age and what is left
                  \* of its deferral, in slots; bounds: one is followed at a time,
                  \* and its age is counted up to LongestWait

driver == <<tick, cronDue, done, rows, rival, crashed>>
vars == <<schedule, now, driver, task>>

Horizon == 2 * Days * Hours
TickPhases == {"idle", "checked", "committed", "enqueued"}

\* the longest stretch of days without work: the end of one week's rest, a day that
\* only the old week rests on, and the rest of the next week
LongestWait == Hours * 5

TypeOK ==
    /\ ScheduleTypeOK
    /\ now \in 0..Horizon - 1
    /\ tick \in [Workers -> TickPhases]
    /\ cronDue \in BOOLEAN /\ done \in BOOLEAN
    /\ rows \in 0..MaxRows
    /\ rival \in BOOLEAN /\ crashed \in BOOLEAN
    /\ task \in [age : 0..LongestWait, left : Nat] \cup {None}

Init ==
    /\ ScheduleInit
    /\ now = 0
    /\ tick = [w \in Workers |-> "idle"]
    /\ cronDue = (Cron = 0) /\ done = FALSE /\ rows = 0
    /\ rival = FALSE /\ crashed = FALSE
    /\ task = None

Idle == \A w \in Workers : tick[w] = "idle"

-----------------------------------------------------------------------------
(* warmup_tick                                                              *)

\* Mutant: the key is not consulted.
MutantBegin(w) ==
    /\ tick[w] = "idle" /\ rows < MaxRows
    /\ cronDue' = FALSE
    /\ rival' = (rival \/ ~ Idle)
    /\ tick' = [tick EXCEPT ![w] = "checked"]
    /\ UNCHANGED <<schedule, now, done, rows, crashed, task>>

\* A tick (the cron's or a worker's first) brings warmup_day up to date and reads the
\* key of that day.
Begin(w) ==
    /\ tick[w] = "idle" /\ rows < MaxRows
    /\ cronDue' = FALSE
    /\ rival' = (rival \/ ~ Idle)
    /\ tick' = [tick EXCEPT ![w] = IF done THEN "idle" ELSE "checked"]
    /\ UNCHANGED <<schedule, now, done, rows, crashed, task>>

\* The row is committed.
Insert(w) ==
    /\ tick[w] = "checked" /\ rows < MaxRows
    /\ tick' = [tick EXCEPT ![w] = "committed"]
    /\ rows' = rows + 1
    /\ UNCHANGED <<schedule, now, cronDue, done, rival, crashed, task>>

\* Its job is in the queue.
Enqueue(w) ==
    /\ tick[w] = "committed"
    /\ tick' = [tick EXCEPT ![w] = "enqueued"]
    /\ task' \in IF task = None THEN {None, [age |-> 0, left |-> 0]} ELSE {task}
    /\ UNCHANGED <<schedule, now, cronDue, done, rows, rival, crashed>>

\* The key is set, for two days.
SetKey(w) ==
    /\ tick[w] = "enqueued"
    /\ tick' = [tick EXCEPT ![w] = "idle"]
    /\ done' = TRUE
    /\ UNCHANGED <<schedule, now, cronDue, rows, rival, crashed, task>>

\* The worker dies, or a call raises; the start of the next one ticks again.
Crash(w) ==
    /\ tick[w] # "idle"
    /\ tick' = [tick EXCEPT ![w] = "idle"]
    /\ crashed' = TRUE
    /\ UNCHANGED <<schedule, now, cronDue, done, rows, rival, task>>

-----------------------------------------------------------------------------
(* run_task's gate, and the clock                                           *)

Due == task # None /\ task.left = 0

\* Mutant: what was deferred once is deferred again.
MutantDispatch ==
    /\ Due /\ ~ (~ ShouldBeActive(now) /\ ~ Answers)
    /\ task' = IF ShouldBeActive(now) /\ task.age = 0 THEN None
               ELSE [task EXCEPT !.left = NextOpen(now) - now]
    /\ UNCHANGED <<schedule, now, driver>>

\* next_open raises before the row is claimed or deferred: it stays queued.
Raises == ~ ShouldBeActive(now) /\ ~ Answers

\* A task that is due runs if the account is active, else it is deferred.
Dispatch ==
    /\ Due /\ ~ Raises
    /\ task' = IF ShouldBeActive(now) THEN None
               ELSE [task EXCEPT !.left = NextOpen(now) - now]
    /\ UNCHANGED <<schedule, now, driver>>

Older(t) ==
    [age |-> IF t.age < LongestWait THEN t.age + 1 ELSE t.age,
     left |-> IF t.left = 0 THEN 0 ELSE t.left - 1]

\* Time passes once the ticks of this slot are over, the cron has fired and the due
\* task was looked at.  A new warmup day starts with its own key.
Pass ==
    /\ Idle /\ ~ cronDue /\ (Due => Raises)
    /\ now' = (now + 1) % Horizon
    /\ task' = IF task = None THEN None ELSE Older(task)
    /\ cronDue' = (now' % Hours = Cron)
    /\ IF now' % Hours = 0
         THEN done' = FALSE /\ rows' = 0 /\ rival' = FALSE /\ crashed' = FALSE
         ELSE UNCHANGED <<done, rows, rival, crashed>>
    /\ UNCHANGED <<schedule, tick>>

Ticks(w) == Begin(w) \/ Insert(w) \/ Enqueue(w) \/ SetKey(w)

Next == Pass \/ Dispatch \/ \E w \in Workers : Ticks(w) \/ Crash(w)

Spec == Init /\ [][Next]_vars

-----------------------------------------------------------------------------
(* Properties                                                               *)

\* warmup.py:163-166, 243: one action per account and day.  More than one takes two
\* ticks that overlap, or one that died before it set the key; and none is lost, for
\* the key stands for a job that is in the queue.
OneActionPerDay ==
    /\ rows > 1 => rival \/ crashed
    /\ done => rows > 0

\* schedule_service.py:201-222: a closed account is put off, not back, to an opening
\* of its schedule, and none is passed over; except that the next week draws other
\* rest days than the one the answer was computed in, and that a window whose start is
\* not before its end has no opening.
OpeningIsRight ==
    Proper /\ ~ ShouldBeActive(now) =>
        LET open == NextOpen(now) IN
        /\ open > now
        /\ \A t \in now..open :
               Week(t) = Week(now) => (ShouldBeActive(t) <=> t = open)

\* base_task.py:387-395: in a window whose start is before its end, a deferral ends.
\* However the rest days of two weeks fall, a task is run within five days.  In any
\* other window a task is deferred from day to day, or its dispatch raises.
DeferralEnds == Proper /\ task # None => task.age < LongestWait

=============================================================================
