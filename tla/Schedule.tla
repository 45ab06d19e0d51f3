------------------------------ MODULE Schedule ------------------------------
(***************************************************************************)
(* The weekly schedule of one account, as schedule_service.py derives it   *)
(* from the account and the week: nothing is stored, so any worker obtains *)
(* the same answer.                                                        *)
(*                                                                         *)
(* Time is counted in slots since a Monday 00:00 UTC.  The rest days are   *)
(* drawn for the UTC week, the weekday and the hour are read on the local  *)
(* clock of the account's proxy.                                           *)
(***************************************************************************)
EXTENDS Integers

CONSTANTS
    Days,         \* days of a week
    Hours,        \* slots of a day
    Windows,      \* <<work_start, work_end>> an account may have
    Zones,        \* tz_offset of a proxy, in slots
    RestSets      \* the rest days a week may draw

\* a week draws one rest day, and at times a second one; the code's week has 7 days
ASSUME ScheduleConstants ==
    /\ Days \in Nat /\ Days >= 5 /\ Hours \in Nat \ {0}
    /\ Windows \subseteq Int \X Int
    /\ Zones \subseteq Int
    /\ \A r \in RestSets : \E d, e \in 0..Days - 1 : r = {d, e}

VARIABLES
    window,       \* work_start and work_end of the account
    zone,         \* tz_offset of its proxy
    rest          \* parity of the week -> rest days; bound: the draws of two
                  \* weeks take turns

schedule == <<window, zone, rest>>

ScheduleTypeOK ==
    /\ window \in Windows /\ zone \in Zones /\ rest \in [{0, 1} -> RestSets]

ScheduleInit == ScheduleTypeOK

Week(t) == t \div (Days * Hours)
Local(t) == t + zone
Weekday(l) == (l \div Hours) % Days

\* 0..24: always on, no rest days
Disabled == window[1] <= 0 /\ window[2] >= Hours

\* deterministic_schedule: the rest days of the week that `now` is in
RestDays(now) == IF Disabled THEN {} ELSE rest[Week(now) % 2]

ShouldBeActive(now) ==
    /\ Weekday(Local(now)) \notin RestDays(now)
    /\ Local(now) % Hours \in window[1]..window[2] - 1

\* the opening of the local day d days ahead, in UTC
Opening(now, d) == ((Local(now) \div Hours) + d) * Hours + window[1] - zone

Probes(now) ==
    {d \in 0..Days : /\ Weekday(Local(now) + d * Hours) \notin RestDays(now)
                     /\ Opening(now, d) > now}

\* Mutant: the probing starts tomorrow.
MutantNextOpen(now) ==
    LET later == Probes(now) \ {0}
    IN IF later = {} THEN now + Hours
       ELSE Opening(now, CHOOSE d \in later : \A e \in later : d <= e)

\* The account API stores any two numbers (accounts.py:82-83), and nothing orders them.
\* datetime.replace raises for an hour that the day does not have ...
Answers == window[1] \in 0..Hours - 1
\* ... and a window that ends before it begins has an opening at which it is closed.
Proper == Answers /\ window[1] < window[2]

\* For an instant at which the account is not active, if Answers: the opening of the
\* first later day that the present week does not name as a rest day.
NextOpen(now) ==
    IF Probes(now) = {} THEN now + Hours
    ELSE Opening(now, CHOOSE d \in Probes(now) : \A e \in Probes(now) : d <= e)

=============================================================================
