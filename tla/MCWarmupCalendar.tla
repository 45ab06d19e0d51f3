-------------------------- MODULE MCWarmupCalendar --------------------------
(***************************************************************************)
(* An instance of WarmupCalendar for TLC: days of three slots.            *)
(***************************************************************************)
EXTENDS WarmupCalendar, TLC

\* an office day, always on, a window that is never open, and one whose start is no hour
Offices == {<<1, 2>>, <<0, 3>>, <<2, 1>>, <<-1, 2>>}
WestAndEast == {-1, 1}
\* Monday is 0: single days, pairs around the weekend and inside the week
Draws == {{0}, {3}, {6}, {0, 1}, {1, 2}, {5, 6}, {0, 6}, {0, 3}}
WorkerSymmetry == Permutations(Workers)

=============================================================================
