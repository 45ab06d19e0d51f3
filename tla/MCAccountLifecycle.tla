------------------------ MODULE MCAccountLifecycle ------------------------
(* One day per tier; tiers and strikes as in the code. One actor of each kind: *)
(* AccountLifecycleProofs covers any number of them.                          *)
EXTENDS AccountLifecycle

CONSTANTS r1, t1, q1

OneRun == {r1}
OneTick == {t1}
OneRequest == {q1}
DueDays == <<1, 2, 3>>

=============================================================================
