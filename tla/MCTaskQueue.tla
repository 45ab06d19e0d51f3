---------------------------- MODULE MCTaskQueue ----------------------------
(***************************************************************************)
(* Instances of TaskQueue for TLC.  Rank 1 is the front of the queue.      *)
(***************************************************************************)
EXTENDS TaskQueue, TLC

CONSTANTS t1, t2, t3, a1

OneAccountOneTask == [t \in {t1} |-> a1]
OneAccountTwoTasks == [t \in {t1, t2} |-> a1]
OneAccountThreeTasks == [t \in {t1, t2, t3} |-> a1]

RankOne == (t1 :> 1)
RankTwo == (t1 :> 1) @@ (t2 :> 2)
RankThree == (t1 :> 1) @@ (t2 :> 2) @@ (t3 :> 3)

\* Runs are interchangeable: no formula names one of them.
RunSymmetry == Permutations(Runs)

=============================================================================
