------------------------------ MODULE MCBudget ------------------------------
(***************************************************************************)
(* An instance of Budget for TLC.  One tick is half the life of a counter; *)
(* the worker runs two jobs at a time.                                     *)
(***************************************************************************)
EXTENDS Budget, TLC

CONSTANTS a1, a2, w1

OneUseCase == [a \in Accounts |-> "join_groups"]
OneWorker == [s \in Slots |-> w1]

\* both accounts run on the host's address
Host == [a \in Accounts |-> 1]

Ordered == {<<a1, "joins_per_day">>, <<a2, "joins_per_day">>,
            <<a2, "reactions_per_day">>, <<a2, "get_chat_info">>}
Recorded1 == {<<a1, "joins_per_day">>}

\* caps scaled down; reactions have none.  The operator's file allows one more join;
\* another mentions no cap at all.
Join == <<"join_groups", "joins_per_day">>
CodeDefaults ==
    [limits |-> (Join :> 1), profile |-> <<>>, reads |-> [x \in Reads |-> 1]]
Edited == [limits |-> (Join :> 2), profile |-> (Join :> 1), reads |-> <<>>]
Bare == [limits |-> <<>>, profile |-> <<>>, reads |-> <<>>]
Contents == {Broken, Edited, Bare}
LargestCaps == [k \in UseCases \X Actions |-> IF k = Join THEN 2 ELSE 1]

SlotSymmetry == Permutations(Slots)

=============================================================================
