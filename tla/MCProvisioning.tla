--------------------------- MODULE MCProvisioning ---------------------------
(***************************************************************************)
(* Three runs for two clients on a pool of two ports: the first slice ends *)
(* at the port where the second begins, and the last leaves the pool.      *)
(***************************************************************************)
EXTENDS Provisioning, TLC

CONSTANTS r1, r2, r3, c1, c2, g1, g2

MCRuns == {r1, r2, r3}
MCClients == {c1, c2}
MCGateways == {g1, g2}
MCSlices == {<<1, 2>>, <<2, 2>>, <<1, 1>>, <<2, 3>>}

\* Bound: once two runs have crossed, nothing follows the start of the third.
TwoCross == overlapped => \E r \in Runs : job[r] = None

Symmetry == Permutations(MCRuns) \cup Permutations(MCClients) \cup Permutations(MCGateways)
=============================================================================
