-------------------------- MODULE MCRecoveryLease --------------------------
(***************************************************************************)
(* Instances of RecoveryLease for TLC.  One unit of time is 300 s, so the  *)
(* production values 600, 900 and 300 s are 2, 3 and 1.                    *)
(***************************************************************************)
EXTENDS RecoveryLease

\* Long enough for two full cycles of claim, death and recovery.
TwoCycles == 2 * (Lease + SweepEvery + JobTimeout)

=============================================================================
