---------------------------- MODULE AccountSlot ----------------------------
(***************************************************************************)
(* What the per-account FIFO promises (FR-021): every account has one      *)
(* execution slot.  A task takes a free slot, a held slot is given back,   *)
(* and no task takes a slot that another one holds.  How a claim is        *)
(* decided, and what happens to a worker that dies, is left to TaskQueue.  *)
(***************************************************************************)
CONSTANTS
    Tasks,        \* tasks that may execute
    Accounts,     \* accounts, each with one slot
    AccountOf     \* task -> account

VARIABLE holder   \* account -> the tasks that hold its slot: none or one

SlotInit == holder = [a \in Accounts |-> {}]

\* A claim commits.
Acquire(t) ==
    /\ holder[AccountOf[t]] = {}
    /\ holder' = [holder EXCEPT ![AccountOf[t]] = {t}]

\* A result commits, or the recovery sweep resets orphans of several accounts.
Release(freed) ==
    /\ \A a \in freed : holder[a] # {}
    /\ holder' = [a \in Accounts |-> IF a \in freed THEN {} ELSE holder[a]]

SlotNext ==
    \/ \E t \in Tasks : Acquire(t)
    \/ \E freed \in SUBSET Accounts : Release(freed)

SlotSpec == SlotInit /\ [][SlotNext]_holder

=============================================================================
