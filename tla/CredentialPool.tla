--------------------------- MODULE CredentialPool ---------------------------
(***************************************************************************)
(* The api credentials and the accounts hung on them: POST /v1/accounts in *)
(* several transactions at a time, POST /v1/api-credentials, and the       *)
(* operators' scripts seed_accounts and onboard_local_account, which count *)
(* but look at no limit.                                                   *)
(*                                                                         *)
(* An onboarding either names the api_id of an imported session, and then  *)
(* reads its credential without a lock, or takes the emptiest unlocked     *)
(* credential of the pool FOR UPDATE SKIP LOCKED.  Both increment          *)
(* account_count in Python: the flush writes the value read plus one as a  *)
(* literal and holds the row's lock from there to the commit.  The count   *)
(* scales the aggregate budgets of Budget.tla.                             *)
(***************************************************************************)
EXTENDS Integers, FiniteSets

CONSTANTS
    Accounts,     \* the accounts that may be onboarded, one request each
    Creds,        \* the api_ids that exist
    FirstCreds,   \* those already registered
    Limit,        \* MAX_ACCOUNTS_PER_API_ID
    MaxCreds,     \* MAX_CREDENTIALS
    LocalCred,    \* DEFAULT_API_ID of onboard_local_account
    None

ASSUME PoolConstants ==
    /\ IsFiniteSet(Accounts) /\ IsFiniteSet(Creds)
    /\ FirstCreds \subseteq Creds /\ LocalCred \in Creds
    /\ Limit \in Nat \ {0} /\ MaxCreds \in Nat
    /\ None \notin Accounts \cup Creds

VARIABLES
    known,        \* credentials whose row is committed
    count,        \* credential -> committed account_count
    owner,        \* credential -> the request that holds its row lock
    req,          \* account -> its onboarding request
    registering,  \* credentials whose registration has passed its checks
    memory,       \* credential -> account_count in the session of the running
                  \* seed_accounts, None before that session has seen its row
    loose         \* history: credentials that got an account by an import or a script

poolVars == <<known, count, owner, req, registering, memory, loose>>

Phases == {"new", "absent", "chosen", "flushed", "done", "refused"}
Request == [phase : Phases, path : {"import", "pool", "seed"}, cred : Creds \cup {None}, read : Nat]

PoolTypeOK ==
    /\ known \in SUBSET Creds
    /\ count \in [Creds -> Nat]
    /\ owner \in [Creds -> Accounts \cup {None}]
    /\ req \in [Accounts -> Request]
    /\ registering \in SUBSET Creds
    /\ memory \in [Creds -> Nat \cup {None}]
    /\ loose \in SUBSET Creds

Unseen == [c \in Creds |-> None]

PoolInit ==
    /\ known = FirstCreds
    /\ count = [c \in Creds |-> 0]
    /\ owner = [c \in Creds |-> None]
    /\ req = [a \in Accounts |->
                [phase |-> "new", path |-> "pool", cred |-> None, read |-> 0]]
    /\ registering = {} /\ memory = Unseen /\ loose = {}

\* the accounts a credential really has
Linked(c) == {a \in Accounts : req[a].phase = "done" /\ req[a].cred = c}
Onboarded(a) == req[a].phase = "done"

Choose(a, path, c, n) ==
    req' = [req EXCEPT ![a] = [phase |-> "chosen", path |-> path, cred |-> c, read |-> n]]
Enter(a, phase) == req' = [req EXCEPT ![a].phase = phase]

\* An account that is refused, or done, keeps nothing that its request had read.
Refuse(a) ==
    req' = [req EXCEPT ![a] = [phase |-> "refused", path |-> "pool", cred |-> None, read |-> 0]]
Link(a) ==
    req' = [req EXCEPT ![a] =
              [phase |-> "done", path |-> "pool", cred |-> req[a].cred, read |-> 0]]
Loosened(a) == loose' = IF req[a].path = "pool" THEN loose ELSE loose \cup {req[a].cred}

-----------------------------------------------------------------------------
(* POST /v1/accounts with an api_id                                         *)

\* The row is committed: its count is read, no lock is taken.
FindImported(a, c) ==
    /\ req[a].phase = "new" /\ c \in known
    /\ IF count[c] >= Limit THEN Refuse(a) ELSE Choose(a, "import", c, count[c])
    /\ UNCHANGED <<known, count, owner, registering, memory, loose>>

\* No committed row: the request will insert one.
MissImported(a, c) ==
    /\ req[a].phase = "new" /\ c \notin known
    /\ req' = [req EXCEPT ![a] = [phase |-> "absent", path |-> "import", cred |-> c, read |-> 0]]
    /\ UNCHANGED <<known, count, owner, registering, memory, loose>>

\* INSERT and flush.  The unique index waits for another uncommitted insert and
\* refuses a row that was committed meanwhile (500, rolled back).
InsertImported(a) ==
    LET c == req[a].cred IN
    /\ req[a].phase = "absent" /\ owner[c] = None
    /\ IF c \in known
         THEN Refuse(a) /\ UNCHANGED owner
         ELSE Choose(a, "import", c, 0) /\ owner' = [owner EXCEPT ![c] = a]
    /\ UNCHANGED <<known, count, registering, memory, loose>>

-----------------------------------------------------------------------------
(* POST /v1/accounts without an api_id                                      *)

Free == {c \in known : count[c] < Limit}
Unlocked(S) == {c \in S : owner[c] = None}

\* Mutant: the select takes no lock.
MutantPickFree(a) ==
    /\ req[a].phase = "new"
    /\ IF Unlocked(Free) = {} THEN Refuse(a)
         ELSE \E c \in Unlocked(Free) :
                /\ \A d \in Unlocked(Free) : count[c] <= count[d]
                /\ Choose(a, "pool", c, count[c])
    /\ UNCHANGED <<known, count, owner, registering, memory, loose>>

\* The emptiest credential below the limit that nobody has locked, if there is one.
PickFree(a) ==
    /\ req[a].phase = "new"
    /\ IF Unlocked(Free) = {} THEN Refuse(a) /\ UNCHANGED owner
         ELSE \E c \in Unlocked(Free) :
                /\ \A d \in Unlocked(Free) : count[c] <= count[d]
                /\ Choose(a, "pool", c, count[c])
                /\ owner' = [owner EXCEPT ![c] = a]
    /\ UNCHANGED <<known, count, registering, memory, loose>>

-----------------------------------------------------------------------------
(* the scripts                                                              *)

\* onboard_local_account: the row of DEFAULT_API_ID as FindImported, whatever its
\* count; the flush comes before a login that may take minutes.  Without the row it
\* goes on as MissImported.
FindLocal(a) ==
    /\ req[a].phase = "new" /\ LocalCred \in known
    /\ Choose(a, "import", LocalCred, count[LocalCred])
    /\ UNCHANGED <<known, count, owner, registering, memory, loose>>

Seeding == \E a \in Accounts : req[a].path = "seed" /\ req[a].phase \in {"chosen", "flushed"}

\* seed_accounts, one account after the other in one session: the emptiest row by the
\* database's counts, but the count written goes up from the one the session saw
\* first, since nothing expires at a commit.
Seed(a) ==
    /\ req[a].phase = "new" /\ ~Seeding /\ known # {}
    /\ \E c \in known :
          LET n == IF memory[c] = None THEN count[c] ELSE memory[c] IN
          /\ \A d \in known : count[c] <= count[d]
          /\ Choose(a, "seed", c, n)
          /\ memory' = [memory EXCEPT ![c] = n + 1]
    /\ UNCHANGED <<known, count, owner, registering, loose>>

\* The end of its list; Commit takes this step where nobody is left to seed.
SeedEnds ==
    /\ memory # Unseen /\ ~Seeding
    /\ memory' = Unseen
    /\ UNCHANGED <<known, count, owner, req, registering, loose>>

-----------------------------------------------------------------------------
(* the rest of the transaction                                              *)

\* The flush inserts the account and updates account_count: it waits for the lock.
Flush(a) ==
    /\ req[a].phase = "chosen"
    /\ owner[req[a].cred] \in {None, a}
    /\ Enter(a, "flushed")
    /\ owner' = [owner EXCEPT ![req[a].cred] = a]
    /\ UNCHANGED <<known, count, registering, memory, loose>>

\* Mutant: the count is committed apart from the account.
MutantCommit(a) ==
    LET c == req[a].cred IN
    /\ req[a].phase = "flushed"
    /\ known' = known \cup {c}
    /\ count' = [count EXCEPT ![c] = req[a].read + 1]
    /\ owner' = [owner EXCEPT ![c] = None]
    /\ Refuse(a) \/ Link(a)
    /\ Loosened(a)
    /\ UNCHANGED <<registering, memory>>

Commit(a) ==
    LET c == req[a].cred IN
    /\ req[a].phase = "flushed"
    /\ known' = known \cup {c}
    /\ count' = [count EXCEPT ![c] = req[a].read + 1]
    /\ owner' = [owner EXCEPT ![c] = None]
    /\ Link(a) /\ Loosened(a)
    /\ memory' = IF \E b \in Accounts : req[b].phase = "new" THEN memory ELSE Unseen
    /\ UNCHANGED registering

\* The request fails anywhere before its commit (a duplicate phone, a lost
\* connection): the session rolls back and the locks go.  It is the end of a run of
\* seed_accounts: the proxies it holds are expired and cannot be read any more.
Rollback(a) ==
    /\ req[a].phase \in {"absent", "chosen", "flushed"}
    /\ Refuse(a)
    /\ owner' = [c \in Creds |-> IF owner[c] = a THEN None ELSE owner[c]]
    /\ memory' = IF req[a].path = "seed" THEN Unseen ELSE memory
    /\ UNCHANGED <<known, count, registering, loose>>

-----------------------------------------------------------------------------
(* POST /v1/api-credentials                                                 *)

\* api_id not yet registered, pool below its limit
RegisterChecks(c) ==
    /\ c \notin known /\ Cardinality(known) < MaxCreds
    /\ registering' = registering \cup {c}
    /\ UNCHANGED <<known, count, owner, req, memory, loose>>

\* INSERT and commit; a row that was committed meanwhile makes it a 500.
RegisterInserts(c) ==
    /\ c \in registering /\ owner[c] = None
    /\ registering' = registering \ {c}
    /\ known' = known \cup {c}
    /\ UNCHANGED <<count, owner, req, memory, loose>>

Onboard(a) ==
    \/ \E c \in Creds : FindImported(a, c) \/ MissImported(a, c)
    \/ FindLocal(a) \/ Seed(a)
    \/ InsertImported(a) \/ PickFree(a) \/ Flush(a) \/ Commit(a) \/ Rollback(a)

PoolNext ==
    \/ SeedEnds
    \/ \E a \in Accounts : Onboard(a)
    \/ \E c \in Creds : RegisterChecks(c) \/ RegisterInserts(c)

PoolSpec == PoolInit /\ [][PoolNext]_poolVars

-----------------------------------------------------------------------------
(* Properties                                                               *)

\* accounts.py:231: increments of concurrent requests may be lost, so the count may
\* fall behind the accounts, and even go down; it never runs ahead of them, so an
\* aggregate budget is never scaled by accounts that do not exist.
CountIsLower == \A c \in Creds : count[c] <= Cardinality(Linked(c))

\* accounts.py:129-134: a credential may carry more than MAX_ACCOUNTS_PER_API_ID
\* accounts only after an import or a script; without one its count is exact.
OverfillNeedsImport ==
    \A c \in Creds \ loose : count[c] = Cardinality(Linked(c)) /\ count[c] <= Limit

=============================================================================
