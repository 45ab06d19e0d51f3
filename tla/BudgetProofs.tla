---------------------------- MODULE BudgetProofs ----------------------------
(***************************************************************************)
(* Proofs about CredentialPool, for every set of accounts and credentials, *)
(* every limit and every number of requests and scripts at a time; and     *)
(* about Budget, which goes on beside it, for every number of accounts,    *)
(* workers and jobs and for every content of safety.yaml.                  *)
(*                                                                         *)
(* Four parts: the pool (PoolInv), the counters (BudgetInv, which includes *)
(* it), what follows for the report and the configuration, and the calls   *)
(* of any 24 hours (WindowInv, which includes BudgetInv).                  *)
(***************************************************************************)
EXTENDS Budget, FiniteSetTheorems, TLAPS

-----------------------------------------------------------------------------
(* the credentials and their accounts                                       *)

InFlight(a) == req[a].phase \in {"chosen", "flushed"}

\* A request that goes by a credential names one, and holds its row from the
\* flush on, or from the select if it came through the pool.
Holders ==
    \A a \in Accounts :
        /\ req[a].phase \in {"absent", "chosen", "flushed", "done"} => req[a].cred \in Creds
        /\ InFlight(a) /\ (req[a].phase = "flushed" \/ req[a].path = "pool")
              => owner[req[a].cred] = a

\* The count a request goes by was right or too low when it was read, and the
\* accounts of a credential only become more.
ReadsArePast ==
    \A a \in Accounts, c \in Creds :
        InFlight(a) /\ req[a].cred = c => req[a].read <= Cardinality(Linked(c))

\* A request of the pool holds the row, so the count it read is still the count.
PoolReads ==
    \A a \in Accounts :
        InFlight(a) /\ req[a].path = "pool"
            => req[a].read = count[req[a].cred] /\ req[a].read < Limit

\* What seed_accounts remembers is at most one ahead, by the account it is adding.
MemoryIsPast ==
    \A c \in Creds : memory[c] # None =>
        \/ memory[c] <= Cardinality(Linked(c))
        \/ /\ memory[c] <= Cardinality(Linked(c)) + 1
           /\ \E a \in Accounts : InFlight(a) /\ req[a].path = "seed" /\ req[a].cred = c

\* The inductive invariant: a commit writes one more than what was read, so the
\* counts stay below the accounts only if what was read does (ReadsArePast,
\* MemoryIsPast), and stay exact only if nobody else commits meanwhile
\* (PoolReads, which rests on Holders).
PoolInv ==
    /\ PoolTypeOK /\ Holders /\ ReadsArePast /\ PoolReads /\ MemoryIsPast
    /\ CountIsLower /\ OverfillNeedsImport

-----------------------------------------------------------------------------
(* the accounts of a credential                                             *)

LEMMA LinkedCount ==
  ASSUME NEW c
  PROVE  IsFiniteSet(Linked(c)) /\ Cardinality(Linked(c)) \in Nat
  BY PoolConstants, FS_Subset, FS_CardinalityType DEF Linked

\* An account that is not done before or after a step is linked to nothing.
LEMMA NotLinked ==
  ASSUME PoolTypeOK, NEW a \in Accounts, NEW r,
         req[a].phase # "done", r.phase # "done", req' = [req EXCEPT ![a] = r]
  PROVE  \A c : Linked(c)' = Linked(c)
  BY DEF Linked, PoolTypeOK

\* A commit adds one account to the credential of its request.
LEMMA LinkAdds ==
  ASSUME PoolTypeOK, NEW a \in Accounts, req[a].phase # "done", Link(a),
         NEW d, d = req[a].cred
  PROVE  /\ Cardinality(Linked(d)') = Cardinality(Linked(d)) + 1
         /\ \A c : c # d => Linked(c)' = Linked(c)
<1>1. Linked(d)' = Linked(d) \cup {a} /\ a \notin Linked(d)
  BY DEF Linked, Link, PoolTypeOK, Request
<1>2. Cardinality(Linked(d) \cup {a}) = Cardinality(Linked(d)) + 1
  BY <1>1, LinkedCount, FS_AddElement
<1>3. \A c : c # d => Linked(c)' = Linked(c)
  BY DEF Linked, Link, PoolTypeOK, Request
<1> QED BY <1>1, <1>2, <1>3

-----------------------------------------------------------------------------
LEMMA InitPoolInv == PoolInit => PoolInv
<1> SUFFICES ASSUME PoolInit PROVE PoolInv
  OBVIOUS
<1>1. PoolTypeOK
  BY PoolConstants DEF PoolInit, PoolTypeOK, Request, Phases, Unseen
<1>2. \A c : Linked(c) = {}
  BY DEF PoolInit, Linked
<1>3. \A c : Cardinality(Linked(c)) = 0
  BY <1>2, FS_EmptySet
<1>4. Holders /\ ReadsArePast /\ PoolReads /\ MemoryIsPast
  BY DEF PoolInit, Holders, ReadsArePast, PoolReads, MemoryIsPast, InFlight, Unseen
<1>5. CountIsLower /\ OverfillNeedsImport
  BY <1>3, PoolConstants DEF PoolInit, CountIsLower, OverfillNeedsImport
<1> QED BY <1>1, <1>4, <1>5 DEF PoolInv

\* A request that begins, fails or reaches its flush: nothing is committed.
LEMMA BeforeCommit ==
  ASSUME PoolInv, NEW a \in Accounts, NEW r \in Request,
         req[a].phase # "done", r.phase # "done", req' = [req EXCEPT ![a] = r],
         r.phase \in {"absent", "chosen", "flushed"} => r.cred \in Creds,
         r.phase \in {"chosen", "flushed"} =>
            /\ r.read <= Cardinality(Linked(r.cred))
            /\ r.phase = "flushed" \/ r.path = "pool" => owner'[r.cred] = a
            /\ r.path = "pool" => r.read = count[r.cred] /\ r.read < Limit,
         \A c \in Creds : owner[c] \notin {None, a} => owner'[c] = owner[c],
         owner' \in [Creds -> Accounts \cup {None}],
         UNCHANGED <<known, count, registering, loose>>,
         memory' \in [Creds -> Nat \cup {None}],
         \A c \in Creds : memory'[c] # None =>
            \/ memory'[c] <= Cardinality(Linked(c))
            \/ /\ memory'[c] <= Cardinality(Linked(c)) + 1
               /\ \/ r.phase \in {"chosen", "flushed"} /\ r.path = "seed" /\ r.cred = c
                  \/ \E b \in Accounts \ {a} :
                        InFlight(b) /\ req[b].path = "seed" /\ req[b].cred = c
  PROVE  PoolInv'
<1>1. \A c : Linked(c)' = Linked(c)
  BY NotLinked DEF PoolInv
<1>2. PoolTypeOK'
  BY DEF PoolInv, PoolTypeOK
<1>3. req'[a] = r /\ \A b \in Accounts \ {a} : req'[b] = req[b]
  BY DEF PoolInv, PoolTypeOK
<1>4. Holders'
  <2> SUFFICES ASSUME NEW b \in Accounts
               PROVE  /\ req'[b].phase \in {"absent", "chosen", "flushed", "done"}
                            => req'[b].cred \in Creds
                      /\ InFlight(b)' /\ (req'[b].phase = "flushed" \/ req'[b].path = "pool")
                            => owner'[req'[b].cred] = b
    BY DEF Holders
  <2>1. CASE b = a
    BY <1>3, <2>1 DEF InFlight
  <2>2. CASE b # a
    BY <1>3, <2>2, PoolConstants DEF InFlight, PoolInv, Holders
  <2> QED BY <2>1, <2>2
<1>5. ReadsArePast'
  BY <1>1, <1>3 DEF ReadsArePast, InFlight, PoolInv
<1>6. PoolReads'
  BY <1>3 DEF PoolReads, InFlight, PoolInv
<1>7. MemoryIsPast'
  <2> SUFFICES ASSUME NEW c \in Creds, memory'[c] # None
               PROVE  \/ memory'[c] <= Cardinality(Linked(c))
                      \/ /\ memory'[c] <= Cardinality(Linked(c)) + 1
                         /\ \E b \in Accounts :
                               InFlight(b)' /\ req'[b].path = "seed" /\ req'[b].cred = c
    BY <1>1 DEF MemoryIsPast
  <2> QED BY <1>3 DEF InFlight
<1>8. CountIsLower' /\ OverfillNeedsImport'
  BY <1>1 DEF CountIsLower, OverfillNeedsImport, PoolInv
<1> QED BY <1>2, <1>4, <1>5, <1>6, <1>7, <1>8 DEF PoolInv

\* A step that leaves the requests alone and may register a credential.
LEMMA BesideRequests ==
  ASSUME PoolInv, UNCHANGED <<count, owner, req, loose>>,
         known' \in SUBSET Creds, registering' \in SUBSET Creds,
         memory' \in {memory, Unseen}
  PROVE  PoolInv'
<1>1. \A c : Linked(c)' = Linked(c)
  BY DEF Linked
<1>2. PoolTypeOK'
  BY DEF PoolInv, PoolTypeOK, Unseen
<1>3. Holders' /\ ReadsArePast' /\ PoolReads'
  BY <1>1 DEF PoolInv, Holders, ReadsArePast, PoolReads, InFlight
<1>4. MemoryIsPast'
  BY <1>1 DEF PoolInv, MemoryIsPast, InFlight, Unseen
<1>5. CountIsLower' /\ OverfillNeedsImport'
  BY <1>1 DEF PoolInv, CountIsLower, OverfillNeedsImport
<1> QED BY <1>2, <1>3, <1>4, <1>5 DEF PoolInv

\* The commit: the request holds the row, so nobody else's count is touched.
LEMMA CommitKeeps ==
  ASSUME PoolInv, NEW a \in Accounts, Commit(a)
  PROVE  PoolInv'
<1>0. PICK d : d = req[a].cred
  OBVIOUS
<1>n. PICK n : n = Cardinality(Linked(d))
  OBVIOUS
<1>1. /\ req[a].phase = "flushed" /\ Link(a) /\ Loosened(a)
      /\ count' = [count EXCEPT ![d] = req[a].read + 1]
      /\ owner' = [owner EXCEPT ![d] = None]
      /\ known' = known \cup {d} /\ registering' = registering
      /\ memory' \in {memory, Unseen}
  BY <1>0 DEF Commit
<1>2. d \in Creds /\ owner[d] = a /\ req[a] \in Request /\ req[a].read <= n /\ InFlight(a)
  BY <1>0, <1>n, <1>1 DEF PoolInv, Holders, ReadsArePast, PoolTypeOK, InFlight
<1>3. /\ Cardinality(Linked(d)') = n + 1 /\ n \in Nat
      /\ \A c : c # d => Linked(c)' = Linked(c)
  BY <1>0, <1>n, <1>1, LinkAdds, LinkedCount DEF PoolInv
<1>4. /\ req'[a] = [phase |-> "done", path |-> "pool", cred |-> d, read |-> 0]
      /\ \A b \in Accounts \ {a} : req'[b] = req[b]
  BY <1>0, <1>1 DEF Link, PoolInv, PoolTypeOK
<1>5. PoolTypeOK'
  <2>1. req' \in [Accounts -> Request]
    BY <1>0, <1>1, <1>2 DEF Link, PoolInv, PoolTypeOK, Request, Phases
  <2>2. count' \in [Creds -> Nat]
    BY <1>1, <1>2 DEF PoolInv, PoolTypeOK, Request
  <2>3. loose' \in SUBSET Creds
    BY <1>0, <1>1, <1>2 DEF PoolInv, PoolTypeOK, Loosened
  <2> QED BY <1>1, <1>2, <2>1, <2>2, <2>3 DEF PoolInv, PoolTypeOK, Unseen
\* Whoever else holds a row, or reads the pool's, goes by another credential.
<1>6. \A b \in Accounts \ {a} :
         InFlight(b) /\ (req[b].phase = "flushed" \/ req[b].path = "pool") => req[b].cred # d
  BY <1>2 DEF PoolInv, Holders
<1>7. Holders'
  BY <1>1, <1>2, <1>4, <1>6 DEF PoolInv, PoolTypeOK, Holders, InFlight
<1>8. ReadsArePast'
  <2> SUFFICES ASSUME NEW b \in Accounts, NEW c \in Creds, InFlight(b)', req'[b].cred = c
               PROVE  req'[b].read <= Cardinality(Linked(c)')
    BY DEF ReadsArePast
  <2>1. b # a /\ req'[b] = req[b] /\ InFlight(b) /\ req[b] \in Request
    BY <1>4 DEF InFlight, PoolInv, PoolTypeOK
  <2>2. req[b].read <= Cardinality(Linked(c)) /\ req[b].read \in Nat
    BY <2>1 DEF PoolInv, ReadsArePast, Request
  <2>3. CASE c = d
    BY <1>n, <1>3, <2>1, <2>2, <2>3
  <2>4. CASE c # d
    BY <1>3, <2>1, <2>2, <2>4
  <2> QED BY <2>3, <2>4
<1>9. PoolReads'
  BY <1>1, <1>4, <1>6 DEF PoolInv, PoolTypeOK, PoolReads, InFlight, Holders
<1>10. MemoryIsPast'
  <2> SUFFICES ASSUME NEW c \in Creds, memory'[c] # None
               PROVE  \/ memory'[c] <= Cardinality(Linked(c)')
                      \/ /\ memory'[c] <= Cardinality(Linked(c)') + 1
                         /\ \E b \in Accounts :
                               InFlight(b)' /\ req'[b].path = "seed" /\ req'[b].cred = c
    BY DEF MemoryIsPast
  <2>1. memory'[c] = memory[c] /\ memory[c] # None /\ memory[c] \in Nat
    BY <1>1 DEF Unseen, PoolInv, PoolTypeOK
  <2>2. \/ memory[c] <= Cardinality(Linked(c))
        \/ /\ memory[c] <= Cardinality(Linked(c)) + 1
           /\ \E b \in Accounts : InFlight(b) /\ req[b].path = "seed" /\ req[b].cred = c
    BY <2>1 DEF PoolInv, MemoryIsPast
  <2>3. CASE c = d
    BY <1>n, <1>3, <2>1, <2>2, <2>3
  <2>4. CASE c # d
    <3>1. Linked(c)' = Linked(c)
      BY <1>3, <2>4
    <3>2. \A b \in Accounts : InFlight(b) /\ req[b].cred = c => InFlight(b)' /\ req'[b] = req[b]
      BY <1>0, <1>4, <2>4 DEF InFlight
    <3> QED BY <2>1, <2>2, <3>1, <3>2
  <2> QED BY <2>3, <2>4
<1>11. CountIsLower'
  <2> SUFFICES ASSUME NEW c \in Creds PROVE count'[c] <= Cardinality(Linked(c)')
    BY DEF CountIsLower
  <2>1. CASE c = d
    BY <1>1, <1>2, <1>3, <2>1 DEF PoolInv, PoolTypeOK, Request
  <2>2. CASE c # d
    BY <1>1, <1>3, <2>2 DEF PoolInv, PoolTypeOK, CountIsLower
  <2> QED BY <2>1, <2>2
<1>12. OverfillNeedsImport'
  <2> SUFFICES ASSUME NEW c \in Creds, c \notin loose'
               PROVE  count'[c] = Cardinality(Linked(c)') /\ count'[c] <= Limit
    BY DEF OverfillNeedsImport
  <2>1. c \notin loose /\ (c = d => req[a].path = "pool")
    BY <1>0, <1>1, <1>2 DEF Loosened
  <2>2. CASE c = d
    <3>1. req[a].read = count[d] /\ req[a].read < Limit /\ count[d] = n
      BY <1>0, <1>n, <1>2, <2>1, <2>2 DEF PoolInv, PoolReads, OverfillNeedsImport
    <3> QED BY <1>1, <1>2, <1>3, <2>2, <3>1, PoolConstants DEF PoolInv, PoolTypeOK, Request
  <2>3. CASE c # d
    BY <1>1, <1>3, <2>1, <2>3 DEF PoolInv, PoolTypeOK, OverfillNeedsImport
  <2> QED BY <2>2, <2>3
<1> QED BY <1>5, <1>7, <1>8, <1>9, <1>10, <1>11, <1>12 DEF PoolInv

-----------------------------------------------------------------------------
(* one lemma per group of actions                                           *)

NoRequest == [phase |-> "refused", path |-> "pool", cred |-> None, read |-> 0]

\* The requests that begin: the count read is at most the accounts of the row.
LEMMA BeginKeeps ==
  ASSUME PoolInv, NEW a \in Accounts, NEW c \in Creds,
         FindImported(a, c) \/ MissImported(a, c) \/ FindLocal(a) \/ Seed(a) \/ PickFree(a)
  PROVE  PoolInv'
<1>0. /\ req[a].phase = "new" /\ PoolTypeOK /\ NoRequest \in Request
      /\ \A d \in Creds : count[d] \in Nat /\ count[d] <= Cardinality(Linked(d))
  BY PoolConstants
     DEF FindImported, MissImported, FindLocal, Seed, PickFree, PoolInv, PoolTypeOK, CountIsLower,
         NoRequest, Request, Phases
<1>1. \A d \in Creds : memory[d] # None =>
        \/ memory[d] <= Cardinality(Linked(d))
        \/ /\ memory[d] <= Cardinality(Linked(d)) + 1
           /\ \E b \in Accounts \ {a} : InFlight(b) /\ req[b].path = "seed" /\ req[b].cred = d
  BY <1>0 DEF PoolInv, MemoryIsPast, InFlight
<1>2. CASE req' = [req EXCEPT ![a] = NoRequest]
           /\ UNCHANGED <<known, count, owner, registering, memory, loose>>
  BY <1>0, <1>1, <1>2, BeforeCommit DEF PoolTypeOK, NoRequest
<1>3. ASSUME NEW d \in Creds, Choose(a, "import", d, count[d]),
             UNCHANGED <<known, count, owner, registering, memory, loose>>
      PROVE  PoolInv'
  <2>1. PICK r : r = [phase |-> "chosen", path |-> "import", cred |-> d, read |-> count[d]]
    OBVIOUS
  <2>2. /\ r \in Request /\ r.phase = "chosen" /\ r.cred = d /\ r.path = "import"
        /\ r.read <= Cardinality(Linked(r.cred)) /\ req' = [req EXCEPT ![a] = r]
    BY <1>0, <1>3, <2>1 DEF Request, Phases, Choose
  <2>3. \A e \in Creds : memory'[e] # None =>
          \/ memory'[e] <= Cardinality(Linked(e))
          \/ /\ memory'[e] <= Cardinality(Linked(e)) + 1
             /\ \/ r.phase \in {"chosen", "flushed"} /\ r.path = "seed" /\ r.cred = e
                \/ \E b \in Accounts \ {a} :
                      InFlight(b) /\ req[b].path = "seed" /\ req[b].cred = e
    BY <1>1, <1>3
  <2>4. /\ memory' \in [Creds -> Nat \cup {None}] /\ owner' \in [Creds -> Accounts \cup {None}]
        /\ \A e \in Creds : owner[e] \notin {None, a} => owner'[e] = owner[e]
    BY <1>0, <1>3 DEF PoolTypeOK
  <2> QED BY <1>0, <1>3, <2>2, <2>3, <2>4, BeforeCommit
<1>4. CASE MissImported(a, c)
  <2>1. PICK r : r = [phase |-> "absent", path |-> "import", cred |-> c, read |-> 0]
    OBVIOUS
  <2>2. /\ r \in Request /\ r.phase = "absent" /\ r.cred = c /\ req' = [req EXCEPT ![a] = r]
    BY <1>4, <2>1 DEF Request, Phases, MissImported
  <2>u. UNCHANGED <<known, count, owner, registering, memory, loose>>
    BY <1>4 DEF MissImported
  <2>3. \A e \in Creds : memory'[e] # None =>
          \/ memory'[e] <= Cardinality(Linked(e))
          \/ /\ memory'[e] <= Cardinality(Linked(e)) + 1
             /\ \/ r.phase \in {"chosen", "flushed"} /\ r.path = "seed" /\ r.cred = e
                \/ \E b \in Accounts \ {a} :
                      InFlight(b) /\ req[b].path = "seed" /\ req[b].cred = e
    BY <1>1, <2>u
  <2>4. /\ memory' \in [Creds -> Nat \cup {None}] /\ owner' \in [Creds -> Accounts \cup {None}]
        /\ \A e \in Creds : owner[e] \notin {None, a} => owner'[e] = owner[e]
    BY <1>0, <2>u DEF PoolTypeOK
  <2> QED BY <1>0, <2>u, <2>2, <2>3, <2>4, BeforeCommit
<1>5. ASSUME Seed(a) PROVE PoolInv'
  <2>1. PICK d, n :
            /\ d \in known
            /\ n = (IF memory[d] = None THEN count[d] ELSE memory[d])
            /\ Choose(a, "seed", d, n) /\ memory' = [memory EXCEPT ![d] = n + 1]
    BY <1>5 DEF Seed
  <2>2. d \in Creds /\ n \in Nat
    BY <1>0, <2>1 DEF PoolTypeOK
  <2>3. \A e \in Creds : memory[e] # None => memory[e] <= Cardinality(Linked(e))
    BY <1>5 DEF Seed, Seeding, PoolInv, MemoryIsPast, InFlight
  <2>4. n <= Cardinality(Linked(d))
    BY <1>0, <2>1, <2>2, <2>3
  <2>5. PICK r : r = [phase |-> "chosen", path |-> "seed", cred |-> d, read |-> n]
    OBVIOUS
  <2>6. /\ r \in Request /\ r.phase = "chosen" /\ r.cred = d /\ r.path = "seed"
        /\ r.read <= Cardinality(Linked(r.cred)) /\ req' = [req EXCEPT ![a] = r]
    BY <2>1, <2>2, <2>4, <2>5 DEF Request, Phases, Choose
  <2>7. memory' \in [Creds -> Nat \cup {None}]
    BY <1>0, <2>1, <2>2 DEF PoolTypeOK
  <2>8. \A e \in Creds : memory'[e] # None =>
          \/ memory'[e] <= Cardinality(Linked(e))
          \/ /\ memory'[e] <= Cardinality(Linked(e)) + 1
             /\ r.phase \in {"chosen", "flushed"} /\ r.path = "seed" /\ r.cred = e
    <3> SUFFICES ASSUME NEW e \in Creds, memory'[e] # None
                 PROVE  \/ memory'[e] <= Cardinality(Linked(e))
                        \/ /\ memory'[e] <= Cardinality(Linked(e)) + 1
                           /\ r.phase \in {"chosen", "flushed"} /\ r.path = "seed" /\ r.cred = e
      OBVIOUS
    <3>1. CASE e = d
      BY <1>0, <2>1, <2>2, <2>4, <2>6, <3>1, LinkedCount DEF PoolTypeOK
    <3>2. CASE e # d
      BY <1>0, <2>1, <2>3, <3>2 DEF PoolTypeOK
    <3> QED BY <3>1, <3>2
  <2>9. /\ req[a].phase # "done" /\ UNCHANGED <<known, count, owner, registering, loose>>
        /\ owner' \in [Creds -> Accounts \cup {None}]
    BY <1>0, <1>5 DEF PoolTypeOK, Seed
  <2> QED BY <2>2, <2>6, <2>7, <2>8, <2>9, BeforeCommit
<1>6. ASSUME PickFree(a), Unlocked(Free) # {} PROVE PoolInv'
  <2>1. PICK d \in known : /\ count[d] < Limit /\ owner[d] = None
                           /\ Choose(a, "pool", d, count[d])
                           /\ owner' = [owner EXCEPT ![d] = a]
    BY <1>6 DEF PickFree, Unlocked, Free
  <2>2. PICK r : r = [phase |-> "chosen", path |-> "pool", cred |-> d, read |-> count[d]]
    OBVIOUS
  <2>3. d \in Creds
    BY <1>0, <2>1 DEF PoolTypeOK
  <2>4. /\ r \in Request /\ r.phase = "chosen" /\ r.cred = d /\ r.path = "pool"
        /\ r.read <= Cardinality(Linked(r.cred)) /\ req' = [req EXCEPT ![a] = r]
        /\ r.read = count[d]
    BY <1>0, <2>1, <2>2, <2>3 DEF Request, Phases, Choose
  <2>5. owner' \in [Creds -> Accounts \cup {None}] /\ owner'[d] = a
    BY <1>0, <2>1, <2>3 DEF PoolTypeOK
  <2>6. \A e \in Creds : owner[e] \notin {None, a} => owner'[e] = owner[e]
    BY <1>0, <2>1, <2>3 DEF PoolTypeOK
  <2>7. UNCHANGED <<known, count, registering, memory, loose>>
    BY <1>6 DEF PickFree
  <2> QED BY <1>0, <1>1, <2>1, <2>4, <2>5, <2>6, <2>7, BeforeCommit DEF PoolTypeOK
<1>7. CASE FindImported(a, c)
  BY <1>2, <1>3, <1>7 DEF FindImported, Refuse, NoRequest
<1>8. CASE FindLocal(a)
  BY <1>3, <1>8, PoolConstants DEF FindLocal
<1>9. CASE PickFree(a)
  <2>1. CASE Unlocked(Free) = {}
    BY <1>2, <1>9, <2>1 DEF PickFree, Refuse, NoRequest
  <2>2. CASE Unlocked(Free) # {}
    BY <1>6, <1>9, <2>2
  <2> QED BY <2>1, <2>2
<1> QED BY <1>4, <1>5, <1>7, <1>8, <1>9

\* The insert of an unknown credential: it has no account yet, or the request fails.
LEMMA InsertKeeps ==
  ASSUME PoolInv, NEW a \in Accounts, InsertImported(a)
  PROVE  PoolInv'
<1>0. /\ req[a].phase = "absent" /\ PoolTypeOK /\ NoRequest \in Request
  BY DEF InsertImported, PoolInv, NoRequest, Request, Phases
<1>1. \A d \in Creds : memory[d] # None =>
        \/ memory[d] <= Cardinality(Linked(d))
        \/ /\ memory[d] <= Cardinality(Linked(d)) + 1
           /\ \E b \in Accounts \ {a} : InFlight(b) /\ req[b].path = "seed" /\ req[b].cred = d
  BY <1>0 DEF PoolInv, MemoryIsPast, InFlight
<1>2. PICK d : d = req[a].cred
  OBVIOUS
<1>3. d \in Creds /\ owner[d] = None /\ UNCHANGED <<known, count, registering, memory, loose>>
  BY <1>0, <1>2 DEF InsertImported, PoolInv, Holders
<1>4. CASE Refuse(a) /\ UNCHANGED owner
  BY <1>0, <1>1, <1>3, <1>4, BeforeCommit DEF PoolTypeOK, NoRequest, Refuse
<1>5. CASE Choose(a, "import", d, 0) /\ owner' = [owner EXCEPT ![d] = a]
  <2>1. PICK r : r = [phase |-> "chosen", path |-> "import", cred |-> d, read |-> 0]
    OBVIOUS
  <2>2. /\ r \in Request /\ r.phase = "chosen" /\ r.cred = d /\ r.path = "import"
        /\ r.read <= Cardinality(Linked(r.cred)) /\ req' = [req EXCEPT ![a] = r]
    BY <1>3, <1>5, <2>1, LinkedCount DEF Request, Phases, Choose
  <2>3. owner' \in [Creds -> Accounts \cup {None}]
    BY <1>0, <1>3, <1>5 DEF PoolTypeOK
  <2>4. \A e \in Creds : owner[e] \notin {None, a} => owner'[e] = owner[e]
    BY <1>0, <1>3, <1>5 DEF PoolTypeOK
  <2>5. \A e \in Creds : memory'[e] # None =>
          \/ memory'[e] <= Cardinality(Linked(e))
          \/ /\ memory'[e] <= Cardinality(Linked(e)) + 1
             /\ \/ r.phase \in {"chosen", "flushed"} /\ r.path = "seed" /\ r.cred = e
                \/ \E b \in Accounts \ {a} :
                      InFlight(b) /\ req[b].path = "seed" /\ req[b].cred = e
    BY <1>1, <1>3
  <2>6. /\ memory' \in [Creds -> Nat \cup {None}] /\ owner' \in [Creds -> Accounts \cup {None}]
        /\ \A e \in Creds : owner[e] \notin {None, a} => owner'[e] = owner[e]
    BY <1>0, <1>3, <2>3, <2>4 DEF PoolTypeOK
  <2> QED BY <1>0, <1>3, <2>2, <2>5, <2>6, BeforeCommit
<1> QED BY <1>2, <1>4, <1>5 DEF InsertImported

\* The flush takes the row, whose lock is free or the request's own.
LEMMA FlushKeeps ==
  ASSUME PoolInv, NEW a \in Accounts, Flush(a)
  PROVE  PoolInv'
<1>0. PICK d, r : d = req[a].cred /\ r = [req[a] EXCEPT !.phase = "flushed"]
  OBVIOUS
<1>1. /\ req[a].phase = "chosen" /\ PoolTypeOK /\ InFlight(a) /\ req[a] \in Request
      /\ d \in Creds /\ owner[d] \in {None, a}
      /\ owner' = [owner EXCEPT ![d] = a]
      /\ UNCHANGED <<known, count, registering, memory, loose>>
  BY <1>0 DEF Flush, PoolInv, PoolTypeOK, Holders, InFlight
<1>2. /\ r \in Request /\ r.phase = "flushed" /\ r.cred = d /\ r.path = req[a].path
      /\ r.read = req[a].read /\ req' = [req EXCEPT ![a] = r]
  BY <1>0, <1>1 DEF Flush, Enter, Request, Phases, PoolTypeOK
<1>3. /\ r.read <= Cardinality(Linked(d))
      /\ r.path = "pool" => r.read = count[d] /\ r.read < Limit
  BY <1>0, <1>1, <1>2 DEF PoolInv, ReadsArePast, PoolReads
<1>4. /\ owner' \in [Creds -> Accounts \cup {None}] /\ owner'[d] = a
      /\ \A e \in Creds : owner[e] \notin {None, a} => owner'[e] = owner[e]
  BY <1>1 DEF PoolTypeOK
<1>5. \A e \in Creds : memory[e] # None =>
        \/ memory[e] <= Cardinality(Linked(e))
        \/ /\ memory[e] <= Cardinality(Linked(e)) + 1
           /\ \/ r.phase \in {"chosen", "flushed"} /\ r.path = "seed" /\ r.cred = e
              \/ \E b \in Accounts \ {a} :
                    InFlight(b) /\ req[b].path = "seed" /\ req[b].cred = e
  BY <1>0, <1>2 DEF PoolInv, MemoryIsPast
<1>6. memory' \in [Creds -> Nat \cup {None}]
  BY <1>1 DEF PoolTypeOK
<1>7. \A e \in Creds : memory'[e] # None =>
        \/ memory'[e] <= Cardinality(Linked(e))
        \/ /\ memory'[e] <= Cardinality(Linked(e)) + 1
           /\ \/ r.phase \in {"chosen", "flushed"} /\ r.path = "seed" /\ r.cred = e
              \/ \E b \in Accounts \ {a} :
                    InFlight(b) /\ req[b].path = "seed" /\ req[b].cred = e
  BY <1>1, <1>5
<1>8. r.phase \in {"chosen", "flushed"} =>
        /\ r.read <= Cardinality(Linked(r.cred))
        /\ r.phase = "flushed" \/ r.path = "pool" => owner'[r.cred] = a
        /\ r.path = "pool" => r.read = count[r.cred] /\ r.read < Limit
  BY <1>2, <1>3, <1>4
<1>9. /\ req[a].phase # "done" /\ r.phase # "done" /\ r.cred \in Creds
      /\ UNCHANGED <<known, count, registering, loose>>
  BY <1>1, <1>2
<1> QED BY <1>2, <1>4, <1>6, <1>7, <1>8, <1>9, BeforeCommit

\* The rollback gives up the request's own locks; a seed run that fails is over, and
\* a memory that is one ahead is the running seed's.
LEMMA RollbackKeeps ==
  ASSUME PoolInv, NEW a \in Accounts, Rollback(a)
  PROVE  PoolInv'
<1>1. /\ req[a].phase # "done" /\ PoolTypeOK /\ NoRequest \in Request
      /\ req' = [req EXCEPT ![a] = NoRequest]
      /\ owner' = [c \in Creds |-> IF owner[c] = a THEN None ELSE owner[c]]
      /\ memory' = IF req[a].path = "seed" THEN Unseen ELSE memory
      /\ UNCHANGED <<known, count, registering, loose>>
  BY DEF Rollback, Refuse, PoolInv, NoRequest, Request, Phases
<1>2. owner' \in [Creds -> Accounts \cup {None}]
  BY <1>1 DEF PoolTypeOK
<1>3. \A e \in Creds : owner[e] \notin {None, a} => owner'[e] = owner[e]
  BY <1>1
<1>4. memory' \in [Creds -> Nat \cup {None}]
  BY <1>1 DEF PoolTypeOK, Unseen
<1>5. \A e \in Creds : memory'[e] # None =>
        \/ memory'[e] <= Cardinality(Linked(e))
        \/ /\ memory'[e] <= Cardinality(Linked(e)) + 1
           /\ \E b \in Accounts \ {a} :
                 InFlight(b) /\ req[b].path = "seed" /\ req[b].cred = e
  BY <1>1 DEF Unseen, PoolInv, MemoryIsPast
<1>6. PICK r : r = NoRequest
  OBVIOUS
<1>7. r \in Request /\ r.phase = "refused" /\ req' = [req EXCEPT ![a] = r]
  BY <1>1, <1>6 DEF NoRequest
<1>8. \A e \in Creds : memory'[e] # None =>
        \/ memory'[e] <= Cardinality(Linked(e))
        \/ /\ memory'[e] <= Cardinality(Linked(e)) + 1
           /\ \/ r.phase \in {"chosen", "flushed"} /\ r.path = "seed" /\ r.cred = e
              \/ \E b \in Accounts \ {a} :
                    InFlight(b) /\ req[b].path = "seed" /\ req[b].cred = e
  BY <1>5
<1>9. req[a].phase # "done" /\ UNCHANGED <<known, count, registering, loose>>
  BY <1>1
<1> QED BY <1>2, <1>3, <1>4, <1>7, <1>8, <1>9, BeforeCommit

LEMMA NextPoolInv == PoolInv /\ [PoolNext]_poolVars => PoolInv'
<1> SUFFICES ASSUME PoolInv, [PoolNext]_poolVars PROVE PoolInv'
  OBVIOUS
<1>1. CASE SeedEnds
  BY <1>1, BesideRequests DEF SeedEnds, PoolInv, PoolTypeOK
<1>2. ASSUME NEW a \in Accounts, Onboard(a) PROVE PoolInv'
  BY <1>2, PoolConstants, BeginKeeps, InsertKeeps, FlushKeeps, CommitKeeps, RollbackKeeps
     DEF Onboard
<1>3. ASSUME NEW c \in Creds, RegisterChecks(c) PROVE PoolInv'
  BY <1>3, BesideRequests DEF RegisterChecks, PoolInv, PoolTypeOK
<1>4. ASSUME NEW c \in Creds, RegisterInserts(c) PROVE PoolInv'
  BY <1>4, BesideRequests DEF RegisterInserts, PoolInv, PoolTypeOK
<1>5. CASE UNCHANGED poolVars
  BY <1>5, BesideRequests DEF poolVars, PoolInv, PoolTypeOK
<1> QED BY <1>1, <1>2, <1>3, <1>4, <1>5 DEF PoolNext

\* The state of every instance keeps its shape: a request never goes by a credential
\* that does not exist, and no count falls below zero (accounts.py, seed_accounts.py).
THEOREM PoolType == PoolSpec => []PoolTypeOK
BY InitPoolInv, NextPoolInv, PTL DEF PoolSpec, PoolInv

\* account_count never exceeds the accounts of the credential, however many requests
\* and scripts write it from a stale read (accounts.py:231, seed_accounts.py:146).
THEOREM PoolCountIsLower == PoolSpec => []CountIsLower
BY InitPoolInv, NextPoolInv, PTL DEF PoolSpec, PoolInv

\* FOR UPDATE SKIP LOCKED keeps the pool's counts exact and below
\* MAX_ACCOUNTS_PER_API_ID on every credential no import or script has touched
\* (accounts.py:129-134).
THEOREM PoolOverfill == PoolSpec => []OverfillNeedsImport
BY InitPoolInv, NextPoolInv, PTL DEF PoolSpec, PoolInv

-----------------------------------------------------------------------------
(* the counters                                                             *)

\* A job goes by a cap that some content of the file sets, for an account whose
\* credential is settled, and by no more members than the credential has.
JobsAreBounded ==
    \A s \in Slots : job[s] # None =>
        /\ Onboarded(job[s].acct)
        /\ job[s].action \in Writes =>
              /\ job[s].cap <= TopCap[<<UseOf[job[s].acct], job[s].action>>]
              /\ job[s].members <= Cardinality(Linked(req[job[s].acct].cred))

\* The inductive invariant.  The aggregate of a credential is compared with the
\* members read when the job was taken, which the credential still has: nobody is
\* ever unlinked.
BudgetInv ==
    /\ PoolInv /\ TypeOK /\ JobsAreBounded
    /\ EveryCounterExpires /\ AggregateWithinMembers

-----------------------------------------------------------------------------
(* arithmetic of the aggregate cap                                          *)

LEMMA ProductGrows ==
  ASSUME NEW p \in Nat, NEW q \in Nat, NEW m \in Nat, NEW n \in Nat, p <= q, m <= n
  PROVE  p * m <= q * n /\ p * m \in Nat /\ q * n \in Nat
<1>1. p * m <= q * m
  OBVIOUS
<1>2. q * m <= q * n
  OBVIOUS
<1>3. p * m \in Nat /\ q * m \in Nat /\ q * n \in Nat
  OBVIOUS
<1> QED BY <1>1, <1>2, <1>3

LEMMA AggregateCapGrows ==
  ASSUME NEW p \in Nat, NEW q \in Nat, NEW m \in Nat, NEW n \in Nat, p <= q, m <= n
  PROVE  AggregateCap(p, m) <= AggregateCap(q, n) /\ AggregateCap(q, n) \in Nat
<1>1. Bigger(1, m) \in Nat /\ Bigger(1, n) \in Nat /\ Bigger(1, m) <= Bigger(1, n)
  BY DEF Bigger
<1>2. PICK x, y : x = p * Bigger(1, m) /\ y = q * Bigger(1, n)
  OBVIOUS
<1>3. x \in Nat /\ y \in Nat /\ x <= y
  BY <1>1, <1>2, ProductGrows
<1>4. /\ (6 * x + 5) \div 10 <= (6 * y + 5) \div 10
      /\ (6 * x + 5) \div 10 \in Nat /\ (6 * y + 5) \div 10 \in Nat
  BY <1>3
<1> QED BY <1>2, <1>4 DEF AggregateCap, Bigger

LEMMA AggregateCapIsNat ==
  ASSUME NEW p \in Nat, NEW m \in Nat
  PROVE  AggregateCap(p, m) \in Nat
<1>1. p <= p /\ m <= m
  OBVIOUS
<1> QED BY <1>1, AggregateCapGrows

-----------------------------------------------------------------------------
(* what the steps of the two halves may rely on                             *)

LEMMA BudgetTypes ==
  ASSUME BudgetInv
  PROVE  /\ PoolTypeOK /\ file \in Files /\ loaded \in [Processes -> Tables \cup {None}]
         /\ used \in [Keys -> Nat] /\ ttl \in [Keys -> 0..Window]
         /\ job \in [Slots -> Job \cup {None}]
         /\ recent \in [Watched -> [0..Window - 1 -> Nat]]
BY DEF BudgetInv, TypeOK

LEMMA TableIsOne ==
  ASSUME BudgetInv, NEW p \in Processes
  PROVE  TableOf(p) \in Tables
BY BudgetTypes DEF TableOf, Tables

LEMMA CapsAreBounded ==
  ASSUME NEW t \in Tables, NEW a \in Accounts
  PROVE  /\ \A x \in Writes : Cap(t, a, x) \in 0..TopCap[<<UseOf[a], x>>]
         /\ \A x \in Reads : CapIn(t.reads, x) \in Nat
         /\ \A x \in Actions : TopCap[<<UseOf[a], x>>] \in Nat
<1>1. UseOf[a] \in UseCases
  BY BudgetConstants
<1>2. \A x \in Actions : TopCap[<<UseOf[a], x>>] \in Nat
  BY <1>1, BudgetConstants DEF Actions
<1>3. \A x \in Writes : Cap(t, a, x) \in 0..TopCap[<<UseOf[a], x>>]
  BY <1>1, BudgetConstants DEF Cap
<1>4. \A x \in Reads : CapIn(t.reads, x) \in Nat
  <2> SUFFICES ASSUME NEW x \in Reads PROVE CapIn(t.reads, x) \in Nat
    OBVIOUS
  <2>1. CapIn(t.reads, x) \in 0..TopCap[<<UseOf[a], x>>]
    BY <1>1, BudgetConstants
  <2>2. TopCap[<<UseOf[a], x>>] \in Nat
    BY <1>2 DEF Actions
  <2> QED BY <2>1, <2>2
<1> QED BY <1>2, <1>3, <1>4

\* An account that is onboarded stays where it is.
LEMMA LinksStay ==
  ASSUME PoolInv, [PoolNext]_poolVars
  PROVE  /\ \A a \in Accounts : Onboarded(a) => Onboarded(a)' /\ req'[a].cred = req[a].cred
         /\ \A c : Cardinality(Linked(c)) <= Cardinality(Linked(c)')
<1>1. \A a \in Accounts : Onboarded(a) => Onboarded(a)' /\ req'[a] = req[a]
  <2>1. CASE UNCHANGED req
    BY <2>1 DEF Onboarded
  <2>2. ASSUME NEW b \in Accounts, Onboard(b) PROVE req[b].phase # "done" \/ UNCHANGED req
    BY <2>2 DEF Onboard, FindImported, MissImported, FindLocal, Seed, InsertImported, PickFree,
                Flush, Commit, Rollback
  <2>3. ASSUME NEW b \in Accounts, Onboard(b)
        PROVE  \A a \in Accounts \ {b} : req'[a] = req[a]
    BY <2>3 DEF PoolInv, PoolTypeOK, Onboard, FindImported, MissImported, FindLocal, Seed,
                InsertImported, PickFree, Flush, Commit, Rollback, Refuse, Choose, Enter, Link
  <2> QED BY <2>1, <2>2, <2>3
          DEF PoolNext, SeedEnds, RegisterChecks, RegisterInserts, poolVars, Onboarded
<1>2. ASSUME NEW c PROVE Cardinality(Linked(c)) <= Cardinality(Linked(c)')
  <2>1. PICK L : L = Linked(c)'
    OBVIOUS
  <2>2. Linked(c) \subseteq L /\ L \subseteq Accounts
    BY <1>1, <2>1 DEF Linked, Onboarded
  <2> QED BY <2>1, <2>2, PoolConstants, FS_Subset
<1> QED BY <1>1, <1>2

LEMMA IncrementKeeps ==
  ASSUME BudgetInv, NEW S, Incremented(S)
  PROVE  /\ used' \in [Keys -> Nat] /\ ttl' \in [Keys -> 0..Window]
         /\ EveryCounterExpires'
         /\ \A k \in Keys : used'[k] = IF k \in S THEN used[k] + 1 ELSE used[k]
BY BudgetTypes, BudgetConstants DEF Incremented, BudgetInv, EveryCounterExpires

\* While nobody is onboarded the jobs are judged one by one.
LEMMA JobsJudged ==
  ASSUME UNCHANGED poolVars,
         \A s \in Slots : job'[s] # None =>
            /\ Onboarded(job'[s].acct)
            /\ job'[s].action \in Writes =>
                  /\ job'[s].cap <= TopCap[<<UseOf[job'[s].acct], job'[s].action>>]
                  /\ job'[s].members <= Cardinality(Linked(req[job'[s].acct].cred))
  PROVE  JobsAreBounded'
BY DEF JobsAreBounded, Onboarded, Linked, poolVars

\* A step that leaves the pool and the counters alone: the jobs may change.
LEMMA JobStep ==
  ASSUME BudgetInv, UNCHANGED <<poolVars, used, ttl>>,
         file' \in Files, loaded' \in [Processes -> Tables \cup {None}],
         job' \in [Slots -> Job \cup {None}],
         recent' \in [Watched -> [0..Window - 1 -> Nat]],
         JobsAreBounded'
  PROVE  BudgetInv'
<1>1. PoolInv'
  BY NextPoolInv DEF BudgetInv
<1>2. TypeOK'
  BY <1>1, BudgetTypes DEF TypeOK, PoolInv
<1>3. EveryCounterExpires'
  BY DEF BudgetInv, EveryCounterExpires
<1>4. AggregateWithinMembers'
  BY DEF BudgetInv, AggregateWithinMembers, Linked, poolVars
<1> QED BY <1>1, <1>2, <1>3, <1>4 DEF BudgetInv

LEMMA LeavingKeeps ==
  ASSUME BudgetInv, NEW s \in Slots, Leaves(s), UNCHANGED poolVars
  PROVE  job' \in [Slots -> Job \cup {None}] /\ JobsAreBounded'
<1>1. job' \in [Slots -> Job \cup {None}]
  BY BudgetTypes DEF Leaves
<1>2. \A r \in Slots : job'[r] # None => job'[r] = job[r] /\ job[r] # None
  BY BudgetTypes DEF Leaves
<1>3. JobsAreBounded'
  BY <1>2 DEF BudgetInv, JobsAreBounded, Onboarded, Linked, poolVars
<1> QED BY <1>1, <1>3

-----------------------------------------------------------------------------
LEMMA InitBudgets == Init => BudgetInv
<1> SUFFICES ASSUME Init PROVE BudgetInv
  OBVIOUS
<1>1. PoolInv
  BY InitPoolInv DEF Init
<1>2. TypeOK
  BY <1>1, BudgetConstants DEF Init, TypeOK, PoolInv
<1>3. JobsAreBounded /\ EveryCounterExpires
  BY DEF Init, JobsAreBounded, EveryCounterExpires
<1>4. AggregateWithinMembers
  <2> SUFFICES ASSUME NEW c \in Creds, NEW u \in UseCases, NEW x \in Sensitive
               PROVE  used[ApiKey(c, u, x)]
                        <= AggregateCap(TopCap[<<u, x>>], Cardinality(Linked(c)))
    BY DEF AggregateWithinMembers
  <2>1. used[ApiKey(c, u, x)] = 0
    BY DEF Init, Keys
  <2>2. TopCap[<<u, x>>] \in Nat /\ Cardinality(Linked(c)) \in Nat
    BY BudgetConstants, LinkedCount DEF Actions
  <2>3. AggregateCap(TopCap[<<u, x>>], Cardinality(Linked(c))) \in Nat
    BY <2>2, AggregateCapIsNat
  <2> QED BY <2>1, <2>3
<1> QED BY <1>1, <1>2, <1>3, <1>4 DEF BudgetInv

\* The onboardings: the members of a credential only become more.
LEMMA PoolStepKeeps ==
  ASSUME BudgetInv, [PoolNext]_poolVars, UNCHANGED budgetVars
  PROVE  BudgetInv'
<1>1. PoolInv'
  BY NextPoolInv DEF BudgetInv
<1>2. TypeOK'
  BY <1>1, BudgetTypes DEF TypeOK, PoolInv, budgetVars
<1>3. EveryCounterExpires'
  BY DEF BudgetInv, EveryCounterExpires, budgetVars
<1>4. JobsAreBounded'
  <2> SUFFICES ASSUME NEW s \in Slots, job[s] # None
               PROVE  /\ Onboarded(job[s].acct)'
                      /\ job[s].action \in Writes =>
                           /\ job[s].cap <= TopCap[<<UseOf[job[s].acct], job[s].action>>]
                           /\ job[s].members <= Cardinality(Linked(req[job[s].acct].cred)')
    BY DEF JobsAreBounded, budgetVars
  <2>1. job[s] \in Job /\ Onboarded(job[s].acct)
    BY BudgetTypes DEF BudgetInv, JobsAreBounded
  <2>2. PICK a, c : a \in Accounts /\ a = job[s].acct /\ c = req[a].cred
    BY <2>1 DEF Job
  <2>3. Onboarded(a)' /\ req'[a].cred = c /\ Cardinality(Linked(c)) <= Cardinality(Linked(c)')
    BY <2>1, <2>2, LinksStay DEF BudgetInv
  <2>4. job[s].action \in Writes =>
          /\ job[s].cap <= TopCap[<<UseOf[a], job[s].action>>]
          /\ job[s].members <= Cardinality(Linked(c))
    BY <2>2 DEF BudgetInv, JobsAreBounded
  <2>5. job[s].members \in Nat /\ Cardinality(Linked(c)) \in Nat /\ Cardinality(Linked(c)') \in Nat
    <3>1. PICK L : L = Linked(c)'
      OBVIOUS
    <3>2. L \subseteq Accounts
      BY <3>1 DEF Linked
    <3> QED BY <2>1, <3>1, <3>2, LinkedCount, PoolConstants, FS_Subset, FS_CardinalityType DEF Job
  <2> QED BY <2>2, <2>3, <2>4, <2>5 DEF budgetVars
<1>5. AggregateWithinMembers'
  <2> SUFFICES ASSUME NEW c \in Creds, NEW u \in UseCases, NEW x \in Sensitive
               PROVE  used[ApiKey(c, u, x)]
                        <= AggregateCap(TopCap[<<u, x>>], Cardinality(Linked(c)'))
    BY DEF AggregateWithinMembers, budgetVars
  <2>1. PICK L : L = Linked(c)'
    OBVIOUS
  <2>2. IsFiniteSet(L) /\ Cardinality(L) \in Nat
    BY <2>1, PoolConstants, FS_Subset, FS_CardinalityType DEF Linked
  <2>3. TopCap[<<u, x>>] \in Nat /\ Cardinality(Linked(c)) \in Nat /\ used[ApiKey(c, u, x)] \in Nat
    BY BudgetConstants, LinkedCount, BudgetTypes DEF Actions, Keys
  <2>4. Cardinality(Linked(c)) <= Cardinality(L)
    BY <2>1, LinksStay DEF BudgetInv
  <2>5. AggregateCap(TopCap[<<u, x>>], Cardinality(Linked(c)))
          <= AggregateCap(TopCap[<<u, x>>], Cardinality(L))
    <3>1. PICK p, m, n : /\ p = TopCap[<<u, x>>] /\ m = Cardinality(Linked(c))
                         /\ n = Cardinality(L)
      OBVIOUS
    <3>2. p \in Nat /\ m \in Nat /\ n \in Nat /\ p <= p /\ m <= n
      BY <2>2, <2>3, <2>4, <3>1
    <3>3. AggregateCap(p, m) <= AggregateCap(p, n)
      BY <3>2, AggregateCapGrows
    <3> QED BY <3>1, <3>3
  <2>6. /\ AggregateCap(TopCap[<<u, x>>], Cardinality(Linked(c))) \in Nat
        /\ AggregateCap(TopCap[<<u, x>>], Cardinality(L)) \in Nat
    BY <2>2, <2>3, AggregateCapIsNat
  <2>7. used[ApiKey(c, u, x)] <= AggregateCap(TopCap[<<u, x>>], Cardinality(Linked(c)))
    BY DEF BudgetInv, AggregateWithinMembers
  <2> QED BY <2>1, <2>3, <2>5, <2>6, <2>7
<1> QED BY <1>1, <1>2, <1>3, <1>4, <1>5 DEF BudgetInv

\* The script charges a credential only for an account it has, within the share of
\* members it has, under a cap that is at most the largest.
LEMMA SpendKeeps ==
  ASSUME BudgetInv, NEW s \in Slots, Spend(s)
  PROVE  BudgetInv'
<1>0. PICK a, x, S : a = job[s].acct /\ x = job[s].action /\ S = Budgets(a, x)
  OBVIOUS
<1>1. /\ job[s] \in Job /\ job[s] # None /\ a \in Accounts /\ x \in Actions
      /\ Affordable(a, x, job[s].cap, job[s].members)
      /\ Incremented(S) /\ BecomesActing(s)
      /\ UNCHANGED <<poolVars, configVars, recent>>
  BY <1>0, BudgetTypes DEF Spend, Job
<1>2. PoolInv'
  BY <1>1, NextPoolInv DEF BudgetInv
<1>3. /\ used' \in [Keys -> Nat] /\ ttl' \in [Keys -> 0..Window] /\ EveryCounterExpires'
      /\ \A k \in Keys : used'[k] = IF k \in S THEN used[k] + 1 ELSE used[k]
  BY <1>1, IncrementKeeps
<1>4. /\ job' \in [Slots -> Job \cup {None}]
      /\ \A r \in Slots : job'[r] # None => /\ job[r] # None /\ job'[r].acct = job[r].acct
                                           /\ job'[r].action = job[r].action
                                           /\ job'[r].cap = job[r].cap
                                           /\ job'[r].members = job[r].members
  <2>1. [job[s] EXCEPT !.stage = "acting"] \in Job
    BY <1>1 DEF Job
  <2> QED BY <1>1, <2>1, BudgetTypes DEF BecomesActing, Job
<1>5. TypeOK'
  BY <1>1, <1>2, <1>3, <1>4, BudgetTypes DEF TypeOK, PoolInv, configVars
<1>6. JobsAreBounded'
  BY <1>1, <1>4, JobsJudged DEF BudgetInv, JobsAreBounded
<1>7. AggregateWithinMembers'
  <2> SUFFICES ASSUME NEW c \in Creds, NEW u \in UseCases, NEW y \in Sensitive
               PROVE  used'[ApiKey(c, u, y)]
                        <= AggregateCap(TopCap[<<u, y>>], Cardinality(Linked(c)))
    BY <1>1 DEF AggregateWithinMembers, Linked, poolVars
  <2>1. PICK k \in Keys : k = ApiKey(c, u, y)
    BY DEF Keys
  <2>2. used[k] <= AggregateCap(TopCap[<<u, y>>], Cardinality(Linked(c))) /\ used[k] \in Nat
    BY <2>1, BudgetTypes DEF BudgetInv, AggregateWithinMembers
  <2>3. CASE k \notin S
    BY <1>3, <2>1, <2>2, <2>3
  <2>4. CASE k \in S
    <3>1. x \in Sensitive /\ k = ApiKey(req[a].cred, UseOf[a], x)
      BY <1>0, <2>1, <2>4 DEF Budgets, ApiKey, AcctKey, NetKey
    <3>2. c = req[a].cred /\ u = UseOf[a] /\ y = x
      BY <2>1, <3>1 DEF ApiKey
    <3>3. used[k] + 1 <= AggregateCap(job[s].cap, job[s].members)
      BY <1>0, <1>1, <2>1, <2>4 DEF Affordable, CapOf, ApiKey
    <3>4. /\ job[s].cap \in Nat /\ job[s].members \in Nat
          /\ TopCap[<<u, y>>] \in Nat /\ Cardinality(Linked(c)) \in Nat
      BY <1>1, BudgetConstants, LinkedCount DEF Job, Actions
    <3>5. job[s].cap <= TopCap[<<u, y>>] /\ job[s].members <= Cardinality(Linked(c))
      BY <1>0, <1>1, <3>2, BudgetConstants DEF BudgetInv, JobsAreBounded
    <3>6. /\ AggregateCap(job[s].cap, job[s].members)
               <= AggregateCap(TopCap[<<u, y>>], Cardinality(Linked(c)))
          /\ AggregateCap(job[s].cap, job[s].members) \in Nat
          /\ AggregateCap(TopCap[<<u, y>>], Cardinality(Linked(c))) \in Nat
      BY <3>4, <3>5, AggregateCapGrows, AggregateCapIsNat
    <3> QED BY <1>3, <2>1, <2>2, <2>4, <3>3, <3>6
  <2> QED BY <2>3, <2>4
<1> QED BY <1>2, <1>3, <1>5, <1>6, <1>7 DEF BudgetInv

\* A write's job begins with the worker's cap and the members of now.
LEMMA TakeWriteKeeps ==
  ASSUME BudgetInv, NEW s \in Slots, NEW a \in Accounts, NEW x \in Writes, TakeWrite(s, a, x)
  PROVE  BudgetInv'
<1>0. PICK w, cap, n : w = WorkerOf[s] /\ cap = Cap(TableOf(w), a, x) /\ n = Members(a)
  OBVIOUS
<1>1. w \in Processes /\ TableOf(w) \in Tables
  BY <1>0, BudgetConstants, TableIsOne DEF Processes
<1>2. cap \in Nat /\ cap <= TopCap[<<UseOf[a], x>>]
  BY <1>0, <1>1, CapsAreBounded DEF Actions
<1>3. Onboarded(a) /\ req[a].cred \in Creds
  BY DEF TakeWrite, Onboarded, BudgetInv, PoolInv, Holders
<1>4. n \in Nat /\ n <= Cardinality(Linked(req[a].cred))
  <2>1. a \in Linked(req[a].cred)
    BY <1>3 DEF Linked, Onboarded
  <2>2. Cardinality(Linked(req[a].cred)) # 0
    BY <2>1, LinkedCount, FS_EmptySet
  <2>3. count[req[a].cred] \in Nat /\ count[req[a].cred] <= Cardinality(Linked(req[a].cred))
    BY <1>3, BudgetTypes DEF BudgetInv, PoolInv, PoolTypeOK, CountIsLower
  <2> QED BY <1>0, <2>2, <2>3, LinkedCount DEF Members, Bigger
<1>5. PICK stage \in {"acting", "asking"} : Enters(s, stage, a, x, cap, n)
  BY <1>0 DEF TakeWrite
<1>6. PICK j : j = [stage |-> stage, acct |-> a, action |-> x, cap |-> cap, members |-> n,
                    left |-> 1]
  OBVIOUS
<1>7. /\ j \in Job /\ j.acct = a /\ j.action = x /\ j.cap = cap /\ j.members = n
      /\ job' = [job EXCEPT ![s] = j]
  BY <1>2, <1>4, <1>5, <1>6 DEF Job, Actions, Enters
<1>8. /\ UNCHANGED <<poolVars, file, used, ttl, recent>>
      /\ loaded' \in [Processes -> Tables \cup {None}]
  BY <1>0, <1>1, BudgetTypes DEF TakeWrite, Consults
<1>9. JobsAreBounded'
  <2>1. \A r \in Slots : job'[r] = IF r = s THEN j ELSE job[r]
    BY <1>7, BudgetTypes
  <2> QED BY <1>2, <1>3, <1>4, <1>7, <1>8, <2>1, JobsJudged DEF BudgetInv, JobsAreBounded
<1>10. job' \in [Slots -> Job \cup {None}]
  BY <1>7, BudgetTypes
<1> QED BY <1>8, <1>9, <1>10, BudgetTypes, JobStep

\* A read is counted on the account's own key, which is no aggregate.
LEMMA TakeReadKeeps ==
  ASSUME BudgetInv, NEW s \in Slots, NEW a \in Accounts, NEW x \in Reads, TakeRead(s, a, x)
  PROVE  BudgetInv'
<1>0. PICK w, cap, k : w = WorkerOf[s] /\ cap = CapIn(TableOf(w).reads, x) /\ k = ReadKey(a, x)
  OBVIOUS
<1>1. w \in Processes /\ TableOf(w) \in Tables
  BY <1>0, BudgetConstants, TableIsOne DEF Processes
<1>2. cap \in Nat
  BY <1>0, <1>1, CapsAreBounded
<1>3. /\ Onboarded(a) /\ Consults(w) /\ UNCHANGED <<poolVars, file, recent>>
      /\ UNCHANGED <<used, ttl>> \/ Incremented({k})
      /\ \/ job' = job
         \/ \E n \in Nat : Enters(s, "acting", a, x, n, 1)
  BY <1>0, <1>2 DEF TakeRead
<1>4. loaded' \in [Processes -> Tables \cup {None}]
  BY <1>1, <1>3, BudgetTypes DEF Consults
<1>5. job' \in [Slots -> Job \cup {None}] /\ JobsAreBounded'
  <2>1. CASE job' = job
    BY <1>3, <2>1, BudgetTypes, JobsJudged DEF BudgetInv, JobsAreBounded
  <2>2. ASSUME NEW n \in Nat, Enters(s, "acting", a, x, n, 1)
        PROVE  job' \in [Slots -> Job \cup {None}] /\ JobsAreBounded'
    <3>1. PICK j : j = [stage |-> "acting", acct |-> a, action |-> x, cap |-> n,
                        members |-> 1, left |-> 1]
      OBVIOUS
    <3>2. /\ j \in Job /\ j.acct = a /\ j.action = x /\ x \notin Writes
          /\ job' = [job EXCEPT ![s] = j]
      BY <2>2, <3>1, BudgetConstants DEF Job, Actions, Enters
    <3>3. \A r \in Slots : job'[r] = IF r = s THEN j ELSE job[r]
      BY <3>2, BudgetTypes
    <3> QED BY <1>3, <3>2, <3>3, BudgetTypes, JobsJudged DEF BudgetInv, JobsAreBounded
  <2> QED BY <1>3, <2>1, <2>2
<1>6. CASE UNCHANGED <<used, ttl>>
  BY <1>3, <1>4, <1>5, <1>6, BudgetTypes, JobStep
<1>7. CASE Incremented({k})
  <2>1. PoolInv'
    BY <1>3, NextPoolInv DEF BudgetInv
  <2>2. /\ used' \in [Keys -> Nat] /\ ttl' \in [Keys -> 0..Window] /\ EveryCounterExpires'
        /\ \A l \in Keys : l # k => used'[l] = used[l]
    BY <1>7, IncrementKeeps
  <2>3. TypeOK'
    BY <1>3, <1>4, <1>5, <2>1, <2>2, BudgetTypes DEF TypeOK, PoolInv
  <2>4. \A c \in Creds, u \in UseCases, y \in Sensitive :
          used'[ApiKey(c, u, y)] = used[ApiKey(c, u, y)]
    <3> SUFFICES ASSUME NEW c \in Creds, NEW u \in UseCases, NEW y \in Sensitive
                 PROVE  used'[ApiKey(c, u, y)] = used[ApiKey(c, u, y)]
      OBVIOUS
    <3>1. ApiKey(c, u, y) \in Keys
      BY DEF Keys
    <3>2. ApiKey(c, u, y) # k
      BY <1>0 DEF ApiKey, ReadKey
    <3> QED BY <2>2, <3>1, <3>2
  <2>5. AggregateWithinMembers'
    BY <1>3, <2>4 DEF BudgetInv, AggregateWithinMembers, Linked, poolVars
  <2> QED BY <1>5, <2>1, <2>2, <2>3, <2>5 DEF BudgetInv
<1> QED BY <1>3, <1>6, <1>7

\* The tick: a counter that reaches the end of its life is gone.
LEMMA TickKeeps ==
  ASSUME BudgetInv, Tick
  PROVE  BudgetInv'
<1>1. PoolInv' /\ UNCHANGED <<poolVars, configVars>>
  BY NextPoolInv DEF BudgetInv, Tick
<1>2. /\ ttl' = [k \in Keys |-> IF ttl[k] = 0 THEN 0 ELSE ttl[k] - 1]
      /\ used' = [k \in Keys |-> IF ttl[k] = 1 THEN 0 ELSE used[k]]
  BY DEF Tick
<1>3. ttl' \in [Keys -> 0..Window] /\ used' \in [Keys -> Nat]
  BY <1>2, BudgetTypes, BudgetConstants
<1>4. EveryCounterExpires'
  BY <1>2, BudgetTypes, BudgetConstants DEF BudgetInv, EveryCounterExpires
<1>5. /\ job' \in [Slots -> Job \cup {None}]
      /\ \A r \in Slots : job'[r] # None => /\ job[r] # None /\ job'[r].acct = job[r].acct
                                           /\ job'[r].action = job[r].action
                                           /\ job'[r].cap = job[r].cap
                                           /\ job'[r].members = job[r].members
  <2>1. \A j \in Job : /\ [j EXCEPT !.left = 0] \in Job
                       /\ [j EXCEPT !.left = 0].acct = j.acct
                       /\ [j EXCEPT !.left = 0].action = j.action
                       /\ [j EXCEPT !.left = 0].cap = j.cap
                       /\ [j EXCEPT !.left = 0].members = j.members
    BY DEF Job
  <2>2. job' = [r \in Slots |-> IF job[r] = None THEN None ELSE [job[r] EXCEPT !.left = 0]]
    BY DEF Tick
  <2> QED BY <2>1, <2>2, BudgetTypes
<1>6. JobsAreBounded'
  BY <1>1, <1>5, JobsJudged DEF BudgetInv, JobsAreBounded
<1>7. recent' \in [Watched -> [0..Window - 1 -> Nat]]
  <2>1. recent' = [o \in Watched |->
                     [i \in 0..Window - 1 |-> IF i = 0 THEN 0 ELSE recent[o][i - 1]]]
    BY DEF Tick
  <2>2. ASSUME NEW o \in Watched, NEW i \in 0..Window - 1, i # 0
        PROVE  recent[o][i - 1] \in Nat
    <3>1. recent[o] \in [0..Window - 1 -> Nat]
      BY BudgetTypes
    <3>2. i - 1 \in 0..Window - 1
      BY <2>2, BudgetConstants
    <3> QED BY <3>1, <3>2
  <2> QED BY <2>1, <2>2
<1>8. TypeOK'
  BY <1>1, <1>3, <1>5, <1>7, BudgetTypes DEF TypeOK, PoolInv, configVars
<1>9. AggregateWithinMembers'
  <2> SUFFICES ASSUME NEW c \in Creds, NEW u \in UseCases, NEW x \in Sensitive
               PROVE  used'[ApiKey(c, u, x)]
                        <= AggregateCap(TopCap[<<u, x>>], Cardinality(Linked(c)))
    BY <1>1 DEF AggregateWithinMembers, Linked, poolVars
  <2>1. PICK k \in Keys : k = ApiKey(c, u, x)
    BY DEF Keys
  <2>2. TopCap[<<u, x>>] \in Nat /\ Cardinality(Linked(c)) \in Nat
    BY BudgetConstants, LinkedCount DEF Actions
  <2>3. AggregateCap(TopCap[<<u, x>>], Cardinality(Linked(c))) \in Nat
    BY <2>2, AggregateCapIsNat
  <2>4. used'[k] \in {0, used[k]}
    BY <1>2
  <2> QED BY <2>1, <2>3, <2>4 DEF BudgetInv, AggregateWithinMembers
<1> QED BY <1>1, <1>4, <1>6, <1>8, <1>9 DEF BudgetInv

\* Recorded counts one call of the order.
LEMMA RecordKeeps ==
  ASSUME BudgetInv, NEW a \in Accounts, NEW x \in Actions, Recorded(a, x)
  PROVE  recent' \in [Watched -> [0..Window - 1 -> Nat]]
<1>1. PICK n \in Nat : n = 2 * TopCap[<<UseOf[a], x>>] + 1
  <2>1. TopCap[<<UseOf[a], x>>] \in Nat
    BY BudgetConstants
  <2> QED BY <2>1
<1>2. recent' = [o \in Watched |->
         IF o = <<a, x>> THEN [recent[o] EXCEPT ![0] = Smaller(@ + 1, n)] ELSE recent[o]]
  BY <1>1 DEF Recorded
<1>3. ASSUME NEW o \in Watched
      PROVE  [recent[o] EXCEPT ![0] = Smaller(@ + 1, n)] \in [0..Window - 1 -> Nat]
  <2>1. recent[o] \in [0..Window - 1 -> Nat] /\ 0 \in 0..Window - 1
    BY BudgetTypes, BudgetConstants
  <2>2. recent[o][0] \in Nat
    BY <2>1, Zenon
  <2>3. Smaller(recent[o][0] + 1, n) \in Nat
    BY <1>1, <2>2 DEF Smaller
  <2> QED BY <2>1, <2>3
<1> QED BY <1>2, <1>3, BudgetTypes

LEMMA NextBudgets == BudgetInv /\ [Next]_vars => BudgetInv'
<1> SUFFICES ASSUME BudgetInv, [Next]_vars PROVE BudgetInv'
  OBVIOUS
<1>1. CASE PoolNext /\ UNCHANGED budgetVars
  BY <1>1, PoolStepKeeps
<1>2. CASE UNCHANGED vars
  BY <1>2, PoolStepKeeps DEF vars
<1>3. ASSUME UNCHANGED <<poolVars, used, ttl, job, recent>>, file' \in Files,
             loaded' \in [Processes -> Tables \cup {None}]
      PROVE  BudgetInv'
  BY <1>3, BudgetTypes, JobsJudged, JobStep DEF BudgetInv, JobsAreBounded
<1>4. CASE EditFile
  BY <1>3, <1>4, BudgetTypes DEF EditFile
<1>5. CASE Reload
  BY <1>3, <1>5, BudgetTypes DEF Reload, Tables
<1>6. ASSUME NEW p \in Processes, Restart(p) PROVE BudgetInv'
  <2>1. /\ UNCHANGED <<poolVars, file, used, ttl, recent>>
        /\ loaded' \in [Processes -> Tables \cup {None}]
        /\ job' \in [Slots -> Job \cup {None}]
        /\ \A s \in Slots : job'[s] # None => job'[s] = job[s] /\ job[s] # None
    BY <1>6, BudgetTypes DEF Restart
  <2>2. JobsAreBounded'
    BY <2>1, JobsJudged DEF BudgetInv, JobsAreBounded
  <2> QED BY <2>1, <2>2, BudgetTypes, JobStep
<1>7. ASSUME NEW s \in Slots, Leaves(s), UNCHANGED <<poolVars, configVars, used, ttl>>,
             recent' \in [Watched -> [0..Window - 1 -> Nat]]
      PROVE  BudgetInv'
  BY <1>7, LeavingKeeps, BudgetTypes, JobStep DEF configVars
<1>8. ASSUME NEW s \in Slots, RefuseWrite(s) \/ Fail(s) PROVE BudgetInv'
  BY <1>7, <1>8, BudgetTypes DEF RefuseWrite, Fail
<1>9. ASSUME NEW s \in Slots, Perform(s) PROVE BudgetInv'
  <2>1. job[s] \in Job /\ Recorded(job[s].acct, job[s].action)
    BY <1>9, BudgetTypes DEF Perform
  <2>2. recent' \in [Watched -> [0..Window - 1 -> Nat]]
    BY <2>1, RecordKeeps DEF Job
  <2> QED BY <1>7, <1>9, <2>2 DEF Perform
<1>10. ASSUME NEW s \in Slots, NEW o \in Orders,
              \/ o[2] \in Writes /\ TakeWrite(s, o[1], o[2])
              \/ o[2] \in Reads /\ TakeRead(s, o[1], o[2])
       PROVE  BudgetInv'
  BY <1>10, BudgetConstants, TakeWriteKeeps, TakeReadKeeps
<1>11. CASE BudgetNext
  BY <1>4, <1>5, <1>6, <1>8, <1>9, <1>10, <1>11, TickKeeps, SpendKeeps DEF BudgetNext, Works
<1> QED BY <1>1, <1>2, <1>11 DEF Next

LEMMA BudgetsAreSafe == Spec => []BudgetInv
BY InitBudgets, NextBudgets, PTL DEF Spec

\* The state of the workers, the counters and the credentials keeps its shape.
THEOREM BudgetType == Spec => []TypeOK
BY BudgetsAreSafe, PTL DEF BudgetInv

\* No counter is ever left without an expiry (redis_client.py:37-39).
THEOREM CountersExpire == Spec => []EveryCounterExpires
BY BudgetsAreSafe, PTL DEF BudgetInv

\* The aggregate budget of a credential follows the accounts it really has, under every
\* file, stale table and lost increment (budget.py:121-124, accounts.py:231).
THEOREM AggregatesAreBounded == Spec => []AggregateWithinMembers
BY BudgetsAreSafe, PTL DEF BudgetInv

\* What CredentialPool promises holds while the workers spend by its counts.
THEOREM BudgetPool == Spec => []CountIsLower /\ []OverfillNeedsImport
BY BudgetsAreSafe, PTL DEF BudgetInv, PoolInv

-----------------------------------------------------------------------------
(* the report                                                               *)

\* Where GET /v1/limits shows nothing left, the counters refuse (limits.py:52-55).  The
\* converse is no theorem: the report leaves out the net aggregate.
THEOREM ZeroIsRefused == Spec => []ZeroRemainingIsRefused
<1>1. BudgetInv => ZeroRemainingIsRefused
  <2> SUFFICES ASSUME BudgetInv, NEW a \in Accounts, NEW x \in Writes, NEW w \in Workers,
                      Onboarded(a), TableOf(w) = TableOf(Gateway),
                      Cap(TableOf(w), a, x) > 0, Remaining(a, x) = 0,
                      Affordable(a, x, Cap(TableOf(w), a, x), Members(a))
               PROVE  FALSE
    BY DEF ZeroRemainingIsRefused
  <2>1. PICK cap, n, acct, api : /\ cap = Cap(TableOf(w), a, x) /\ n = Members(a)
                                 /\ acct = AcctKey(a, x)
                                 /\ api = ApiKey(req[a].cred, UseOf[a], x)
    OBVIOUS
  <2>2. cap \in Nat /\ cap > 0
    <3>1. TableOf(w) \in Tables
      BY TableIsOne DEF Processes
    <3>2. Cap(TableOf(w), a, x) \in 0..TopCap[<<UseOf[a], x>>]
      BY <3>1, CapsAreBounded
    <3>3. TopCap[<<UseOf[a], x>>] \in Nat
      BY <3>1, CapsAreBounded DEF Actions
    <3> QED BY <2>1, <3>2, <3>3
  <2>3. req[a].cred \in Creds /\ UseOf[a] \in UseCases
    BY BudgetConstants DEF BudgetInv, PoolInv, Holders, Onboarded
  <2>4. acct \in Keys /\ (x \in Sensitive => api \in Keys)
    BY <2>1, <2>3 DEF Keys
  <2>5. used[acct] \in Nat /\ (x \in Sensitive => used[api] \in Nat)
    BY <2>4, BudgetTypes
  <2>6. used[acct] + 1 <= cap
    BY <2>1 DEF Affordable, Budgets, CapOf, AcctKey
  <2>7. Bigger(0, cap - used[acct]) \in Nat \ {0}
    BY <2>2, <2>5, <2>6 DEF Bigger
  <2>8. CASE x \notin Sensitive
    BY <2>1, <2>7, <2>8 DEF Remaining
  <2>9. CASE x \in Sensitive
    <3>1. used[api] + 1 <= AggregateCap(cap, n)
      BY <2>1, <2>9 DEF Affordable, Budgets, CapOf, ApiKey
    <3>2. n \in Nat
      BY <2>1, <2>3, BudgetTypes DEF Members, Bigger, PoolTypeOK
    <3>3. AggregateCap(cap, n) \in Nat
      BY <2>2, <3>2, AggregateCapIsNat
    <3>4. Bigger(0, AggregateCap(cap, n) - used[api]) \in Nat \ {0}
      BY <2>5, <2>9, <3>1, <3>3 DEF Bigger
    <3>5. Remaining(a, x)
            = Smaller(Bigger(0, cap - used[acct]), Bigger(0, AggregateCap(cap, n) - used[api]))
      BY <2>1, <2>9 DEF Remaining
    <3> QED BY <2>7, <3>4, <3>5 DEF Smaller
  <2> QED BY <2>8, <2>9
<1> QED BY <1>1, BudgetsAreSafe, PTL

-----------------------------------------------------------------------------
(* any 24 hours see the calls of at most two windows                        *)

CapTop(o) == TopCap[<<UseOf[o[1]], o[2]>>]

\* the calls in f of the last n ticks
Last(f, n) == {p \in CallsOf(f) : p[1] < n}
Age(k) == Window - ttl[k]

\* Of a counter with value u and t ticks to live, under a largest cap c: the calls
\* since the tick it was opened in and the units held are paid by its value, the
\* earlier ones by its predecessor, whose value was at most c.  A unit that is held
\* in the tick of the opening may be one of the predecessor's.
Within(t, u, c, total, since, acting, taken) ==
    IF t = 0
      THEN taken = 0 /\ total + acting <= c
      ELSE /\ since + (IF t = Window THEN taken ELSE acting) <= Smaller(u, c)
           /\ total + acting <= Smaller(u, c) + c

TwoWindows(o) ==
    Within(ttl[KeyOf(o)], used[KeyOf(o)], CapTop(o), Total(recent[o]),
           Cardinality(Last(recent[o], Age(KeyOf(o)))),
           Cardinality(Acting(o)), Cardinality(Taken(o)))

\* A counter that is alive has counted, so its life is not begun anew.
AliveHasCounted == \A k \in Keys : ttl[k] > 0 => used[k] > 0

\* A job that has yet to be charged is a write, and of this tick.
AskingIsNew ==
    \A s \in Slots : job[s] # None /\ job[s].stage = "asking"
                        => job[s].left = 1 /\ job[s].action \in Writes

\* The inductive invariant of AtMostTwoWindows.
WindowInv ==
    /\ BudgetInv /\ AliveHasCounted /\ AskingIsNew
    /\ \A o \in Watched : AlwaysCapped(o[1], o[2]) => TwoWindows(o)

LEMMA CallsAre ==
  ASSUME NEW f \in [0..Window - 1 -> Nat]
  PROVE  /\ \A p : p \in CallsOf(f) <=> \E i \in 0..Window - 1 : \E n \in 1..f[i] : p = <<i, n>>
         /\ IsFiniteSet(CallsOf(f)) /\ Total(f) \in Nat
<1>1. \A p : p \in CallsOf(f) <=> \E i \in 0..Window - 1 : \E n \in 1..f[i] : p = <<i, n>>
  BY DEF CallsOf
<1>2. IsFiniteSet(CallsOf(f))
  <2>1. PICK top \in Nat : top = Window - 1
    BY BudgetConstants
  <2>2. PICK S : S = {{i} \X (1..f[i]) : i \in 0..top}
    OBVIOUS
  <2>3. IsFiniteSet(S)
    <3>1. IsFiniteSet(0..top)
      BY FS_Interval
    <3>2. PICK g : g = [i \in 0..top |-> {i} \X (1..f[i])]
      OBVIOUS
    <3>3. g \in Surjection(0..top, S)
      BY <2>2, <3>2 DEF Surjection
    <3> QED BY <3>1, <3>3, FS_Surjection
  <2>4. ASSUME NEW i \in 0..top PROVE IsFiniteSet({i} \X (1..f[i]))
    <3>1. f[i] \in Nat
      BY <2>1
    <3>2. IsFiniteSet(1..f[i])
      BY <3>1, FS_Interval
    <3>3. IsFiniteSet({i})
      BY FS_Singleton
    <3> QED BY <3>2, <3>3, FS_Product
  <2>5. \A T \in S : IsFiniteSet(T)
    BY <2>2, <2>4
  <2>6. IsFiniteSet(UNION S)
    BY <2>3, <2>5, FS_UNION
  <2> QED BY <2>1, <2>2, <2>6 DEF CallsOf
<1> QED BY <1>1, <1>2, FS_CardinalityType DEF Total

LEMMA LastCount ==
  ASSUME NEW f \in [0..Window - 1 -> Nat], NEW n \in Int
  PROVE  /\ IsFiniteSet(Last(f, n)) /\ Cardinality(Last(f, n)) \in Nat
         /\ Cardinality(Last(f, n)) <= Total(f)
         /\ n <= 0 => Cardinality(Last(f, n)) = 0
         /\ n >= Window => Last(f, n) = CallsOf(f)
<1>1. IsFiniteSet(CallsOf(f)) /\ Last(f, n) \subseteq CallsOf(f)
  BY CallsAre DEF Last
<1>2. IsFiniteSet(Last(f, n)) /\ Cardinality(Last(f, n)) <= Total(f)
  BY <1>1, FS_Subset DEF Total
<1>3. \A p \in CallsOf(f) : p[1] \in 0..Window - 1
  BY CallsAre
<1>4. n <= 0 => Last(f, n) = {}
  BY <1>3, BudgetConstants DEF Last
<1>5. n >= Window => Last(f, n) = CallsOf(f)
  BY <1>3, BudgetConstants DEF Last
<1> QED BY <1>2, <1>4, <1>5, FS_EmptySet, FS_CardinalityType

\* A call is at most one more, and it is of the tick that goes on.
LEMMA CallAdds ==
  ASSUME NEW f \in [0..Window - 1 -> Nat], NEW g \in [0..Window - 1 -> Nat], NEW n \in Int,
         g[0] <= f[0] + 1, \A i \in 1..Window - 1 : g[i] = f[i]
  PROVE  /\ Total(g) <= Total(f) + 1
         /\ Cardinality(Last(g, n)) <= Cardinality(Last(f, n)) + 1
<1>1. 0 \in 0..Window - 1 /\ f[0] \in Nat /\ g[0] \in Nat
  BY BudgetConstants
<1>2. PICK c : c = <<0, f[0] + 1>>
  OBVIOUS
<1>3. CallsOf(g) \subseteq CallsOf(f) \cup {c}
  <2> SUFFICES ASSUME NEW p \in CallsOf(g), p # c
               PROVE  p \in CallsOf(f)
    OBVIOUS
  <2>1. PICK i \in 0..Window - 1 : \E m \in 1..g[i] : p = <<i, m>>
    BY DEF CallsOf
  <2>2. PICK m \in 1..g[i] : p = <<i, m>>
    BY <2>1
  <2>3. m \in 1..f[i]
    <3>1. CASE i = 0
      BY <1>1, <1>2, <2>2, <3>1
    <3>2. CASE i # 0
      BY <3>2, BudgetConstants
    <3> QED BY <3>1, <3>2
  <2> QED BY <2>2, <2>3, CallsAre
<1>4. Last(g, n) \subseteq Last(f, n) \cup {c}
  BY <1>3 DEF Last
<1>5. ASSUME NEW S, NEW T, IsFiniteSet(S), T \subseteq S \cup {c}
      PROVE  Cardinality(T) <= Cardinality(S) + 1
  <2>1. /\ IsFiniteSet(S \cup {c}) /\ Cardinality(S) \in Nat
        /\ Cardinality(S \cup {c}) = IF c \in S THEN Cardinality(S) ELSE Cardinality(S) + 1
    BY <1>5, FS_AddElement, FS_CardinalityType
  <2>2. IsFiniteSet(T) /\ Cardinality(T) <= Cardinality(S \cup {c})
    BY <1>5, <2>1, FS_Subset
  <2>3. Cardinality(T) \in Nat
    BY <2>2, FS_CardinalityType
  <2> QED BY <2>1, <2>2, <2>3
<1> QED BY <1>3, <1>4, <1>5, CallsAre, LastCount DEF Total

\* A tick moves every call one back, out of sight after Window - 1.
LEMMA TickShifts ==
  ASSUME NEW f \in [0..Window - 1 -> Nat], NEW g \in [0..Window - 1 -> Nat], NEW n \in Int,
         g = [i \in 0..Window - 1 |-> IF i = 0 THEN 0 ELSE f[i - 1]]
  PROVE  Cardinality(Last(g, n + 1)) <= Cardinality(Last(f, n))
<1>1. PICK S, T : S = Last(g, n + 1) /\ T = Last(f, n)
  OBVIOUS
<1>2. ASSUME NEW p \in S
      PROVE  /\ <<p[1] - 1, p[2]>> \in T
             /\ p[1] \in Int /\ p = <<p[1], p[2]>>
  <2>1. p \in CallsOf(g) /\ p[1] < n + 1
    BY <1>1 DEF Last
  <2>2. PICK i \in 0..Window - 1 : \E m \in 1..g[i] : p = <<i, m>>
    BY <2>1 DEF CallsOf
  <2>3. PICK m \in 1..g[i] : p = <<i, m>>
    BY <2>2
  <2>4. i \in 0..Window - 1 /\ m \in 1..g[i] /\ p = <<i, m>> /\ i < n + 1
    BY <2>1, <2>3
  <2>5. i # 0
    BY <2>4
  <2>6. i - 1 \in 0..Window - 1 /\ m \in 1..f[i - 1] /\ i - 1 < n
    BY <2>4, <2>5, BudgetConstants
  <2>7. <<i - 1, m>> \in CallsOf(f)
    BY <2>6, CallsAre
  <2> QED BY <1>1, <2>4, <2>6, <2>7 DEF Last
<1>3. PICK h : h = [p \in S |-> <<p[1] - 1, p[2]>>]
  OBVIOUS
<1>4. h \in Injection(S, T)
  <2>1. h \in [S -> T]
    BY <1>2, <1>3
  <2>2. ASSUME NEW p \in S, NEW q \in S, h[p] = h[q] PROVE p = q
    <3>1. p[1] - 1 = q[1] - 1 /\ p[2] = q[2]
      BY <1>3, <2>2
    <3>2. p[1] \in Int /\ q[1] \in Int /\ p = <<p[1], p[2]>> /\ q = <<q[1], q[2]>>
      BY <1>2
    <3>3. p[1] = q[1]
      BY <3>1, <3>2
    <3> QED BY <3>1, <3>2, <3>3
  <2> QED BY <2>1, <2>2 DEF Injection, IsInjective
<1> QED BY <1>1, <1>4, LastCount, FS_Injection

LEMMA ActingCount ==
  ASSUME NEW S \in SUBSET Slots
  PROVE  IsFiniteSet(S) /\ Cardinality(S) \in Nat
BY BudgetConstants, FS_Subset, FS_CardinalityType

LEMMA WatchedTypes ==
  ASSUME BudgetInv, NEW o \in Watched
  PROVE  /\ o \in Accounts \X Actions /\ o = <<o[1], o[2]>>
         /\ KeyOf(o) \in Keys /\ CapTop(o) \in Nat
         /\ recent[o] \in [0..Window - 1 -> Nat]
         /\ ttl[KeyOf(o)] \in 0..Window /\ used[KeyOf(o)] \in Nat /\ Age(KeyOf(o)) \in 0..Window
         /\ Total(recent[o]) \in Nat
         /\ Cardinality(Last(recent[o], Age(KeyOf(o)))) \in Nat
         /\ Cardinality(Acting(o)) \in Nat /\ Cardinality(Taken(o)) \in Nat
         /\ IsFiniteSet(Acting(o)) /\ IsFiniteSet(Taken(o))
         /\ Cardinality(Taken(o)) <= Cardinality(Acting(o))
<1>1. o \in Accounts \X Actions /\ o = <<o[1], o[2]>>
  BY BudgetConstants
<1>2. KeyOf(o) \in Keys
  BY <1>1 DEF KeyOf, Keys, Actions
<1>3. CapTop(o) \in Nat
  BY <1>1, BudgetConstants DEF CapTop
<1>4. recent[o] \in [0..Window - 1 -> Nat]
  BY BudgetTypes
<1>5. ttl[KeyOf(o)] \in 0..Window /\ used[KeyOf(o)] \in Nat
  BY <1>2, BudgetTypes
<1>6. Age(KeyOf(o)) \in 0..Window
  BY <1>5, BudgetConstants DEF Age
<1>7. Total(recent[o]) \in Nat /\ Cardinality(Last(recent[o], Age(KeyOf(o)))) \in Nat
  BY <1>4, <1>6, CallsAre, LastCount
<1>8. Acting(o) \subseteq Slots /\ Taken(o) \subseteq Acting(o)
  BY DEF Acting, Taken
<1>9. IsFiniteSet(Acting(o)) /\ IsFiniteSet(Taken(o))
  BY <1>8, ActingCount
<1>10. /\ Cardinality(Acting(o)) \in Nat /\ Cardinality(Taken(o)) \in Nat
       /\ Cardinality(Taken(o)) <= Cardinality(Acting(o))
  BY <1>8, <1>9, FS_Subset, FS_CardinalityType
<1> QED BY <1>1, <1>2, <1>3, <1>4, <1>5, <1>6, <1>7, <1>9, <1>10

\* A step by which the counter lives on and no call or unit is added.
LEMMA UnitsLeft ==
  ASSUME BudgetInv, BudgetInv', NEW o \in Watched, TwoWindows(o),
         ttl'[KeyOf(o)] = ttl[KeyOf(o)], used'[KeyOf(o)] >= used[KeyOf(o)],
         recent'[o] = recent[o],
         Acting(o)' \subseteq Acting(o), Taken(o)' \subseteq Taken(o)
  PROVE  TwoWindows(o)'
<1>1. PICK k, acting, taken : k = KeyOf(o) /\ acting = Acting(o)' /\ taken = Taken(o)'
  OBVIOUS
<1>2. /\ IsFiniteSet(acting) /\ Cardinality(acting) \in Nat
      /\ Cardinality(acting) <= Cardinality(Acting(o))
      /\ IsFiniteSet(taken) /\ Cardinality(taken) \in Nat
      /\ Cardinality(taken) <= Cardinality(Taken(o))
  BY <1>1, WatchedTypes, FS_Subset, FS_CardinalityType
<1>3. used'[k] \in Nat /\ used'[k] >= used[k] /\ ttl'[k] = ttl[k] /\ Age(k)' = Age(k)
  <2>1. k \in Keys
    BY <1>1, WatchedTypes
  <2>2. used' \in [Keys -> Nat]
    BY DEF BudgetInv, TypeOK
  <2> QED BY <1>1, <2>1, <2>2 DEF Age
<1>4. PICK t, u, c, total, since, held, fresh :
         /\ t = ttl[k] /\ u = used[k] /\ c = CapTop(o) /\ total = Total(recent[o])
         /\ since = Cardinality(Last(recent[o], Age(k)))
         /\ held = Cardinality(Acting(o)) /\ fresh = Cardinality(Taken(o))
  OBVIOUS
<1>5. /\ t \in 0..Window /\ u \in Nat /\ c \in Nat /\ total \in Nat /\ since \in Nat
      /\ held \in Nat /\ fresh \in Nat /\ Within(t, u, c, total, since, held, fresh)
  BY <1>1, <1>4, WatchedTypes DEF TwoWindows
<1>6. PICK v, m, n : v = used'[k] /\ m = Cardinality(acting) /\ n = Cardinality(taken)
  OBVIOUS
<1>7. v \in Nat /\ v >= u /\ m \in Nat /\ m <= held /\ n \in Nat /\ n <= fresh
  BY <1>2, <1>3, <1>4, <1>6
<1>8. Within(t, v, c, total, since, m, n)
  BY <1>5, <1>7 DEF Within, Smaller
<1> QED BY <1>1, <1>3, <1>4, <1>6, <1>8 DEF TwoWindows, KeyOf, CapTop

\* One unit is taken for a job, from a counter that has room; the first opens a window.
LEMMA UnitTaken ==
  ASSUME BudgetInv, BudgetInv', NEW o \in Watched, TwoWindows(o), NEW s \in Slots,
         ttl[KeyOf(o)] > 0 <=> used[KeyOf(o)] > 0,
         used'[KeyOf(o)] = used[KeyOf(o)] + 1, used[KeyOf(o)] + 1 <= CapTop(o),
         ttl'[KeyOf(o)] = IF used[KeyOf(o)] = 0 THEN Window ELSE ttl[KeyOf(o)],
         recent'[o] = recent[o],
         Acting(o)' \subseteq Acting(o) \cup {s}, Taken(o)' \subseteq Taken(o) \cup {s}
  PROVE  TwoWindows(o)'
<1>1. PICK k, acting, taken : k = KeyOf(o) /\ acting = Acting(o)' /\ taken = Taken(o)'
  OBVIOUS
<1>2. ASSUME NEW S \in SUBSET Slots, NEW T, T \subseteq S \cup {s}
      PROVE  Cardinality(T) \in Nat /\ Cardinality(T) <= Cardinality(S) + 1
  <2>1. /\ IsFiniteSet(S \cup {s}) /\ Cardinality(S) \in Nat
        /\ Cardinality(S \cup {s}) = IF s \in S THEN Cardinality(S) ELSE Cardinality(S) + 1
    BY ActingCount, FS_AddElement
  <2>2. IsFiniteSet(T) /\ Cardinality(T) <= Cardinality(S \cup {s})
    BY <1>2, <2>1, FS_Subset
  <2> QED BY <2>1, <2>2, FS_CardinalityType
<1>3. /\ Cardinality(acting) \in Nat /\ Cardinality(acting) <= Cardinality(Acting(o)) + 1
      /\ Cardinality(taken) \in Nat /\ Cardinality(taken) <= Cardinality(Taken(o)) + 1
  <2>1. Acting(o) \subseteq Slots /\ Taken(o) \subseteq Slots
    BY DEF Acting, Taken
  <2> QED BY <1>1, <1>2, <2>1
<1>4. PICK t, u, c, total, since, held, fresh :
         /\ t = ttl[k] /\ u = used[k] /\ c = CapTop(o) /\ total = Total(recent[o])
         /\ since = Cardinality(Last(recent[o], Age(k)))
         /\ held = Cardinality(Acting(o)) /\ fresh = Cardinality(Taken(o))
  OBVIOUS
<1>5. /\ t \in 0..Window /\ u \in Nat /\ c \in Nat /\ total \in Nat /\ since \in Nat
      /\ held \in Nat /\ fresh \in Nat
      /\ t > 0 <=> u > 0
      /\ u + 1 <= c /\ Within(t, u, c, total, since, held, fresh)
  BY <1>1, <1>4, WatchedTypes DEF TwoWindows
<1>6. PICK later : later = Cardinality(Last(recent[o], Age(k)'))
  OBVIOUS
<1>7. CASE u = 0
  <2>1. ttl'[k] = Window /\ Age(k)' = 0
    BY <1>1, <1>4, <1>7, BudgetConstants DEF Age
  <2>2. later = 0
    BY <1>6, <2>1, WatchedTypes, LastCount
  <2>3. Within(Window, 1, c, total, later, Cardinality(acting), Cardinality(taken))
    BY <1>3, <1>4, <1>5, <1>7, <2>2, BudgetConstants DEF Within, Smaller
  <2>4. used'[k] = 1
    BY <1>1, <1>4, <1>7
  <2> QED BY <1>1, <1>4, <1>6, <2>1, <2>3, <2>4 DEF TwoWindows, KeyOf, CapTop
<1>8. CASE u # 0
  <2>1. ttl'[k] = t /\ later = since /\ t # 0
    BY <1>1, <1>4, <1>5, <1>6, <1>8 DEF Age
  <2>2. Within(t, u + 1, c, total, since, Cardinality(acting), Cardinality(taken))
    BY <1>3, <1>4, <1>5, <2>1 DEF Within, Smaller
  <2>3. used'[k] = u + 1
    BY <1>1, <1>4
  <2> QED BY <1>1, <1>4, <1>6, <2>1, <2>2, <2>3 DEF TwoWindows, KeyOf, CapTop
<1> QED BY <1>7, <1>8

\* A job that holds a unit calls and is over.
LEMMA UnitSpent ==
  ASSUME BudgetInv, BudgetInv', NEW o \in Watched, TwoWindows(o), NEW s \in Acting(o),
         UNCHANGED <<used, ttl>>,
         recent'[o][0] <= recent[o][0] + 1,
         \A i \in 1..Window - 1 : recent'[o][i] = recent[o][i],
         Acting(o)' = Acting(o) \ {s}, Taken(o)' = Taken(o) \ {s}
  PROVE  TwoWindows(o)'
<1>1. PICK k, g, acting, taken : /\ k = KeyOf(o) /\ g = recent'[o]
                                 /\ acting = Acting(o)' /\ taken = Taken(o)'
  OBVIOUS
<1>2. g \in [0..Window - 1 -> Nat]
  BY <1>1 DEF BudgetInv, TypeOK
<1>3. PICK t, u, c, total, since, held, fresh :
         /\ t = ttl[k] /\ u = used[k] /\ c = CapTop(o) /\ total = Total(recent[o])
         /\ since = Cardinality(Last(recent[o], Age(k)))
         /\ held = Cardinality(Acting(o)) /\ fresh = Cardinality(Taken(o))
  OBVIOUS
<1>4. /\ t \in 0..Window /\ u \in Nat /\ c \in Nat /\ total \in Nat /\ since \in Nat
      /\ held \in Nat /\ fresh \in Nat /\ Within(t, u, c, total, since, held, fresh)
      /\ Age(k) \in 0..Window
  BY <1>1, <1>3, WatchedTypes DEF TwoWindows
<1>5. /\ Cardinality(acting) = held - 1 /\ Cardinality(acting) \in Nat
      /\ Cardinality(taken) <= fresh /\ Cardinality(taken) \in Nat
  <2>1. IsFiniteSet(Acting(o)) /\ IsFiniteSet(Taken(o))
    BY WatchedTypes
  <2>2. acting = Acting(o) \ {s} /\ taken = Taken(o) \ {s} /\ taken \subseteq Taken(o)
    BY <1>1
  <2>3. Cardinality(acting) = held - 1 /\ IsFiniteSet(acting)
    BY <1>3, <2>1, <2>2, FS_RemoveElement
  <2>4. Cardinality(taken) <= fresh /\ IsFiniteSet(taken)
    BY <1>3, <2>1, <2>2, FS_Subset
  <2> QED BY <2>3, <2>4, FS_CardinalityType
<1>6. PICK more, later : more = Total(g) /\ later = Cardinality(Last(g, Age(k)))
  OBVIOUS
<1>7. /\ more <= total + 1 /\ later <= since + 1 /\ more \in Nat /\ later \in Nat
      /\ t = Window => later = 0
  <2>1. recent[o] \in [0..Window - 1 -> Nat] /\ Age(k) \in Int
    BY <1>4, WatchedTypes
  <2>2. g[0] <= recent[o][0] + 1 /\ \A i \in 1..Window - 1 : g[i] = recent[o][i]
    BY <1>1
  <2>3. more <= total + 1 /\ later <= since + 1
    BY <1>2, <1>3, <1>6, <2>1, <2>2, CallAdds
  <2>4. more \in Nat /\ later \in Nat /\ (Age(k) <= 0 => later = 0)
    BY <1>2, <1>6, <2>1, CallsAre, LastCount
  <2> QED BY <1>3, <2>3, <2>4, BudgetConstants DEF Age
<1>8. Within(t, u, c, more, later, Cardinality(acting), Cardinality(taken))
  <2>1. CASE t = 0
    BY <1>4, <1>5, <1>7, <2>1 DEF Within
  <2>2. CASE t = Window /\ t # 0
    BY <1>4, <1>5, <1>7, <2>2 DEF Within, Smaller
  <2>3. CASE t # Window /\ t # 0
    BY <1>4, <1>5, <1>7, <2>3 DEF Within, Smaller
  <2> QED BY <2>1, <2>2, <2>3
<1>9. ttl'[k] = t /\ used'[k] = u /\ Age(k)' = Age(k)
  BY <1>3 DEF Age
<1> QED BY <1>1, <1>3, <1>6, <1>8, <1>9 DEF TwoWindows, KeyOf, CapTop

\* A tick takes the calls of the oldest tick out of sight; a counter that expires takes
\* the tick of its opening with it, and what is left was paid by its value.
LEMMA UnitsAge ==
  ASSUME BudgetInv, BudgetInv', NEW o \in Watched, TwoWindows(o), Tick
  PROVE  TwoWindows(o)'
<1>1. PICK k, f, g : k = KeyOf(o) /\ f = recent[o] /\ g = recent'[o]
  OBVIOUS
<1>2. /\ f \in [0..Window - 1 -> Nat] /\ g \in [0..Window - 1 -> Nat]
      /\ g = [i \in 0..Window - 1 |-> IF i = 0 THEN 0 ELSE f[i - 1]]
  <2>1. g \in [0..Window - 1 -> Nat]
    BY <1>1 DEF BudgetInv, TypeOK
  <2> QED BY <1>1, <2>1, WatchedTypes DEF Tick
<1>3. Acting(o)' = Acting(o) /\ Taken(o)' = {} /\ Taken(o) = Acting(o)
  <2>1. \A s \in Slots : job[s] # None => job[s].left = 1 /\ job[s].stage = "acting"
    BY DEF Tick
  <2>2. \A s \in Slots : job[s] \in Job \cup {None}
    BY BudgetTypes
  <2>3. ASSUME NEW s \in Slots
        PROVE  /\ job'[s] # None <=> job[s] # None
               /\ job'[s] # None => /\ job'[s].stage = job[s].stage /\ job'[s].acct = job[s].acct
                                    /\ job'[s].action = job[s].action /\ job'[s].left = 0
    <3>1. job'[s] = IF job[s] = None THEN None ELSE [job[s] EXCEPT !.left = 0]
      BY DEF Tick
    <3>2. CASE job[s] = None
      BY <3>1, <3>2
    <3>3. CASE job[s] # None
      <4>1. PICK j \in Job : j = job[s]
        BY <2>2, <3>3
      <4>2. /\ [j EXCEPT !.left = 0] \in Job
            /\ [j EXCEPT !.left = 0].stage = j.stage /\ [j EXCEPT !.left = 0].acct = j.acct
            /\ [j EXCEPT !.left = 0].action = j.action /\ [j EXCEPT !.left = 0].left = 0
        BY DEF Job
      <4> QED BY <3>1, <3>3, <4>1, <4>2, NoneIsNoJob
    <3> QED BY <3>2, <3>3
  <2> QED BY <2>1, <2>3 DEF Acting, Taken
<1>4. PICK t, u, c, total, since, held :
         /\ t = ttl[k] /\ u = used[k] /\ c = CapTop(o) /\ total = Total(f)
         /\ since = Cardinality(Last(f, Age(k))) /\ held = Cardinality(Acting(o))
  OBVIOUS
<1>5. /\ t \in 0..Window /\ u \in Nat /\ c \in Nat /\ total \in Nat /\ since \in Nat
      /\ held \in Nat /\ Within(t, u, c, total, since, held, held) /\ k \in Keys
  BY <1>1, <1>3, <1>4, WatchedTypes DEF TwoWindows
<1>6. PICK less : less = Total(g)
  OBVIOUS
<1>7. /\ less \in Nat /\ less <= total
      /\ t = 1 => less <= since
  <2>1. less = Cardinality(Last(g, Window - 1 + 1)) /\ less \in Nat
    <3>1. PICK n \in Int : n = Window - 1 + 1 /\ n >= Window
      BY BudgetConstants
    <3>2. Last(g, n) = CallsOf(g)
      BY <1>2, <3>1, LastCount
    <3>3. less \in Nat
      BY <1>2, <1>6, CallsAre
    <3> QED BY <1>6, <3>1, <3>2, <3>3 DEF Total
  <2>2. Window - 1 \in Int
    BY BudgetConstants
  <2>3. Cardinality(Last(g, Window - 1 + 1)) <= Cardinality(Last(f, Window - 1))
    BY <1>2, <2>2, TickShifts
  <2>4. Cardinality(Last(f, Window - 1)) \in Nat /\ Cardinality(Last(f, Window - 1)) <= total
    BY <1>2, <1>4, <2>2, LastCount
  <2>5. t = 1 => Age(k) = Window - 1
    BY <1>4 DEF Age
  <2> QED BY <1>4, <1>5, <2>1, <2>3, <2>4, <2>5
<1>8. ttl'[k] = (IF t = 0 THEN 0 ELSE t - 1) /\ used'[k] = IF t = 1 THEN 0 ELSE u
  BY <1>4, <1>5 DEF Tick
<1>9. PICK later : later = Cardinality(Last(g, Age(k)'))
  OBVIOUS
<1>10. CASE t \in {0, 1}
  <2>1. Within(0, used'[k], c, less, later, held, 0)
    BY <1>5, <1>7, <1>10, BudgetConstants DEF Within, Smaller
  <2>2. ttl'[k] = 0
    BY <1>8, <1>10
  <2>3. Cardinality(Taken(o)') = 0 /\ Cardinality(Acting(o)') = held
    BY <1>3, <1>4, FS_EmptySet
  <2> QED BY <1>1, <1>4, <1>6, <1>9, <2>1, <2>2, <2>3 DEF TwoWindows, KeyOf, CapTop
<1>11. CASE t \notin {0, 1}
  <2>1. ttl'[k] = t - 1 /\ used'[k] = u /\ Age(k)' = Age(k) + 1
    BY <1>4, <1>5, <1>8, <1>11, BudgetConstants DEF Age
  <2>2. Age(k) \in Int /\ Age(k) + 1 \in Int
    BY <1>4, <1>5, BudgetConstants DEF Age
  <2>3. later \in Nat /\ later <= since
    BY <1>2, <1>4, <1>9, <2>1, <2>2, TickShifts, LastCount
  <2>4. Within(t - 1, u, c, less, later, held, 0)
    BY <1>5, <1>7, <1>11, <2>3, BudgetConstants DEF Within, Smaller
  <2>5. Cardinality(Taken(o)') = 0 /\ Cardinality(Acting(o)') = held
    BY <1>3, <1>4, FS_EmptySet
  <2> QED BY <1>1, <1>4, <1>6, <1>9, <2>1, <2>4, <2>5 DEF TwoWindows, KeyOf, CapTop
<1> QED BY <1>10, <1>11

LEMMA UsedHasTime ==
  ASSUME WindowInv, NEW k \in Keys
  PROVE  ttl[k] > 0 <=> used[k] > 0
BY BudgetTypes DEF WindowInv, BudgetInv, EveryCounterExpires, AliveHasCounted

LEMMA NextCounted ==
  ASSUME WindowInv, [Next]_vars
  PROVE  AliveHasCounted'
<1>1. ASSUME UNCHANGED <<used, ttl>> PROVE AliveHasCounted'
  BY <1>1 DEF WindowInv, AliveHasCounted
<1>2. ASSUME NEW S, Incremented(S) PROVE AliveHasCounted'
  BY <1>2, BudgetTypes DEF WindowInv, AliveHasCounted, Incremented
<1>3. CASE Tick
  BY <1>3, BudgetTypes DEF WindowInv, AliveHasCounted, Tick
<1>4. ASSUME NEW s \in Slots, NEW a, NEW x, TakeRead(s, a, x) PROVE AliveHasCounted'
  BY <1>1, <1>2, <1>4 DEF TakeRead
<1> QED BY <1>1, <1>2, <1>3, <1>4
        DEF Next, BudgetNext, Works, vars, budgetVars, EditFile, Reload, Restart, Spend,
            RefuseWrite, Perform, Fail, TakeWrite

LEMMA NextAsking ==
  ASSUME WindowInv, [Next]_vars
  PROVE  AskingIsNew'
<1>1. ASSUME \A r \in Slots : job'[r] # None => job'[r] = job[r] /\ job[r] # None
      PROVE  AskingIsNew'
  BY <1>1 DEF WindowInv, AskingIsNew
<1>2. ASSUME NEW s \in Slots, Leaves(s) PROVE AskingIsNew'
  BY <1>1, <1>2, BudgetTypes DEF WindowInv, Leaves
<1>3. ASSUME NEW s \in Slots, NEW stage, NEW a, NEW x, NEW cap, NEW n,
             Enters(s, stage, a, x, cap, n), stage = "asking" => x \in Writes
      PROVE  AskingIsNew'
  <2>1. PICK j : j = [stage |-> stage, acct |-> a, action |-> x, cap |-> cap, members |-> n,
                      left |-> 1]
    OBVIOUS
  <2>2. \A r \in Slots : job'[r] = IF r = s THEN j ELSE job[r]
    BY <1>3, <2>1, BudgetTypes DEF WindowInv, Enters
  <2>3. j.stage = stage /\ j.action = x /\ j.left = 1
    BY <2>1
  <2> QED BY <1>3, <2>2, <2>3 DEF WindowInv, AskingIsNew
<1>4. ASSUME NEW s \in Slots, Spend(s) PROVE AskingIsNew'
  <2>1. PICK j \in Job : j = job[s]
    BY <1>4, BudgetTypes DEF WindowInv, Spend
  <2>2. PICK i : i = [j EXCEPT !.stage = "acting"]
    OBVIOUS
  <2>3. i.stage = "acting" /\ \A r \in Slots : job'[r] = IF r = s THEN i ELSE job[r]
    BY <1>4, <2>1, <2>2, BudgetTypes DEF WindowInv, Spend, BecomesActing, Job
  <2> QED BY <2>3 DEF WindowInv, AskingIsNew
<1>5. CASE Tick
  <2>1. ASSUME NEW s \in Slots, job'[s] # None PROVE job'[s].stage # "asking"
    <3>1. job[s] # None /\ job[s] \in Job /\ job[s].stage = "acting"
      BY <1>5, <2>1, BudgetTypes DEF WindowInv, Tick
    <3>2. PICK j \in Job : j = job[s]
      BY <3>1
    <3>3. [j EXCEPT !.left = 0].stage = j.stage /\ job'[s] = [j EXCEPT !.left = 0]
      BY <1>5, <3>1, <3>2 DEF Tick, Job
    <3> QED BY <3>1, <3>2, <3>3
  <2> QED BY <2>1 DEF AskingIsNew
<1>6. ASSUME NEW s \in Slots, NEW a, NEW x \in Reads, TakeRead(s, a, x) PROVE AskingIsNew'
  BY <1>1, <1>3, <1>6 DEF TakeRead
<1>7. ASSUME NEW s \in Slots, NEW a, NEW x \in Writes, TakeWrite(s, a, x) PROVE AskingIsNew'
  BY <1>3, <1>7 DEF TakeWrite
<1>8. ASSUME NEW p, Restart(p) PROVE AskingIsNew'
  BY <1>1, <1>8, BudgetTypes DEF WindowInv, Restart
<1>9. ASSUME NEW s \in Slots, Works(s) PROVE AskingIsNew'
  BY <1>2, <1>4, <1>9 DEF Works, RefuseWrite, Perform, Fail
<1>10. ASSUME UNCHANGED job PROVE AskingIsNew'
  BY <1>1, <1>10
<1> QED BY <1>5, <1>6, <1>7, <1>8, <1>9, <1>10
        DEF Next, BudgetNext, vars, budgetVars, EditFile, Reload

LEMMA CountedOnce ==
  ASSUME WindowInv, NEW S, Incremented(S), NEW k \in Keys
  PROVE  /\ used'[k] = IF k \in S THEN used[k] + 1 ELSE used[k]
         /\ ttl'[k] = IF k \in S /\ used[k] = 0 THEN Window ELSE ttl[k]
BY DEF Incremented

\* While the counters are left alone and no unit is taken, the windows stay.
LEMMA JobsLeave ==
  ASSUME WindowInv, BudgetInv', UNCHANGED <<used, ttl, recent>>,
         NEW o \in Watched, AlwaysCapped(o[1], o[2]),
         \A s \in Slots : \/ s \notin Acting(o)'
                          \/ job'[s] = job[s]
  PROVE  TwoWindows(o)'
<1>1. Acting(o)' \subseteq Acting(o) /\ Taken(o)' \subseteq Taken(o)
  BY DEF Acting, Taken
<1>2. used[KeyOf(o)] >= used[KeyOf(o)]
  BY WatchedTypes DEF WindowInv
<1>3. TwoWindows(o)
  BY DEF WindowInv
<1> QED BY <1>1, <1>2, <1>3, UnitsLeft DEF WindowInv

LEMMA SpendWindow ==
  ASSUME WindowInv, BudgetInv', NEW s \in Slots, Spend(s),
         NEW o \in Watched, AlwaysCapped(o[1], o[2])
  PROVE  TwoWindows(o)'
<1>1. PICK a, x, S, k : /\ a = job[s].acct /\ x = job[s].action /\ S = Budgets(a, x)
                        /\ k = KeyOf(o)
  OBVIOUS
<1>2. /\ BudgetInv /\ TwoWindows(o) /\ job[s] \in Job /\ a \in Accounts /\ x \in Writes
      /\ job[s] # None /\ Affordable(a, x, job[s].cap, job[s].members)
      /\ Incremented(S) /\ UNCHANGED recent
      /\ job[s].cap <= TopCap[<<UseOf[a], x>>]
  BY <1>1, BudgetTypes DEF WindowInv, AskingIsNew, Spend, Job, BudgetInv, JobsAreBounded
<1>3. /\ o \in Accounts \X Actions /\ k \in Keys /\ used[k] \in Nat /\ CapTop(o) \in Nat
      /\ recent'[o] = recent[o]
  BY <1>1, <1>2, WatchedTypes
<1>4. PICK i : i = [job[s] EXCEPT !.stage = "acting"]
  OBVIOUS
<1>5. /\ i.acct = a /\ i.action = x
      /\ \A r \in Slots : job'[r] = IF r = s THEN i ELSE job[r]
  BY <1>1, <1>2, <1>4, BudgetTypes DEF Spend, BecomesActing, Job
<1>6. CASE o = <<a, x>>
  <2>1. k = AcctKey(a, x) /\ k \in S
    BY <1>1, <1>2, <1>6 DEF KeyOf, Budgets
  <2>2. used[k] + 1 <= CapTop(o)
    <3>1. used[k] + 1 <= job[s].cap
      BY <1>1, <1>2, <2>1 DEF Affordable, CapOf, AcctKey
    <3>2. job[s].cap <= CapTop(o) /\ job[s].cap \in Nat
      BY <1>2, <1>6 DEF CapTop, Job
    <3> QED BY <1>3, <3>1, <3>2
  <2>3. /\ used'[k] = used[k] + 1
        /\ ttl'[k] = IF used[k] = 0 THEN Window ELSE ttl[k]
        /\ ttl[k] > 0 <=> used[k] > 0
    BY <1>2, <1>3, <2>1, CountedOnce, UsedHasTime
  <2>4. Acting(o)' \subseteq Acting(o) \cup {s} /\ Taken(o)' \subseteq Taken(o) \cup {s}
    BY <1>5 DEF Acting, Taken
  <2> QED BY <1>1, <1>2, <1>3, <2>2, <2>3, <2>4, UnitTaken
<1>7. CASE o # <<a, x>>
  <2>1. o = <<o[1], o[2]>>
    BY <1>3
  <2>2. k \notin S
    BY <1>1, <1>7, <2>1 DEF KeyOf, Budgets, AcctKey, ApiKey, NetKey, ReadKey
  <2>3. used'[k] = used[k] /\ ttl'[k] = ttl[k]
    BY <1>2, <1>3, <2>2, CountedOnce
  <2>4. s \notin Acting(o)'
    BY <1>5, <1>7, <2>1 DEF Acting
  <2>5. Acting(o)' \subseteq Acting(o) /\ Taken(o)' \subseteq Taken(o)
    BY <1>5, <2>4 DEF Acting, Taken
  <2>6. used'[k] >= used[k]
    BY <1>3, <2>3
  <2> QED BY <1>1, <1>2, <1>3, <2>3, <2>5, <2>6, UnitsLeft
<1> QED BY <1>6, <1>7

\* A write under a cap is charged by the script: it does not act before.
LEMMA TakeWriteWindow ==
  ASSUME WindowInv, BudgetInv', NEW s \in Slots, NEW a \in Accounts, NEW x \in Writes,
         TakeWrite(s, a, x), NEW o \in Watched, AlwaysCapped(o[1], o[2])
  PROVE  TwoWindows(o)'
<1>1. PICK w, cap, n, stage :
         /\ w = WorkerOf[s] /\ cap = Cap(TableOf(w), a, x) /\ n = Members(a)
         /\ stage = IF cap <= 0 THEN "acting" ELSE "asking"
  OBVIOUS
<1>2. BudgetInv /\ Enters(s, stage, a, x, cap, n) /\ UNCHANGED <<used, ttl, recent>>
  BY <1>1 DEF WindowInv, TakeWrite
<1>3. PICK j : j = [stage |-> stage, acct |-> a, action |-> x, cap |-> cap, members |-> n,
                    left |-> 1]
  OBVIOUS
<1>4. /\ j.stage = stage /\ j.acct = a /\ j.action = x
      /\ \A r \in Slots : job'[r] = IF r = s THEN j ELSE job[r]
  BY <1>2, <1>3, BudgetTypes DEF Enters
<1>5. s \notin Acting(o)'
  <2> SUFFICES ASSUME s \in Acting(o)' PROVE FALSE
    OBVIOUS
  <2>1. stage = "acting" /\ a = o[1] /\ x = o[2]
    BY <1>4 DEF Acting
  <2>2. TableOf(w) \in Tables
    BY <1>1, <1>2, BudgetConstants, TableIsOne DEF Processes
  <2>3. cap > 0 /\ cap \in Nat
    <3>1. cap > 0
      BY <1>1, <2>1, <2>2 DEF AlwaysCapped
    <3>2. cap \in 0..TopCap[<<UseOf[a], x>>]
      BY <1>1, <2>2, CapsAreBounded
    <3>3. TopCap[<<UseOf[a], x>>] \in Nat
      BY <2>2, CapsAreBounded DEF Actions
    <3> QED BY <3>1, <3>2, <3>3
  <2> QED BY <1>1, <2>1, <2>3
<1> QED BY <1>2, <1>4, <1>5, JobsLeave

\* A read is charged as it begins; one beyond its cap is counted and does not act.
LEMMA TakeReadWindow ==
  ASSUME WindowInv, BudgetInv', NEW s \in Slots, NEW a \in Accounts, NEW x \in Reads,
         TakeRead(s, a, x), NEW o \in Watched, AlwaysCapped(o[1], o[2])
  PROVE  TwoWindows(o)'
<1>1. PICK w, cap, r, k :
         /\ w = WorkerOf[s] /\ cap = CapIn(TableOf(w).reads, x)
         /\ r = ReadKey(a, x) /\ k = KeyOf(o)
  OBVIOUS
<1>2. /\ BudgetInv /\ TwoWindows(o) /\ UNCHANGED recent /\ x \notin Writes /\ job[s] = None
  BY BudgetConstants DEF WindowInv, TakeRead
<1>3. /\ o \in Accounts \X Actions /\ o = <<o[1], o[2]>> /\ k \in Keys
      /\ used[k] \in Nat /\ CapTop(o) \in Nat /\ recent'[o] = recent[o]
  BY <1>1, <1>2, WatchedTypes
<1>4. TableOf(w) \in Tables
  BY <1>1, <1>2, BudgetConstants, TableIsOne DEF Processes
<1>5. /\ \A q \in Slots \ {s} : job'[q] = job[q]
      /\ job'[s] = None \/ (job'[s].acct = a /\ job'[s].action = x)
  <2>1. UNCHANGED job \/ \E c : Enters(s, "acting", a, x, c, 1)
    BY DEF TakeRead
  <2>2. ASSUME NEW c, Enters(s, "acting", a, x, c, 1)
        PROVE  /\ \A q \in Slots \ {s} : job'[q] = job[q]
               /\ job'[s].acct = a /\ job'[s].action = x
    <3>1. PICK j : j = [stage |-> "acting", acct |-> a, action |-> x, cap |-> c,
                        members |-> 1, left |-> 1]
      OBVIOUS
    <3> QED BY <1>2, <2>2, <3>1, BudgetTypes DEF Enters
  <2> QED BY <1>2, <2>1, <2>2
<1>6. Acting(o)' \subseteq Acting(o) \cup {s} /\ Taken(o)' \subseteq Taken(o) \cup {s}
  BY <1>5 DEF Acting, Taken
<1>7. CASE o # <<a, x>>
  <2>1. k # r
    BY <1>1, <1>3, <1>7 DEF KeyOf, AcctKey, ReadKey
  <2>2. used'[k] = used[k] /\ ttl'[k] = ttl[k]
    <3>1. UNCHANGED <<used, ttl>> \/ Incremented({r})
      BY <1>1 DEF TakeRead
    <3> QED BY <1>3, <2>1, <3>1, CountedOnce
  <2>3. s \notin Acting(o)'
    BY <1>3, <1>5, <1>7 DEF Acting
  <2>4. Acting(o)' \subseteq Acting(o) /\ Taken(o)' \subseteq Taken(o)
    BY <1>6, <2>3 DEF Taken
  <2>5. used'[k] >= used[k]
    BY <1>3, <2>2
  <2> QED BY <1>1, <1>2, <1>3, <2>2, <2>4, <2>5, UnitsLeft
<1>8. CASE o = <<a, x>>
  <2>1. k = r /\ CapTop(o) = TopCap[<<UseOf[a], x>>]
    BY <1>1, <1>2, <1>8 DEF KeyOf, CapTop
  <2>2. cap \in Nat /\ cap > 0 /\ cap <= CapTop(o)
    <3>1. cap > 0
      BY <1>1, <1>2, <1>4, <1>8 DEF AlwaysCapped
    <3>2. cap \in 0..TopCap[<<UseOf[a], x>>]
      BY <1>1, <1>4, BudgetConstants
    <3> QED BY <1>3, <2>1, <3>1, <3>2
  <2>3. CASE used[k] + 1 <= cap
    <3>1. Incremented({k})
      BY <1>1, <1>3, <2>1, <2>2, <2>3 DEF TakeRead
    <3>2. /\ used'[k] = used[k] + 1
          /\ ttl'[k] = IF used[k] = 0 THEN Window ELSE ttl[k]
          /\ ttl[k] > 0 <=> used[k] > 0
      BY <1>3, <3>1, CountedOnce, UsedHasTime
    <3>3. used[k] + 1 <= CapTop(o)
      BY <1>3, <2>2, <2>3
    <3> QED BY <1>1, <1>2, <1>3, <1>6, <3>2, <3>3, UnitTaken
  <2>4. CASE ~ (used[k] + 1 <= cap)
    <3>1. UNCHANGED job /\ (UNCHANGED <<used, ttl>> \/ Incremented({k}))
      BY <1>1, <1>3, <2>1, <2>2, <2>4 DEF TakeRead
    <3>2. used'[k] >= used[k] /\ ttl'[k] = ttl[k]
      BY <1>3, <2>2, <2>4, <3>1, CountedOnce
    <3>3. Acting(o)' \subseteq Acting(o) /\ Taken(o)' \subseteq Taken(o)
      BY <3>1 DEF Acting, Taken
    <3> QED BY <1>1, <1>2, <1>3, <3>2, <3>3, UnitsLeft
  <2> QED BY <2>3, <2>4
<1> QED BY <1>7, <1>8

LEMMA PerformWindow ==
  ASSUME WindowInv, BudgetInv', NEW s \in Slots, Perform(s),
         NEW o \in Watched, AlwaysCapped(o[1], o[2])
  PROVE  TwoWindows(o)'
<1>1. PICK a, x, f, g : /\ a = job[s].acct /\ x = job[s].action
                        /\ f = recent[o] /\ g = recent'[o]
  OBVIOUS
<1>2. /\ BudgetInv /\ TwoWindows(o) /\ job[s] \in Job /\ job[s] # None
      /\ job[s].stage = "acting" /\ Recorded(a, x) /\ Leaves(s) /\ UNCHANGED <<used, ttl>>
  BY <1>1, BudgetTypes DEF WindowInv, Perform
<1>3. \A r \in Slots : job'[r] = IF r = s THEN None ELSE job[r]
  BY <1>2, BudgetTypes DEF Leaves
<1>4. Acting(o)' = Acting(o) \ {s} /\ Taken(o)' = Taken(o) \ {s}
  BY <1>3 DEF Acting, Taken
<1>5. o = <<o[1], o[2]>> /\ f \in [0..Window - 1 -> Nat] /\ used[KeyOf(o)] \in Nat
  BY <1>1, <1>2, WatchedTypes
<1>6. CASE o = <<a, x>>
  <2>1. s \in Acting(o)
    BY <1>1, <1>2, <1>6 DEF Acting
  <2>2. PICK top : top = 2 * TopCap[<<UseOf[a], x>>] + 1
    OBVIOUS
  <2>3. g = [f EXCEPT ![0] = Smaller(@ + 1, top)]
    BY <1>1, <1>2, <1>6, <2>2 DEF Recorded
  <2>4. 0 \in 0..Window - 1 /\ f[0] \in Nat
    BY <1>5, BudgetConstants
  <2>5. top \in Nat
    <3>1. a \in Accounts /\ x \in Actions
      BY <1>1, <1>2 DEF Job
    <3>2. TopCap[<<UseOf[a], x>>] \in Nat
      BY <3>1, BudgetConstants
    <3> QED BY <2>2, <3>2
  <2>6. g[0] <= f[0] + 1
    BY <1>5, <2>3, <2>4, <2>5 DEF Smaller
  <2>7. \A i \in 1..Window - 1 : g[i] = f[i]
    BY <1>5, <2>3
  <2> QED BY <1>1, <1>2, <1>4, <2>1, <2>6, <2>7, UnitSpent
<1>7. CASE o # <<a, x>>
  <2>1. g = f
    BY <1>1, <1>2, <1>7 DEF Recorded
  <2>2. used'[KeyOf(o)] >= used[KeyOf(o)] /\ ttl'[KeyOf(o)] = ttl[KeyOf(o)]
    BY <1>2, <1>5
  <2>3. Acting(o)' \subseteq Acting(o) /\ Taken(o)' \subseteq Taken(o)
    BY <1>4
  <2> QED BY <1>1, <1>2, <2>1, <2>2, <2>3, UnitsLeft
<1> QED BY <1>6, <1>7

LEMMA InitWindows == Init => WindowInv
<1> SUFFICES ASSUME Init PROVE WindowInv
  OBVIOUS
<1>1. BudgetInv
  BY InitBudgets
<1>2. AliveHasCounted /\ AskingIsNew
  BY DEF Init, AliveHasCounted, AskingIsNew
<1>3. ASSUME NEW o \in Watched PROVE TwoWindows(o)
  <2>1. PICK f : f = recent[o]
    OBVIOUS
  <2>2. f \in [0..Window - 1 -> Nat] /\ KeyOf(o) \in Keys /\ CapTop(o) \in Nat
    BY <1>1, <2>1, WatchedTypes
  <2>3. CallsOf(f) = {}
    <3>1. \A i \in 0..Window - 1 : f[i] = 0
      BY <2>1 DEF Init
    <3> QED BY <2>2, <3>1 DEF CallsOf
  <2>4. Acting(o) = {} /\ Taken(o) = {}
    BY DEF Init, Acting, Taken
  <2>5. ttl[KeyOf(o)] = 0
    BY <2>2 DEF Init
  <2>6. Total(f) = 0 /\ Cardinality(Acting(o)) = 0 /\ Cardinality(Taken(o)) = 0
    BY <2>3, <2>4, FS_EmptySet DEF Total
  <2> QED BY <2>1, <2>2, <2>5, <2>6 DEF TwoWindows, Within
<1> QED BY <1>1, <1>2, <1>3 DEF WindowInv

LEMMA NextWindows == WindowInv /\ [Next]_vars => WindowInv'
<1> SUFFICES ASSUME WindowInv, [Next]_vars PROVE WindowInv'
  OBVIOUS
<1>1. BudgetInv' /\ AliveHasCounted' /\ AskingIsNew'
  BY NextBudgets, NextCounted, NextAsking DEF WindowInv
<1>2. ASSUME NEW o \in Watched, AlwaysCapped(o[1], o[2]) PROVE TwoWindows(o)'
  <2>1. ASSUME UNCHANGED <<used, ttl, recent>>,
               \A s \in Slots : job'[s] = None \/ job'[s] = job[s]
        PROVE  TwoWindows(o)'
    <3>1. \A s \in Slots : s \notin Acting(o)' \/ job'[s] = job[s]
      BY <2>1 DEF Acting
    <3> QED BY <1>1, <1>2, <2>1, <3>1, JobsLeave
  <2>2. CASE UNCHANGED vars \/ (PoolNext /\ UNCHANGED budgetVars) \/ EditFile \/ Reload
    BY <2>1, <2>2 DEF vars, budgetVars, EditFile, Reload
  <2>3. ASSUME NEW p \in Processes, Restart(p) PROVE TwoWindows(o)'
    BY <2>1, <2>3 DEF Restart
  <2>4. CASE Tick
    BY <1>1, <1>2, <2>4, UnitsAge DEF WindowInv
  <2>5. ASSUME NEW s \in Slots, RefuseWrite(s) \/ Fail(s) PROVE TwoWindows(o)'
    <3>1. Leaves(s) /\ UNCHANGED <<used, ttl, recent>>
      BY <2>5 DEF RefuseWrite, Fail
    <3>2. \A r \in Slots : job'[r] = None \/ job'[r] = job[r]
      BY <3>1, BudgetTypes DEF WindowInv, Leaves
    <3> QED BY <2>1, <3>1, <3>2
  <2>6. ASSUME NEW s \in Slots, Works(s) PROVE TwoWindows(o)'
    BY <1>1, <1>2, <2>5, <2>6, SpendWindow, PerformWindow DEF Works
  <2>7. ASSUME NEW s \in Slots, NEW q \in Orders,
               \/ q[2] \in Writes /\ TakeWrite(s, q[1], q[2])
               \/ q[2] \in Reads /\ TakeRead(s, q[1], q[2])
        PROVE  TwoWindows(o)'
    BY <1>1, <1>2, <2>7, BudgetConstants, TakeWriteWindow, TakeReadWindow
  <2> QED BY <2>2, <2>3, <2>4, <2>6, <2>7 DEF Next, BudgetNext
<1> QED BY <1>1, <1>2 DEF WindowInv, AlwaysCapped

\* Any 24 hours see at most the calls of two windows, for every cap, table, number of
\* workers and jobs, and whatever fails, is retried or restarted (limits.py:59-60,
\* redis_client.py:35-39).
THEOREM TwoWindowsAtMost == Spec => []AtMostTwoWindows
<1>1. WindowInv => AtMostTwoWindows
  <2> SUFFICES ASSUME WindowInv, NEW o \in Watched, AlwaysCapped(o[1], o[2])
               PROVE  Total(recent[o]) <= 2 * CapTop(o)
    BY DEF AtMostTwoWindows, CapTop
  <2>1. PICK t, u, c, total, since, held, fresh :
           /\ t = ttl[KeyOf(o)] /\ u = used[KeyOf(o)] /\ c = CapTop(o)
           /\ total = Total(recent[o])
           /\ since = Cardinality(Last(recent[o], Age(KeyOf(o))))
           /\ held = Cardinality(Acting(o)) /\ fresh = Cardinality(Taken(o))
    OBVIOUS
  <2>2. /\ t \in 0..Window /\ u \in Nat /\ c \in Nat /\ total \in Nat
        /\ held \in Nat /\ Within(t, u, c, total, since, held, fresh)
    BY <2>1, WatchedTypes DEF WindowInv, TwoWindows
  <2>3. total <= 2 * c
    BY <2>2 DEF Within, Smaller
  <2> QED BY <2>1, <2>3
<1> QED BY <1>1, InitWindows, NextWindows, PTL DEF Spec

\* Of an action the defaults cap and no readable file turns off, every table the
\* processes can have loaded has a cap.
LEMMA KeptOnIsCapped ==
  ASSUME NEW a, NEW x, KeptOn(a, x)
  PROVE  AlwaysCapped(a, x)
<1>1. ASSUME NEW D, NEW O, NEW k, CapIn(D, k) > 0, k \in DOMAIN O => O[k] > 0
      PROVE  CapIn(Merge(D, O), k) > 0
  <2>1. k \in DOMAIN D /\ D[k] > 0
    BY <1>1 DEF CapIn
  <2>2. k \in DOMAIN Merge(D, O) /\ Merge(D, O)[k] = IF k \in DOMAIN O THEN O[k] ELSE D[k]
    BY <2>1 DEF Merge
  <2> QED BY <1>1, <2>1, <2>2 DEF CapIn
<1>2. ASSUME NEW L, NEW U, NEW k, CapIn(U, k) > 0
      PROVE  CapIn(Merge(L, U), k) > 0
  <2>1. k \in DOMAIN U /\ U[k] > 0
    BY <1>2 DEF CapIn
  <2>2. k \in DOMAIN Merge(L, U) /\ Merge(L, U)[k] = U[k]
    BY <2>1 DEF Merge
  <2> QED BY <2>1, <2>2 DEF CapIn
<1>3. CASE x \in Writes
  <2> SUFFICES ASSUME NEW f \in Files PROVE CapIn(LoadFromDisk(f).limits, <<UseOf[a], x>>) > 0
    BY <1>3 DEF AlwaysCapped, Tables, Cap
  <2>1. CapIn(Defaults.limits, <<UseOf[a], x>>) > 0
    BY <1>3 DEF KeptOn
  <2>2. CASE f = Broken
    BY <2>1, <2>2 DEF LoadFromDisk
  <2>3. CASE f # Broken
    <3>1. PICK lower, upper, reads : /\ lower = Merge(Defaults.limits, f.profile)
                                     /\ upper = Merge(Defaults.limits, f.limits)
                                     /\ reads = Merge(Defaults.reads, f.reads)
      OBVIOUS
    <3>2. <<UseOf[a], x>> \in DOMAIN f.limits => f.limits[<<UseOf[a], x>>] > 0
      BY <1>3, <2>3 DEF KeptOn
    <3>3. CapIn(Merge(lower, upper), <<UseOf[a], x>>) > 0
      BY <1>1, <1>2, <2>1, <3>1, <3>2
    <3>4. LoadFromDisk(f) = [limits |-> Merge(lower, upper), profile |-> f.profile, reads |-> reads]
      BY <2>3, <3>1 DEF LoadFromDisk
    <3> QED BY <3>3, <3>4
  <2> QED BY <2>2, <2>3
<1>4. CASE x \notin Writes
  <2> SUFFICES ASSUME NEW f \in Files PROVE CapIn(LoadFromDisk(f).reads, x) > 0
    BY <1>4 DEF AlwaysCapped, Tables
  <2>1. CapIn(Defaults.reads, x) > 0
    BY <1>4 DEF KeptOn
  <2>2. CASE f = Broken
    BY <2>1, <2>2 DEF LoadFromDisk
  <2>3. CASE f # Broken
    <3>1. PICK limits, reads : /\ reads = Merge(Defaults.reads, f.reads)
                               /\ limits = Merge(Merge(Defaults.limits, f.profile),
                                                 Merge(Defaults.limits, f.limits))
      OBVIOUS
    <3>2. x \in DOMAIN f.reads => f.reads[x] > 0
      BY <1>4, <2>3 DEF KeptOn
    <3>3. CapIn(reads, x) > 0
      BY <1>1, <2>1, <3>1, <3>2
    <3>4. LoadFromDisk(f) = [limits |-> limits, profile |-> f.profile, reads |-> reads]
      BY <2>3, <3>1 DEF LoadFromDisk
    <3> QED BY <3>3, <3>4
  <2> QED BY <2>2, <2>3
<1> QED BY <1>3, <1>4

\* However the file is edited, broken and reloaded, and whenever the processes read it:
\* each call about to be made has its unit in a counter, unless someone turned the
\* action off (safety_config.py:59-64 and :88-95, base_task.py:319-322).
THEOREM CallsAreCounted == Spec => []NoCallIsUncounted
<1>1. WindowInv => NoCallIsUncounted
  <2> SUFFICES ASSUME WindowInv, NEW o \in Watched, KeptOn(o[1], o[2])
               PROVE  Cardinality(Taken(o)) <= used[KeyOf(o)]
    BY DEF NoCallIsUncounted
  <2>1. PICK t, u, c, total, since, held, fresh :
           /\ t = ttl[KeyOf(o)] /\ u = used[KeyOf(o)] /\ c = CapTop(o)
           /\ total = Total(recent[o])
           /\ since = Cardinality(Last(recent[o], Age(KeyOf(o))))
           /\ held = Cardinality(Acting(o)) /\ fresh = Cardinality(Taken(o))
    OBVIOUS
  <2>2. TwoWindows(o)
    BY KeptOnIsCapped DEF WindowInv
  <2>3. /\ u \in Nat /\ c \in Nat /\ since \in Nat /\ held \in Nat /\ fresh \in Nat
        /\ fresh <= held /\ Within(t, u, c, total, since, held, fresh)
    BY <2>1, <2>2, WatchedTypes DEF WindowInv, TwoWindows
  <2>4. fresh <= u
    BY <2>3 DEF Within, Smaller
  <2> QED BY <2>1, <2>4
<1> QED BY <1>1, InitWindows, NextWindows, PTL DEF Spec

=============================================================================
