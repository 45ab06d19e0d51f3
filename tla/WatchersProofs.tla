--------------------------- MODULE WatchersProofs ---------------------------
(***************************************************************************)
(* Proofs about Watchers for every number of processes, accounts and       *)
(* messages, and with no bound on how often a key expires.                 *)
(***************************************************************************)
EXTENDS Watchers, FiniteSetTheorems, TLAPS

\* The accounts a process may ever have, whatever their status.
Class(p) == {a \in Accounts : a % Total[p] = (Number[p] - 1) % Total[p]}

\* Ownership is inductive once it is stated against the residue class, which no
\* step changes: the two sides of OneOwner may come from steps far apart.  A key
\* holds what one of the processes of its number published.
InClass ==
    /\ \A p \in Processes : shard[p] \cup todo[p] \cup clients[p] \subseteq Class(p)
    /\ \A n \in Numbers : \E p \in Processes : Number[p] = n /\ key[n] \subseteq Class(p)

\* Only a handler of a message with a sending user looks for one.
HasSender ==
    \A h \in Handlers : step[h] \in {"seen", "absent", "flushed"} => Sender[h[3]] # None

\* Every stored user was stored by a worker, or with a message that has its row.
StoredWithARow ==
    \A s \in peers : s \in resolved \/ \E w \in Messages : Sender[w] = s /\ rows[w] > 0

WatcherInv ==
    /\ TypeOK /\ InClass /\ HasSender /\ StoredWithARow
    /\ EverySightingIsAccounted /\ RaceHasAWinner

-----------------------------------------------------------------------------
LEMMA NumbersOfProcesses ==
  /\ \A p \in Processes : Number[p] \in Numbers
  /\ \A n \in Numbers : \E p \in Processes : Number[p] = n
BY DEF Numbers

\* What a process puts into its key, or nothing, is of its class.
LEMMA KeyInClass ==
  ASSUME TypeOK, InClass, NEW p \in Processes, NEW s \in SUBSET Class(p),
         key' = [key EXCEPT ![Number[p]] = s]
  PROVE  \A n \in Numbers : \E q \in Processes : Number[q] = n /\ key'[n] \subseteq Class(q)
<1> SUFFICES ASSUME NEW n \in Numbers
             PROVE  \E q \in Processes : Number[q] = n /\ key'[n] \subseteq Class(q)
  OBVIOUS
<1>1. CASE n = Number[p]
  BY <1>1 DEF TypeOK
<1>2. CASE n # Number[p]
  BY <1>2 DEF TypeOK, InClass
<1> QED BY <1>1, <1>2

\* A handler of a message is one account of one process.
LEMMA BusyIsFinite == \A m : IsFiniteSet(Busy(m)) /\ Cardinality(Busy(m)) \in Nat
<1> SUFFICES ASSUME NEW m PROVE IsFiniteSet(Busy(m)) /\ Cardinality(Busy(m)) \in Nat
  OBVIOUS
<1> DEFINE Pairs == Processes \X Accounts
           Triple == [q \in Pairs |-> <<q[1], q[2], m>>]
           Triples == {Triple[q] : q \in Pairs}
<1>1. IsFiniteSet(Pairs)
  BY WatcherConstants, FS_Product
<1>2. IsFiniteSet(Triples)
  <2>1. Triple \in Surjection(Pairs, Triples)
    BY DEF Surjection
  <2> HIDE DEF Pairs, Triples, Triple
  <2> QED BY <1>1, <2>1, FS_Surjection
<1>3. Busy(m) \subseteq Triples
  <2> SUFFICES ASSUME NEW h \in Busy(m) PROVE h \in Triples
    OBVIOUS
  <2>1. h \in Processes \X Accounts \X Messages /\ h[3] = m
    BY DEF Busy, Handlers
  <2>2. h = <<h[1], h[2], m>> /\ <<h[1], h[2]>> \in Pairs
    BY <2>1
  <2>3. Triple[<<h[1], h[2]>>] = <<h[1], h[2], m>>
    BY <2>2
  <2> QED BY <2>2, <2>3
<1> QED BY <1>2, <1>3, FS_Subset, FS_CardinalityType

\* What the step of one handler does to the busy handlers of each message.
LEMMA OneHandler ==
  ASSUME TypeOK, NEW h \in Handlers, NEW to \in Steps, Go(h, to)
  PROVE  /\ \A m : m # h[3] => Busy(m)' = Busy(m)
         /\ step[h] = "idle" /\ to # "idle" =>
               Cardinality(Busy(h[3])') = Cardinality(Busy(h[3])) + 1
         /\ step[h] # "idle" /\ to = "idle" =>
               Cardinality(Busy(h[3])') = Cardinality(Busy(h[3])) - 1
         /\ step[h] # "idle" /\ to # "idle" => Busy(h[3])' = Busy(h[3])
<1>1. PICK m : m = h[3]
  OBVIOUS
<1>2. /\ step'[h] = to /\ \A g \in Handlers : g # h => step'[g] = step[g]
      /\ step \in [Handlers -> Steps]
  BY DEF Go, TypeOK
<1>3. \A n : n # m => Busy(n)' = Busy(n)
  BY <1>1, <1>2 DEF Busy
<1>4. ASSUME step[h] = "idle", to # "idle"
      PROVE  Cardinality(Busy(m)') = Cardinality(Busy(m)) + 1
  <2>1. Busy(m)' = Busy(m) \cup {h} /\ h \notin Busy(m)
    BY <1>1, <1>2, <1>4 DEF Busy
  <2> QED BY <2>1, BusyIsFinite, FS_AddElement
<1>5. ASSUME step[h] # "idle", to = "idle"
      PROVE  Cardinality(Busy(m)') = Cardinality(Busy(m)) - 1
  <2>1. Busy(m)' = Busy(m) \ {h} /\ h \in Busy(m)
    BY <1>1, <1>2, <1>5 DEF Busy
  <2> QED BY <2>1, BusyIsFinite, FS_RemoveElement
<1>6. step[h] # "idle" /\ to # "idle" => Busy(m)' = Busy(m)
  BY <1>1, <1>2 DEF Busy
<1> QED BY <1>1, <1>3, <1>4, <1>5, <1>6

-----------------------------------------------------------------------------
LEMMA InitWatchers == Init => WatcherInv
<1> SUFFICES ASSUME Init PROVE WatcherInv
  OBVIOUS
<1>1. TypeOK
  BY DEF Init, TypeOK, Nobody, Never, Steps
<1>2. InClass
  BY NumbersOfProcesses DEF Init, InClass, Nobody
<1>3. HasSender /\ StoredWithARow /\ RaceHasAWinner
  BY DEF Init, HasSender, StoredWithARow, RaceHasAWinner, Never
<1>4. \A m : Busy(m) = {}
  BY DEF Init, Busy
<1>5. EverySightingIsAccounted
  BY <1>4, FS_EmptySet DEF Init, EverySightingIsAccounted, Never
<1> QED BY <1>1, <1>2, <1>3, <1>5 DEF WatcherInv

\* The shards, keys and clients of a residue class change; the handlers go on.
LEMMA FleetStep ==
  ASSUME WatcherInv, UNCHANGED inbound, InClass', active' \subseteq Accounts,
         phase' \in [Processes -> {"down", "waiting", "watching"}],
         {shard', todo', clients'} \subseteq [Processes -> SUBSET Accounts],
         key' \in [Numbers -> SUBSET Accounts],
         \A p \in Processes : clients[p] \subseteq clients'[p]
  PROVE  WatcherInv'
<1>1. TypeOK'
  <2>1. \A h \in Handlers : step'[h] # "idle" => h[2] \in clients'[h[1]]
    BY DEF WatcherInv, TypeOK, inbound, Handlers
  <2> QED BY <2>1 DEF WatcherInv, TypeOK, inbound
<1>2. \A m : Busy(m)' = Busy(m)
  BY DEF Busy, inbound
<1>3. EverySightingIsAccounted'
  BY <1>2 DEF WatcherInv, EverySightingIsAccounted, inbound
<1>4. HasSender' /\ StoredWithARow' /\ RaceHasAWinner'
  BY DEF WatcherInv, HasSender, StoredWithARow, RaceHasAWinner, inbound
<1> QED BY <1>1, <1>3, <1>4 DEF WatcherInv

LEMMA SelectionsInClass ==
  ASSUME TypeOK, NEW p \in Processes, NEW s \in Selections(p)
  PROVE  s \subseteq Class(p) /\ s \subseteq Accounts
BY DEF TypeOK, Selections, Mine, Class

\* A selection or nothing is published, and of the rest something may go.
LEMMA Publishes ==
  ASSUME WatcherInv, NEW p \in Processes, NEW s \in SUBSET Class(p),
         key' = [key EXCEPT ![Number[p]] = s],
         shard' \in {shard, [shard EXCEPT ![p] = s]},
         todo' \in {todo, [todo EXCEPT ![p] = s]},
         phase' \in [Processes -> {"down", "waiting", "watching"}],
         UNCHANGED <<active, clients, inbound>>
  PROVE  WatcherInv'
<1>0. TypeOK /\ InClass /\ Number[p] \in Numbers /\ s \subseteq Accounts
  BY NumbersOfProcesses DEF WatcherInv, Class
<1>1. \A q \in Processes : /\ shard'[q] = shard[q] \/ (q = p /\ shard'[q] = s)
                           /\ todo'[q] = todo[q] \/ (q = p /\ todo'[q] = s)
  BY <1>0 DEF TypeOK
<1>2. InClass'
  <2>1. \A q \in Processes : shard'[q] \cup todo'[q] \cup clients'[q] \subseteq Class(q)
    BY <1>0, <1>1 DEF InClass
  <2> QED BY <1>0, <2>1, KeyInClass DEF InClass
<1>3. /\ shard' \in [Processes -> SUBSET Accounts] /\ todo' \in [Processes -> SUBSET Accounts]
      /\ key' \in [Numbers -> SUBSET Accounts]
  BY <1>0 DEF TypeOK
<1> QED BY <1>0, <1>2, <1>3, FleetStep DEF TypeOK

\* A step of the process p: what it publishes and connects is of its class.
LEMMA ProcessStep ==
  ASSUME WatcherInv, NEW p \in Processes,
         Tends(p) \/ Rotate(p) \/ RotateFails(p) \/ Heartbeat(p)
  PROVE  WatcherInv'
<1>0. TypeOK /\ InClass
  BY DEF WatcherInv
<1>1. CASE Claim(p)
  <2>1. PICK s \in Selections(p) :
          /\ Publish(p, s) /\ todo' = [todo EXCEPT ![p] = s]
          /\ phase' = [phase EXCEPT ![p] = IF s = {} THEN "waiting" ELSE "watching"]
          /\ UNCHANGED <<active, clients, inbound>>
    BY <1>1 DEF Claim
  <2>2. s \in SUBSET Class(p)
    BY <1>0, SelectionsInClass
  <2>3. phase' \in [Processes -> {"down", "waiting", "watching"}]
    BY <1>0, <2>1 DEF TypeOK
  <2> QED BY <2>1, <2>2, <2>3, Publishes DEF Publish
<1>2. ASSUME NEW a \in Accounts, Connect(p, a) PROVE WatcherInv'
  <2>1. \A q \in Processes : /\ todo'[q] \subseteq todo[q] /\ clients[q] \subseteq clients'[q]
                             /\ clients'[q] \subseteq clients[q] \cup todo[q]
    BY <1>0, <1>2 DEF TypeOK, Connect
  <2>2. InClass'
    BY <1>0, <1>2, <2>1 DEF InClass, Connect
  <2>3. todo' \in [Processes -> SUBSET Accounts] /\ clients' \in [Processes -> SUBSET Accounts]
    BY <1>0, <1>2 DEF TypeOK, Connect
  <2> QED BY <1>0, <1>2, <2>1, <2>2, <2>3, FleetStep DEF TypeOK, Connect
<1>3. CASE Rotate(p)
  <2>1. PICK s \in Selections(p) : Publish(p, s) /\ UNCHANGED <<active, phase, todo, clients, inbound>>
    BY <1>3 DEF Rotate
  <2>2. s \in SUBSET Class(p)
    BY <1>0, SelectionsInClass
  <2> QED BY <1>0, <2>1, <2>2, Publishes DEF Publish, TypeOK
<1>4. CASE RotateFails(p)
  <2>1. {} \in SUBSET Class(p)
    OBVIOUS
  <2>2. /\ key' = [key EXCEPT ![Number[p]] = {}]
        /\ UNCHANGED <<active, phase, shard, todo, clients, inbound>>
    BY <1>4 DEF RotateFails
  <2>3. phase' \in [Processes -> {"down", "waiting", "watching"}]
    BY <1>0, <2>2 DEF TypeOK
  <2> QED BY <2>1, <2>2, <2>3, Publishes
<1>5. CASE Heartbeat(p)
  <2>1. shard[p] \in SUBSET Class(p)
    BY <1>0 DEF InClass
  <2> QED BY <1>0, <1>5, <2>1, Publishes DEF Heartbeat, TypeOK
<1> QED BY <1>1, <1>2, <1>3, <1>4, <1>5 DEF Tends

LEMMA ExpireStep ==
  ASSUME WatcherInv, NEW n \in Numbers, Expire(n)
  PROVE  WatcherInv'
<1>1. PICK p \in Processes : Number[p] = n
  BY NumbersOfProcesses
<1>2. {} \in SUBSET Class(p)
  OBVIOUS
<1>3. /\ key' = [key EXCEPT ![Number[p]] = {}]
      /\ UNCHANGED <<active, phase, shard, todo, clients, inbound>>
  BY <1>1 DEF Expire
<1>4. phase' \in [Processes -> {"down", "waiting", "watching"}]
  BY <1>3 DEF WatcherInv, TypeOK
<1> QED BY <1>2, <1>3, <1>4, Publishes

\* The handlers of the clients that go are all accounted for as lost.
LEMMA ExitStep ==
  ASSUME WatcherInv, NEW p \in Processes, Exit(p)
  PROVE  WatcherInv'
<1> DEFINE Dying(m) == {h \in Busy(m) : h[1] = p}
<1>0. /\ TypeOK /\ InClass
      /\ shard' = [shard EXCEPT ![p] = {}] /\ todo' = [todo EXCEPT ![p] = {}]
      /\ clients' = [clients EXCEPT ![p] = {}]
      /\ phase' = [phase EXCEPT ![p] = "down"]
      /\ step' = [h \in Handlers |-> IF h[1] = p THEN "idle" ELSE step[h]]
      /\ lost' = [m \in Messages |-> lost[m] + Cardinality(Dying(m))]
      /\ UNCHANGED <<active, key, seen, peers, storing, resolved, rows, sightings, raced>>
  BY DEF WatcherInv, Exit
<1>1. \A m : /\ IsFiniteSet(Dying(m)) /\ Cardinality(Dying(m)) \in Nat
             /\ Cardinality(Busy(m) \ Dying(m)) = Cardinality(Busy(m)) - Cardinality(Dying(m))
  <2> SUFFICES ASSUME NEW m
               PROVE  /\ IsFiniteSet(Dying(m)) /\ Cardinality(Dying(m)) \in Nat
                      /\ Cardinality(Busy(m) \ Dying(m))
                            = Cardinality(Busy(m)) - Cardinality(Dying(m))
    OBVIOUS
  <2>1. IsFiniteSet(Dying(m)) /\ Cardinality(Dying(m)) \in Nat
    BY BusyIsFinite, FS_Subset, FS_CardinalityType
  <2>2. Busy(m) \cap Dying(m) = Dying(m)
    OBVIOUS
  <2> QED BY <2>1, <2>2, BusyIsFinite, FS_Difference
<1>2. \A m : Busy(m)' = Busy(m) \ Dying(m)
  BY <1>0 DEF Busy
<1> HIDE DEF Dying
<1>3. TypeOK'
  <2>1. lost' \in [Messages -> Nat]
    BY <1>0, <1>1 DEF TypeOK
  <2>2. step' \in [Handlers -> Steps]
    BY <1>0 DEF TypeOK, Steps
  <2>3. \A h \in Handlers : step'[h] # "idle" => h[2] \in clients'[h[1]]
    BY <1>0 DEF TypeOK, Handlers
  <2>4. {shard', todo', clients'} \subseteq [Processes -> SUBSET Accounts]
    BY <1>0 DEF TypeOK
  <2> QED BY <1>0, <2>1, <2>2, <2>3, <2>4 DEF TypeOK
<1>4. InClass'
  BY <1>0 DEF InClass, TypeOK
<1>5. HasSender' /\ StoredWithARow' /\ RaceHasAWinner'
  BY <1>0 DEF WatcherInv, HasSender, StoredWithARow, RaceHasAWinner
<1>6. EverySightingIsAccounted'
  <2> SUFFICES ASSUME NEW m \in Messages
               PROVE  sightings'[m] = rows'[m] + Cardinality(Busy(m)') + lost'[m] + raced'[m]
    BY DEF EverySightingIsAccounted
  <2>1. sightings[m] = rows[m] + Cardinality(Busy(m)) + lost[m] + raced[m]
    BY DEF WatcherInv, EverySightingIsAccounted
  <2>2. /\ rows[m] \in Nat /\ lost[m] \in Nat /\ raced[m] \in Nat
        /\ lost'[m] = lost[m] + Cardinality(Dying(m))
        /\ Cardinality(Busy(m)') = Cardinality(Busy(m)) - Cardinality(Dying(m))
    BY <1>0, <1>1, <1>2 DEF TypeOK
  <2> QED BY <1>0, <1>1, <2>1, <2>2, BusyIsFinite
<1> QED BY <1>3, <1>4, <1>5, <1>6 DEF WatcherInv

\* A step of one handler: each of its ends is counted once, on its own message.
LEMMA HandlerStep ==
  ASSUME WatcherInv, NEW h \in Handlers, Handles(h)
  PROVE  WatcherInv'
<1>0. PICK m : m = h[3]
  OBVIOUS
<1>1. /\ TypeOK /\ InClass /\ HasSender /\ StoredWithARow /\ EverySightingIsAccounted
      /\ RaceHasAWinner /\ m \in Messages /\ UNCHANGED fleet
      /\ step \in [Handlers -> Steps]
  BY <1>0, WatcherConstants
     DEF WatcherInv, Handlers, Handles, See, Look, Flush, Forward, Raise, TypeOK
<1>2. PICK to \in Steps : Go(h, to)
  BY DEF Handles, See, Look, Flush, Forward, Raise, Steps
<1>3. /\ step'[h] = to /\ \A g \in Handlers : g # h => step'[g] = step[g]
      /\ step' \in [Handlers -> Steps]
  BY <1>1, <1>2 DEF Go
<1>4. /\ \A n \in Messages : n # m =>
            /\ rows'[n] = rows[n] /\ sightings'[n] = sightings[n]
            /\ lost'[n] = lost[n] /\ raced'[n] = raced[n]
      /\ {rows', sightings', lost', raced'} \subseteq [Messages -> Nat]
      /\ rows'[m] >= rows[m]
  BY <1>0, <1>1 DEF Handles, See, Look, Flush, Forward, Raise, Bump, TypeOK
<1>5. TypeOK'
  <2>1. seen' \subseteq Messages
    BY <1>0, <1>1 DEF Handles, See, Look, Flush, Forward, Raise, TypeOK
  <2>2. peers' \subseteq Senders
    BY <1>0, <1>1 DEF Handles, See, Look, Flush, Forward, Raise, TypeOK, HasSender, Senders
  <2>3. \A g \in Handlers : step'[g] # "idle" => g[2] \in clients'[g[1]]
    <3>1. step'[h] # "idle" => h[2] \in clients[h[1]]
      BY <1>1 DEF Handles, See, Look, Flush, Forward, Raise, TypeOK
    <3> QED BY <1>1, <1>3, <3>1 DEF TypeOK, fleet
  <2>4. UNCHANGED <<storing, resolved>>
    BY DEF Handles, See, Look, Flush, Forward, Raise
  <2> QED BY <1>1, <1>3, <1>4, <2>1, <2>2, <2>3, <2>4 DEF TypeOK, fleet
<1>6. InClass'
  BY <1>1 DEF InClass, fleet
<1>7. HasSender'
  <2>1. to \in {"seen", "absent", "flushed"} => Sender[m] # None
    BY <1>0, <1>1, <1>2, <1>3 DEF Handles, See, Look, Flush, Forward, Raise, HasSender, Go
  <2> QED BY <1>0, <1>1, <1>3, <2>1 DEF HasSender
<1>8. StoredWithARow' /\ RaceHasAWinner'
  <2>1. \A n \in Messages : rows[n] > 0 => rows'[n] > 0
    BY <1>1, <1>4 DEF TypeOK
  <2>2. peers' = peers \/ (peers' = peers \cup {Sender[m]} /\ rows'[m] > 0)
    BY <1>0, <1>1 DEF Handles, See, Look, Flush, Forward, Raise, Bump, TypeOK
  <2>3. raced' = raced \/ Sender[m] \in peers
    BY <1>0 DEF Handles, See, Look, Flush, Forward, Raise
  <2>4. UNCHANGED resolved
    BY DEF Handles, See, Look, Flush, Forward, Raise
  <2>5. StoredWithARow'
    BY <1>1, <2>1, <2>2, <2>4 DEF StoredWithARow
  <2>6. RaceHasAWinner'
    <3> SUFFICES ASSUME NEW n \in Messages, raced'[n] > 0
                 PROVE  \/ Sender[n] \in resolved
                        \/ \E w \in Messages : Sender[w] = Sender[n] /\ rows'[w] > 0
      BY <2>4 DEF RaceHasAWinner
    <3>1. CASE raced[n] > 0
      BY <1>1, <2>1, <3>1 DEF RaceHasAWinner
    <3>2. CASE Sender[n] \in peers
      BY <1>1, <2>1, <3>2 DEF StoredWithARow
    <3> QED BY <1>4, <2>3, <3>1, <3>2
  <2> QED BY <2>5, <2>6
<1>9. EverySightingIsAccounted'
  <2> SUFFICES ASSUME NEW n \in Messages
               PROVE  sightings'[n] = rows'[n] + Cardinality(Busy(n)') + lost'[n] + raced'[n]
    BY DEF EverySightingIsAccounted
  <2>0. sightings[n] = rows[n] + Cardinality(Busy(n)) + lost[n] + raced[n]
    BY <1>1 DEF EverySightingIsAccounted
  <2>1. CASE n # m
    BY <1>0, <1>1, <1>2, <1>4, <2>0, <2>1, OneHandler
  <2>2. CASE n = m
    <3> DEFINE B == Cardinality(Busy(m))
    <3>0. PICK c : c = Cardinality(Busy(m)')
      OBVIOUS
    <3>1. /\ rows[m] \in Nat /\ sightings[m] \in Nat /\ lost[m] \in Nat /\ raced[m] \in Nat
          /\ B \in Nat
      BY <1>1, BusyIsFinite DEF TypeOK
    <3>2. /\ step[h] = "idle" /\ to # "idle" => c = B + 1
          /\ step[h] # "idle" /\ to = "idle" => c = B - 1
          /\ step[h] # "idle" /\ to # "idle" => c = B
      BY <1>0, <1>1, <1>2, <3>0, OneHandler
    <3>3. CASE See(h)
      <4>1. /\ step[h] = "idle" /\ to # "idle" /\ UNCHANGED <<rows, lost, raced>>
            /\ sightings'[m] = sightings[m] + 1
        BY <1>0, <1>1, <1>3, <3>3 DEF See, Go, Bump, TypeOK
      <4> QED BY <2>0, <2>2, <3>0, <3>1, <3>2, <4>1
    <3>4. CASE Look(h)
      <4>1. step[h] # "idle" /\ to # "idle" /\ UNCHANGED <<rows, lost, raced, sightings>>
        BY <1>1, <1>3, <3>4 DEF Look, Go
      <4> QED BY <2>0, <2>2, <3>0, <3>1, <3>2, <4>1
    <3>5. CASE Flush(h)
      <4>1. /\ step[h] # "idle" /\ UNCHANGED <<rows, lost, sightings>>
            /\ \/ to = "idle" /\ raced'[m] = raced[m] + 1
               \/ to # "idle" /\ raced' = raced
        BY <1>0, <1>1, <1>3, <3>5 DEF Flush, Go, Bump, TypeOK
      <4> QED BY <2>0, <2>2, <3>0, <3>1, <3>2, <4>1
    <3>6. CASE Forward(h)
      <4>1. /\ step[h] # "idle" /\ to = "idle" /\ UNCHANGED <<raced, lost, sightings>>
            /\ rows'[m] = rows[m] + 1
        BY <1>0, <1>1, <1>3, <3>6 DEF Forward, Go, Bump, TypeOK
      <4> QED BY <2>0, <2>2, <3>0, <3>1, <3>2, <4>1
    <3>7. CASE Raise(h)
      <4>1. /\ step[h] # "idle" /\ to = "idle" /\ UNCHANGED <<rows, raced, sightings>>
            /\ lost'[m] = lost[m] + 1
        BY <1>0, <1>1, <1>3, <3>7 DEF Raise, Go, Bump, TypeOK
      <4> QED BY <2>0, <2>2, <3>0, <3>1, <3>2, <4>1
    <3> QED BY <3>3, <3>4, <3>5, <3>6, <3>7 DEF Handles
  <2> QED BY <2>1, <2>2
<1> QED BY <1>5, <1>6, <1>7, <1>8, <1>9 DEF WatcherInv

\* A worker stores a user; what it commits, it commits as resolved.
LEMMA WorkerStep ==
  ASSUME WatcherInv, NEW s \in Senders, WorkerInserts(s) \/ WorkerEnds(s)
  PROVE  WatcherInv'
<1>1. /\ UNCHANGED <<fleet, seen, step, rows, sightings, lost, raced>>
      /\ storing' \subseteq storing \cup {s}
      /\ \/ UNCHANGED <<peers, resolved>>
         \/ peers' = peers \cup {s} /\ resolved' = resolved \cup {s}
  BY DEF WorkerInserts, WorkerEnds
<1>2. TypeOK'
  BY <1>1 DEF WatcherInv, TypeOK, fleet
<1>3. InClass' /\ HasSender'
  BY <1>1 DEF WatcherInv, InClass, HasSender, fleet
<1>4. StoredWithARow' /\ RaceHasAWinner'
  BY <1>1 DEF WatcherInv, StoredWithARow, RaceHasAWinner
<1>5. \A n : Busy(n)' = Busy(n)
  BY <1>1 DEF Busy
<1>6. EverySightingIsAccounted'
  BY <1>1, <1>5 DEF WatcherInv, EverySightingIsAccounted
<1> QED BY <1>2, <1>3, <1>4, <1>6 DEF WatcherInv

LEMMA NextWatchers == WatcherInv /\ [Next]_vars => WatcherInv'
<1> SUFFICES ASSUME WatcherInv, [Next]_vars PROVE WatcherInv'
  OBVIOUS
<1>1. ASSUME NEW a \in Accounts, ChangeStatus(a) PROVE WatcherInv'
  <2>1. InClass'
    BY <1>1 DEF WatcherInv, InClass, ChangeStatus
  <2> QED BY <1>1, <2>1, FleetStep DEF ChangeStatus, WatcherInv, TypeOK
<1>2. ASSUME NEW m \in Messages, Forget(m) PROVE WatcherInv'
  <2>1. \A n : Busy(n)' = Busy(n)
    BY <1>2 DEF Forget, Busy
  <2>2. EverySightingIsAccounted'
    BY <1>2, <2>1 DEF Forget, WatcherInv, EverySightingIsAccounted
  <2>3. TypeOK' /\ InClass' /\ HasSender' /\ StoredWithARow' /\ RaceHasAWinner'
    BY <1>2 DEF Forget, fleet, WatcherInv, TypeOK, InClass, HasSender, StoredWithARow, RaceHasAWinner
  <2> QED BY <2>2, <2>3 DEF WatcherInv
<1>3. CASE UNCHANGED vars
  <2>1. InClass'
    BY <1>3 DEF WatcherInv, InClass, vars, fleet
  <2> QED BY <1>3, <2>1, FleetStep DEF vars, fleet, WatcherInv, TypeOK
<1> QED BY <1>1, <1>2, <1>3, ProcessStep, ExpireStep, ExitStep, HandlerStep, WorkerStep DEF Next

LEMMA WatchersAreSafe == Spec => []WatcherInv
BY InitWatchers, NextWatchers, PTL DEF Spec

\* The state keeps its shape, and no handler runs without the client that feeds it.
THEOREM WatcherType == Spec => []TypeOK
BY WatchersAreSafe, PTL DEF WatcherInv

\* However the processes are numbered, as long as they are numbered apart: no two of
\* them ever have one account between them (rotation_manager.py:35-37).
THEOREM WatcherOwnership == Spec => []OneOwner
<1>1. WatcherInv => OneOwner
  <2> SUFFICES ASSUME WatcherInv, NumberedApart, NEW p \in Processes, NEW q \in Processes, p # q
               PROVE  (shard[p] \cup key[Number[p]] \cup todo[p] \cup clients[p])
                        \cap (shard[q] \cup key[Number[q]] \cup todo[q] \cup clients[q]) = {}
    BY DEF OneOwner
  <2>1. \A r \in Processes : Number[r] = Number[p] => r = p
    BY DEF NumberedApart
  <2>2. \A r \in Processes : Number[r] = Number[q] => r = q
    BY DEF NumberedApart
  <2>3. /\ shard[p] \cup key[Number[p]] \cup todo[p] \cup clients[p] \subseteq Class(p)
        /\ shard[q] \cup key[Number[q]] \cup todo[q] \cup clients[q] \subseteq Class(q)
    BY <2>1, <2>2, NumbersOfProcesses DEF WatcherInv, InClass
  <2>4. Class(p) \cap Class(q) = {}
    BY DEF NumberedApart, Class
  <2> QED BY <2>3, <2>4
<1> QED BY <1>1, WatchersAreSafe, PTL

\* A message is forwarded once for each time its key is set, unless the handler that
\* set it died, raised or lost the race for its sender (update_handler.py:34-43).
THEOREM WatcherAccounting == Spec => []EverySightingIsAccounted
BY WatchersAreSafe, PTL DEF WatcherInv

\* A message is lost to the race for its sender only when the sender's row stands:
\* a message of the sender was forwarded, or a worker stored the sender
\* (update_handler.py:54-66, peer_resolver.py:46-53).
THEOREM WatcherRace == Spec => []RaceHasAWinner
BY WatchersAreSafe, PTL DEF WatcherInv

=============================================================================
