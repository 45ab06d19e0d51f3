------------------------- MODULE ProvisioningProofs -------------------------
(***************************************************************************)
(* Proofs about Provisioning for every number of clients and of runs, dead *)
(* or alive, and every slicing of the port pool.                           *)
(***************************************************************************)
EXTENDS Provisioning, TLAPS

Running(r) == job[r] \notin {None, Over}

\* The slice of a run was compared with the pool when the run began.
InPool == \A r \in Runs : Running(r) => PortsOf(job[r].args.slice) \subseteq Ports

-----------------------------------------------------------------------------
(* types                                                                    *)

LEMMA InitType == Init => TypeOK
<1> SUFFICES ASSUME Init PROVE TypeOK
  OBVIOUS
<1>1. Empty \in Directory
  BY DEF Empty, Directory
<1>2. rows \in [Clients -> [Ports -> 0..MaxRows]]
  BY ProvisioningConstants DEF Init
<1>3. Blank \in [Clients -> Entry \cup {None}]
  BY DEF Blank
<1> QED BY <1>1, <1>2, <1>3 DEF Init, TypeOK

\* A run that is at some step, and the places it may go to.
LEMMA RunningJob ==
  ASSUME TypeOK, NEW r \in Runs, NEW places, At(r, places)
  PROVE  /\ job[r] \in Job /\ Running(r) /\ job[r].args \in Arguments
         /\ job[r].args.client \in Clients /\ job[r].at \in places
         /\ job[r].key \in Runs
BY DEF At, TypeOK, Job, Arguments, Running

LEMMA GotoType ==
  ASSUME TypeOK, NEW r \in Runs, job[r] \in Job, NEW place \in Rendering \cup {"post"},
         Goto(r, place)
  PROVE  /\ job' \in [Runs -> Job \cup {None, Over}]
         /\ job'[r] = [job[r] EXCEPT !.at = place] /\ job'[r] \in Job
         /\ \A q \in Runs : q # r => job'[q] = job[q]
<1>1. [job[r] EXCEPT !.at = place] \in Job
  BY DEF Job
<1> QED BY <1>1 DEF Goto, TypeOK

LEMMA EnterType ==
  ASSUME TypeOK, NEW r \in Runs, NEW a \in Arguments, NEW place \in Rendering \cup {"post"},
         NEW secret \in Runs, PortsOf(a.slice) \subseteq Ports, Enter(r, a, place, secret)
  PROVE  /\ job' \in [Runs -> Job \cup {None, Over}]
         /\ job'[r] = [at |-> place, args |-> a, key |-> secret, read |-> registry,
                       todo |-> PortsOf(a.slice), missed |-> FALSE]
         /\ job'[r] \in Job
         /\ \A q \in Runs : q # r => job'[q] = job[q]
<1>1. [at |-> place, args |-> a, key |-> secret, read |-> registry,
       todo |-> PortsOf(a.slice), missed |-> FALSE] \in Job
  BY DEF Job, TypeOK
<1> QED BY <1>1 DEF Enter, TypeOK

\* A run that posts: one port fewer, and a port that was not answered is remembered.
LEMMA PostJob ==
  ASSUME TypeOK, NEW r \in Runs, Post(r)
  PROVE  \E p \in job[r].todo, miss \in BOOLEAN :
           /\ job' = [job EXCEPT ![r] = [job[r] EXCEPT !.todo = job[r].todo \ {p}, !.missed = miss]]
           /\ ~miss => ~job[r].missed
           /\ \/ \E d \in Clients : Reaches(r, d) /\ CreateProxy(d, p)
              \/ miss /\ UNCHANGED rows
<1>1. PICK p \in job[r].todo, answered \in BOOLEAN :
        /\ \/ \E d \in Clients : Reaches(r, d) /\ CreateProxy(d, p)
           \/ ~answered /\ UNCHANGED rows
        /\ job' = [job EXCEPT ![r].todo = @ \ {p}, ![r].missed = @ \/ ~answered]
  BY DEF Post
<1>2. PICK miss \in BOOLEAN : miss = (job[r].missed \/ ~answered)
  OBVIOUS
<1>3. job' = [job EXCEPT ![r] = [job[r] EXCEPT !.todo = job[r].todo \ {p}, !.missed = miss]]
  <2>1. job[r] \in Job
    BY RunningJob DEF Post
  <2> QED BY <1>1, <1>2, <2>1 DEF TypeOK, Job
<1>4. (~miss => ~job[r].missed) /\ (~answered => miss)
  BY <1>2
<1> QED BY <1>1, <1>3, <1>4

LEMMA NextType == TypeOK /\ InPool /\ [Next]_vars => TypeOK'
<1> SUFFICES ASSUME TypeOK, InPool, [Next]_vars PROVE TypeOK'
  OBVIOUS
<1> USE DEF disk, instances, history
<1>1. CASE UNCHANGED vars
  BY <1>1 DEF vars, TypeOK
<1>2. ASSUME NEW r \in Runs, NEW a \in Arguments, Provision(r, a) PROVE TypeOK'
  <2>1. PortsOf(a.slice) \subseteq Ports /\ Enter(r, a, "directory", r)
    BY <1>2 DEF Provision, Allocatable
  <2>2. job' \in [Runs -> Job \cup {None, Over}]
    BY <2>1, EnterType DEF Rendering
  <2>3. overlapped' \in BOOLEAN
    BY <1>2 DEF Provision, TypeOK
  <2> QED BY <1>2, <2>2, <2>3 DEF Provision, TypeOK
<1>3. ASSUME NEW r \in Runs, NEW a \in Arguments, SeedOnly(r, a) PROVE TypeOK'
  <2>1. /\ PortsOf(a.slice) \subseteq Ports /\ a.client \in Clients
        /\ files[a.client].env # None /\ Enter(r, a, "post", files[a.client].env.secret)
    BY <1>3 DEF SeedOnly, Allocatable, Arguments
  <2>2. files[a.client].env.secret \in Runs
    BY <2>1 DEF TypeOK, Directory, Env
  <2>3. job' \in [Runs -> Job \cup {None, Over}]
    BY <2>1, <2>2, EnterType
  <2>4. overlapped' \in BOOLEAN
    BY <1>3 DEF SeedOnly, TypeOK
  <2> QED BY <1>3, <2>3, <2>4 DEF SeedOnly, TypeOK
<1>4. ASSUME NEW r \in Runs, RenderDirectory(r) \/ RenderCompose(r) \/ RenderEnv(r) \/ RenderSeeds(r)
      PROVE  TypeOK'
  <2>1. job[r] \in Job /\ job[r].args \in Arguments /\ job[r].args.client \in Clients /\ job[r].key \in Runs
    BY <1>4, RunningJob DEF RenderDirectory, RenderCompose, RenderEnv, RenderSeeds
  <2>2. PICK place \in Rendering : Goto(r, place)
    BY <1>4 DEF RenderDirectory, RenderCompose, RenderEnv, RenderSeeds, Rendering
  <2>3. job' \in [Runs -> Job \cup {None, Over}]
    BY <2>1, <2>2, GotoType
  <2>4. files' \in [Clients -> Directory]
    <3>1. /\ job[r].args.slice \in Slices
          /\ [secret |-> job[r].key, gateway |-> job[r].args.gateway] \in Env
      BY <2>1 DEF Arguments, Env
    <3>2. files \in [Clients -> Directory]
      BY DEF TypeOK
    <3>3. CASE RenderDirectory(r)
      BY <2>1, <3>2, <3>3 DEF RenderDirectory, Directory
    <3>4. CASE RenderCompose(r)
      BY <2>1, <3>2, <3>4 DEF RenderCompose, Directory
    <3>5. CASE RenderEnv(r)
      BY <2>1, <3>1, <3>2, <3>5 DEF RenderEnv, Directory
    <3>6. CASE RenderSeeds(r)
      BY <2>1, <3>1, <3>2, <3>6 DEF RenderSeeds, Directory
    <3> QED BY <1>4, <3>3, <3>4, <3>5, <3>6
  <2> QED BY <1>4, <2>3, <2>4 DEF RenderDirectory, RenderCompose, RenderEnv, RenderSeeds, TypeOK
<1>5. ASSUME NEW r \in Runs, Truncate(r) PROVE TypeOK'
  <2>1. job' \in [Runs -> Job \cup {None, Over}]
    BY <1>5, RunningJob, GotoType DEF Truncate, Rendering
  <2>2. Blank \in [Clients -> Entry \cup {None}]
    BY DEF Blank
  <2> QED BY <1>5, <2>1, <2>2 DEF Truncate, TypeOK
<1>6. ASSUME NEW r \in Runs, End(r) PROVE job' \in [Runs -> Job \cup {None, Over}]
  BY <1>6 DEF End, TypeOK
<1>7. ASSUME NEW r \in Runs, Register(r) PROVE TypeOK'
  <2>1. job[r] \in Job /\ job[r].args \in Arguments /\ job[r].args.client \in Clients
    BY <1>7, RunningJob DEF Register
  <2>2. job' \in [Runs -> Job \cup {None, Over}]
    BY <1>6, <1>7, <2>1, GotoType DEF Register
  <2>3. registry' \in [Clients -> Entry \cup {None}]
    BY <1>7, <2>1 DEF Register, WithEntry, Job, Arguments, Entry
  <2>4. book' \in [Clients -> Entry \cup {None}]
    BY <1>7, <2>1 DEF Register, WithEntry, TypeOK, Arguments, Entry
  <2> QED BY <1>7, <2>2, <2>3, <2>4 DEF Register, TypeOK
<1>8. ASSUME NEW r \in Runs, Post(r) PROVE TypeOK'
  <2>1. PICK p \in job[r].todo, miss \in BOOLEAN :
          /\ job' = [job EXCEPT ![r] = [job[r] EXCEPT !.todo = job[r].todo \ {p}, !.missed = miss]]
          /\ \/ \E d \in Clients : Reaches(r, d) /\ CreateProxy(d, p)
             \/ miss /\ UNCHANGED rows
    BY <1>8, PostJob
  <2>2. job[r] \in Job
    BY <1>8, RunningJob DEF Post
  <2>3. job' \in [Runs -> Job \cup {None, Over}]
    <3>1. [job[r] EXCEPT !.todo = job[r].todo \ {p}, !.missed = miss] \in Job
      BY <2>2 DEF Job
    <3> QED BY <2>1, <3>1 DEF TypeOK
  <2>4. rows' \in [Clients -> [Ports -> 0..MaxRows]]
    <3>1. p \in Ports
      BY <2>2 DEF Job
    <3>2. ASSUME NEW d \in Clients, CreateProxy(d, p)
          PROVE  rows' \in [Clients -> [Ports -> 0..MaxRows]]
      <4>1. rows[d][p] + 1 \in 0..MaxRows /\ rows[d] \in [Ports -> 0..MaxRows]
        BY <3>1, <3>2, ProvisioningConstants DEF CreateProxy, TypeOK
      <4>2. [rows[d] EXCEPT ![p] = rows[d][p] + 1] \in [Ports -> 0..MaxRows]
        BY <4>1
      <4>3. rows' = [rows EXCEPT ![d] = [rows[d] EXCEPT ![p] = rows[d][p] + 1]]
        BY <3>2 DEF CreateProxy, TypeOK
      <4> QED BY <4>2, <4>3 DEF TypeOK
    <3> QED BY <2>1, <3>2 DEF TypeOK
  <2> QED BY <1>8, <2>3, <2>4 DEF Post, TypeOK
<1>9. ASSUME NEW r \in Runs, Report(r) PROVE TypeOK'
  <2>1. PICK c, S : c \in Clients /\ c = job[r].args.client /\ S = PortsOf(job[r].args.slice)
    BY <1>9, RunningJob DEF Report
  <2>2. S \subseteq Ports
    BY <1>9, <2>1, RunningJob DEF Report, InPool
  <2>3. claimed' = claimed \/ claimed' = [claimed EXCEPT ![c] = claimed[c] \cup S]
    BY <1>9, <2>1 DEF Report, TypeOK
  <2>4. claimed' \in [Clients -> SUBSET Ports]
    BY <2>2, <2>3 DEF TypeOK
  <2> QED BY <1>6, <1>9, <2>4 DEF Report, TypeOK
<1>10. ASSUME NEW r \in Runs, Die(r) PROVE TypeOK'
  <2>1. job[r] \in Job /\ job[r].args.client \in Clients
    BY <1>10, RunningJob DEF Die
  <2> QED BY <1>6, <1>10, <2>1 DEF Die, TypeOK
<1>11. ASSUME NEW c \in Clients, ComposeUp(c) PROVE TypeOK'
  <2>1. files[c].env \in Env /\ files[c].env.secret \in Runs
    BY <1>11 DEF ComposeUp, TypeOK, Directory, Env
  <2> QED BY <1>11, <2>1 DEF ComposeUp, TypeOK
<1>12. ASSUME NEW c \in Clients, Remove(c) PROVE TypeOK'
  <2>1. Empty \in Directory
    BY DEF Empty, Directory
  <2> QED BY <1>12, <2>1 DEF Remove, TypeOK
<1> QED BY <1>1, <1>2, <1>3, <1>4, <1>5, <1>7, <1>8, <1>9, <1>10, <1>11, <1>12 DEF Next, Step

-----------------------------------------------------------------------------
(* the life of a run                                                        *)

Begins(r) == \E a \in Arguments : Provision(r, a) \/ SeedOnly(r, a)

LEMMA OthersStay ==
  ASSUME TypeOK, [Next]_vars, NEW r \in Runs, ~Step(r)
  PROVE  job'[r] = job[r]
<1>1. CASE UNCHANGED vars \/ \E c \in Clients : ComposeUp(c) \/ Remove(c)
  BY <1>1 DEF vars, ComposeUp, Remove
<1>2. ASSUME NEW q \in Runs, Step(q), q # r PROVE job'[r] = job[r]
  BY <1>2 DEF Step, Provision, SeedOnly, Enter, RenderDirectory, RenderCompose, RenderEnv, RenderSeeds,
              Truncate, Register, Post, Report, Die, Goto, End, TypeOK
<1> QED BY <1>1, <1>2 DEF Next

\* A run keeps its arguments, its key and the registry it read.
LEMMA JobMoves ==
  ASSUME TypeOK, [Next]_vars, NEW r \in Runs
  PROVE  /\ job[r] # None => job'[r] # None
         /\ Running(r)' =>
              \/ /\ Running(r) /\ job'[r].args = job[r].args
                 /\ job'[r].key = job[r].key /\ job'[r].read = job[r].read
              \/ job[r] = None /\ Begins(r)
<1> USE NoneIsNoRecord
<1>1. ASSUME job'[r] = job[r]
      PROVE  /\ job[r] # None => job'[r] # None
             /\ Running(r)' => /\ Running(r) /\ job'[r].args = job[r].args
                              /\ job'[r].key = job[r].key /\ job'[r].read = job[r].read
  BY <1>1 DEF Running
<1>2. CASE ~Step(r)
  BY <1>1, <1>2, OthersStay
<1>4. CASE Begins(r)
  <2>1. PICK a \in Arguments : Provision(r, a) \/ SeedOnly(r, a)
    BY <1>4 DEF Begins
  <2> QED BY <1>4, <2>1 DEF Provision, SeedOnly
<1>5. CASE Step(r) /\ ~Begins(r)
  <2>1. job[r] \in Job /\ Running(r)
    BY <1>5, RunningJob
       DEF Step, Begins, RenderDirectory, RenderCompose, RenderEnv, RenderSeeds, Truncate, Register,
           Post, Report, Die
  <2>2. \/ job'[r] = Over
        \/ \E place \in Rendering \cup {"post"} : job'[r] = [job[r] EXCEPT !.at = place]
        \/ \E S \in SUBSET Ports, m \in BOOLEAN : job'[r] = [job[r] EXCEPT !.todo = S, !.missed = m]
    <3>1. CASE Post(r)
      <4>1. PICK p \in job[r].todo, m \in BOOLEAN :
              job' = [job EXCEPT ![r] = [job[r] EXCEPT !.todo = job[r].todo \ {p}, !.missed = m]]
        BY <3>1, PostJob
      <4>2. job[r].todo \ {p} \in SUBSET Ports
        BY <2>1 DEF Job
      <4>3. job'[r] = [job[r] EXCEPT !.todo = job[r].todo \ {p}, !.missed = m]
        BY <4>1 DEF TypeOK
      <4> QED BY <4>2, <4>3
    <3>2. CASE End(r)
      BY <3>2 DEF End, TypeOK
    <3>3. ASSUME NEW place \in Rendering \cup {"post"}, Goto(r, place)
          PROVE  job'[r] = [job[r] EXCEPT !.at = place]
      BY <2>1, <3>3, GotoType
    <3>4. \/ Post(r) \/ End(r)
          \/ \E place \in Rendering \cup {"post"} : Goto(r, place)
      BY <1>5 DEF Step, Begins, RenderDirectory, RenderCompose, RenderEnv, RenderSeeds, Truncate,
                  Register, Report, Die, Rendering
    <3> QED BY <3>1, <3>2, <3>3, <3>4
  <2>3. CASE job'[r] = Over
    BY <2>3 DEF Running
  <2>4. ASSUME NEW place \in Rendering \cup {"post"}, job'[r] = [job[r] EXCEPT !.at = place]
        PROVE  /\ job'[r] \in Job /\ job'[r].args = job[r].args
               /\ job'[r].key = job[r].key /\ job'[r].read = job[r].read
    BY <2>1, <2>4 DEF Job
  <2>5. ASSUME NEW S \in SUBSET Ports, NEW m \in BOOLEAN,
               job'[r] = [job[r] EXCEPT !.todo = S, !.missed = m]
        PROVE  /\ job'[r] \in Job /\ job'[r].args = job[r].args
               /\ job'[r].key = job[r].key /\ job'[r].read = job[r].read
    BY <2>1, <2>5 DEF Job
  <2> QED BY <2>1, <2>2, <2>3, <2>4, <2>5
<1> QED BY <1>2, <1>4, <1>5

LEMMA NextInPool == TypeOK /\ InPool /\ [Next]_vars => InPool'
<1> SUFFICES ASSUME TypeOK, InPool, [Next]_vars, NEW r \in Runs, Running(r)'
             PROVE  PortsOf(job'[r].args.slice) \subseteq Ports
  BY DEF InPool
<1>1. CASE Running(r) /\ job'[r].args = job[r].args
  BY <1>1 DEF InPool
<1>2. ASSUME NEW a \in Arguments, Provision(r, a) \/ SeedOnly(r, a)
      PROVE  PortsOf(job'[r].args.slice) \subseteq Ports
  BY <1>2 DEF Provision, SeedOnly, Allocatable, Enter, TypeOK
<1> QED BY <1>1, <1>2, JobMoves DEF Begins

-----------------------------------------------------------------------------
(* secrets, and what a run may claim                                        *)

Holds(k, c) ==
    \/ files[c].env # None /\ files[c].env.secret = k
    \/ stack[c] # None /\ stack[c].secret = k
    \/ \E q \in Runs : Running(q) /\ job[q].key = k /\ job[q].args.client = c

\* A run mints its secret once, for its client; nobody else ever has it.
SecretsAreOwn ==
    \A k \in Runs, c \in Clients :
        Holds(k, c) => job[k] # None /\ \A d \in Clients : Holds(k, d) => d = c

\* The ports a run need not post any more have a row, unless it missed one.
Progress ==
    \A r \in Runs : Running(r) =>
        /\ job[r].todo \subseteq PortsOf(job[r].args.slice)
        /\ ~job[r].missed =>
              \A p \in PortsOf(job[r].args.slice) \ job[r].todo : rows[job[r].args.client][p] > 0

LEMMA FilesMove ==
  ASSUME [Next]_vars
  PROVE  \/ files' = files
         \/ \E r \in Runs : RenderDirectory(r) \/ RenderCompose(r) \/ RenderEnv(r) \/ RenderSeeds(r)
         \/ \E c \in Clients : Remove(c)
<1>1. ASSUME NEW r \in Runs, Step(r)
      PROVE  \/ files' = files
             \/ RenderDirectory(r) \/ RenderCompose(r) \/ RenderEnv(r) \/ RenderSeeds(r)
  BY <1>1 DEF Step, Provision, SeedOnly, Truncate, Register, Post, Report, Die, disk
<1> QED BY <1>1 DEF Next, ComposeUp, vars, disk

LEMMA StackMoves ==
  ASSUME [Next]_vars
  PROVE  UNCHANGED <<stack, volume>> \/ \E c \in Clients : ComposeUp(c)
<1>1. ASSUME NEW r \in Runs, Step(r) PROVE UNCHANGED <<stack, volume>>
  BY <1>1 DEF Step, Provision, SeedOnly, RenderDirectory, RenderCompose, RenderEnv, RenderSeeds,
              Truncate, Register, Post, Report, Die, instances
<1> QED BY <1>1 DEF Next, Remove, vars, instances

LEMMA NextSecrets ==
  ASSUME TypeOK, SecretsAreOwn, [Next]_vars
  PROVE  SecretsAreOwn'
\* Whoever holds a secret after the step held it before, or has just minted it.
<1>1. ASSUME NEW k \in Runs, NEW c \in Clients, Holds(k, c)'
      PROVE  \/ Holds(k, c)
             \/ /\ job[k] = None /\ job'[k] # None
                /\ Running(k)' /\ job'[k].args.client = c
                /\ Begins(k) /\ ~\E a \in Arguments : SeedOnly(k, a)
  <2>1. ASSUME NEW q \in Runs, Running(q)', job'[q].key = k, job'[q].args.client = c
        PROVE  \/ Holds(k, c)
               \/ /\ job[k] = None /\ job'[k] # None
                  /\ Running(k)' /\ job'[k].args.client = c
                  /\ Begins(k) /\ ~\E a \in Arguments : SeedOnly(k, a)
    <3>1. CASE Running(q) /\ job'[q].args = job[q].args /\ job'[q].key = job[q].key
      BY <2>1, <3>1 DEF Holds
    <3>2. ASSUME NEW a \in Arguments, SeedOnly(q, a) PROVE Holds(k, c)
      BY <2>1, <3>2 DEF SeedOnly, Enter, TypeOK, Holds
    <3>3. ASSUME NEW a \in Arguments, Provision(q, a) PROVE q = k /\ job[q] = None
      BY <2>1, <3>3 DEF Provision, Enter, TypeOK
    <3>4. Running(q)' => job'[q] # None
      BY DEF Running
    <3> QED BY <2>1, <3>1, <3>2, <3>3, <3>4, JobMoves DEF Begins
  <2>2. CASE files'[c].env # None /\ files'[c].env.secret = k
    <3>1. CASE files'[c].env = files[c].env
      BY <2>2, <3>1 DEF Holds
    <3>2. ASSUME NEW r \in Runs, RenderEnv(r), job[r].args.client = c PROVE Holds(k, c)
      BY <2>2, <3>2, RunningJob DEF RenderEnv, TypeOK, Holds
    <3>3. \/ files'[c].env = files[c].env \/ files'[c].env = None
          \/ \E r \in Runs : RenderEnv(r) /\ job[r].args.client = c
      <4>1. CASE files' = files \/ \E r \in Runs : RenderEnv(r)
        <5>1. ASSUME NEW r \in Runs, RenderEnv(r), job[r].args.client # c
              PROVE  files'[c].env = files[c].env
          BY <5>1 DEF RenderEnv, TypeOK
        <5> QED BY <4>1, <5>1
      <4>2. ASSUME NEW r \in Runs, RenderDirectory(r) \/ RenderCompose(r) \/ RenderSeeds(r)
            PROVE  files'[c].env = files[c].env
        <5>1. files[c] \in Directory /\ files \in [Clients -> Directory]
          BY DEF TypeOK
        <5>2. PICK d, S :
                \/ files' = [files EXCEPT ![d].geo = TRUE]
                \/ files' = [files EXCEPT ![d].compose = TRUE]
                \/ files' = [files EXCEPT ![d].seeds = S]
          BY <4>2 DEF RenderDirectory, RenderCompose, RenderSeeds
        <5> QED BY <5>1, <5>2 DEF Directory
      <4>3. ASSUME NEW e \in Clients, Remove(e)
            PROVE  files'[c].env \in {None, files[c].env}
        BY <4>3 DEF Remove, Empty, TypeOK
      <4> QED BY <4>1, <4>2, <4>3, FilesMove
    <3> QED BY <2>2, <3>1, <3>2, <3>3
  <2>3. CASE stack'[c] # None /\ stack'[c].secret = k
    <3>1. \/ stack'[c] = stack[c] \/ stack'[c] = files[c].env
      BY StackMoves DEF ComposeUp, TypeOK
    <3> QED BY <2>3, <3>1 DEF Holds
  <2> QED BY <1>1, <2>1, <2>2, <2>3 DEF Holds
<1>2. ASSUME NEW k \in Runs, NEW c \in Clients, Holds(k, c)'
      PROVE  job'[k] # None /\ \A d \in Clients : Holds(k, d)' => d = c
  <2>1. CASE Holds(k, c)
    <3>1. job[k] # None
      BY <2>1 DEF SecretsAreOwn
    <3> QED BY <1>1, <2>1, <3>1, JobMoves DEF SecretsAreOwn
  <2>2. CASE ~Holds(k, c)
    <3>1. job[k] = None /\ job'[k] # None /\ job'[k].args.client = c
      BY <1>1, <1>2, <2>2
    <3> QED BY <1>1, <3>1 DEF SecretsAreOwn
  <2> QED BY <2>1, <2>2
<1> QED BY <1>2 DEF SecretsAreOwn

LEMMA RowsStay ==
  ASSUME TypeOK, [Next]_vars, NEW c \in Clients, NEW p \in Ports
  PROVE  rows'[c][p] >= rows[c][p] /\ rows[c][p] \in Nat /\ rows'[c][p] \in Nat
<1>0. rows \in [Clients -> [Ports -> 0..MaxRows]]
  BY DEF TypeOK
<1>1. CASE UNCHANGED rows
  BY <1>0, <1>1, ProvisioningConstants
<1>2. ASSUME NEW d \in Clients, NEW q, CreateProxy(d, q)
      PROVE  rows'[c][p] >= rows[c][p] /\ rows[c][p] \in Nat /\ rows'[c][p] \in Nat
  BY <1>0, <1>2, ProvisioningConstants DEF CreateProxy
<1> QED BY <1>1, <1>2
        DEF Next, Step, Provision, SeedOnly, RenderDirectory, RenderCompose, RenderEnv, RenderSeeds,
            Truncate, Register, Post, Report, Die, ComposeUp, Remove, vars, instances

\* The gateway that takes a run's post is its client's: it has the run's key.
LEMMA PostReachesOwn ==
  ASSUME TypeOK, SecretsAreOwn, NEW r \in Runs, Running(r), job[r] \in Job,
         NEW d \in Clients, Reaches(r, d)
  PROVE  d = job[r].args.client
BY DEF SecretsAreOwn, Holds, Reaches, Job, Arguments

LEMMA NextProgress ==
  ASSUME TypeOK, InPool, SecretsAreOwn, Progress, [Next]_vars
  PROVE  Progress'
<1> SUFFICES ASSUME NEW r \in Runs, Running(r)'
             PROVE  /\ job'[r].todo \subseteq PortsOf(job'[r].args.slice)
                    /\ ~job'[r].missed =>
                          \A p \in PortsOf(job'[r].args.slice) \ job'[r].todo :
                              rows'[job'[r].args.client][p] > 0
  BY DEF Progress
<1>1. CASE Begins(r)
  BY <1>1 DEF Begins, Provision, SeedOnly, Enter, TypeOK
<1>2. CASE Running(r) /\ ~Begins(r)
  <2>0. /\ job[r] \in Job /\ job'[r].args = job[r].args
        /\ job[r].args.client \in Clients /\ PortsOf(job[r].args.slice) \subseteq Ports
    BY <1>2, JobMoves DEF InPool, Running, TypeOK, Job, Arguments
  <2>1. CASE job'[r].todo = job[r].todo /\ job'[r].missed = job[r].missed
    BY <1>2, <2>0, <2>1, RowsStay DEF Progress
  <2>2. CASE Post(r)
    <3>1. PICK p \in job[r].todo, miss \in BOOLEAN :
            /\ job' = [job EXCEPT ![r] = [job[r] EXCEPT !.todo = job[r].todo \ {p}, !.missed = miss]]
            /\ ~miss => ~job[r].missed
            /\ \/ \E d \in Clients : Reaches(r, d) /\ CreateProxy(d, p)
               \/ miss /\ UNCHANGED rows
      BY <2>2, PostJob
    <3>2. job'[r].todo = job[r].todo \ {p} /\ job'[r].missed = miss
      BY <2>0, <3>1 DEF TypeOK, Job
    <3>3. ~miss => rows'[job[r].args.client][p] > 0
      <4>1. p \in Ports
        BY <2>0 DEF Job
      <4>2. ASSUME NEW d \in Clients, Reaches(r, d), CreateProxy(d, p)
            PROVE  rows'[job[r].args.client][p] > 0
        <5>1. d = job[r].args.client
          BY <1>2, <2>0, <4>2, PostReachesOwn
        <5>2. rows[d] \in [Ports -> 0..MaxRows] /\ rows'[d][p] = rows[d][p] + 1
          BY <4>1, <4>2 DEF CreateProxy, TypeOK
        <5> QED BY <4>1, <5>1, <5>2, ProvisioningConstants
      <4> QED BY <3>1, <4>2
    <3> QED BY <1>2, <2>0, <3>1, <3>2, <3>3, RowsStay DEF Progress
  <2>3. Post(r) \/ (job'[r].todo = job[r].todo /\ job'[r].missed = job[r].missed)
    <3>1. ASSUME NEW place, Goto(r, place)
          PROVE  job'[r].todo = job[r].todo /\ job'[r].missed = job[r].missed
      BY <2>0, <3>1 DEF Goto, TypeOK, Job
    <3>2. ~End(r)
      BY DEF End, TypeOK, Running
    <3>3. Step(r) => Post(r) \/ End(r) \/ \E place : Goto(r, place)
      BY <1>2 DEF Step, Begins, RenderDirectory, RenderCompose, RenderEnv, RenderSeeds, Truncate,
                  Register, Report, Die
    <3>4. ~Step(r) => job'[r] = job[r]
      BY OthersStay
    <3> QED BY <3>1, <3>2, <3>3, <3>4
  <2> QED BY <2>1, <2>2, <2>3
<1> QED BY <1>1, <1>2, JobMoves

\* A report claims the ports of a run that missed none and has none left.
LEMMA NextClaims ==
  ASSUME TypeOK, InPool, SecretsAreOwn, Progress, ClaimsAreTrue, [Next]_vars
  PROVE  ClaimsAreTrue'
<1>1. ASSUME NEW c \in Clients, NEW p \in claimed[c] PROVE rows'[c][p] > 0
  BY <1>1, RowsStay DEF ClaimsAreTrue, TypeOK
<1>2. CASE UNCHANGED claimed
  BY <1>1, <1>2 DEF ClaimsAreTrue
<1>3. ASSUME NEW r \in Runs, Report(r) PROVE ClaimsAreTrue'
  <2>1. PICK e, S : e \in Clients /\ e = job[r].args.client /\ S = PortsOf(job[r].args.slice)
    BY <1>3, RunningJob DEF Report
  <2>2. claimed' = claimed \/ (~job[r].missed /\ claimed' = [claimed EXCEPT ![e] = claimed[e] \cup S])
    BY <1>3, <2>1 DEF Report, TypeOK
  <2>3. ~job[r].missed => \A p \in S : rows[e][p] > 0
    BY <1>3, <2>1, RunningJob DEF Report, Progress
  <2>4. UNCHANGED rows
    BY <1>3 DEF Report, instances
  <2>5. ASSUME claimed' = [claimed EXCEPT ![e] = claimed[e] \cup S], ~job[r].missed
        PROVE  ClaimsAreTrue'
    <3>1. /\ claimed \in [Clients -> SUBSET Ports] /\ e \in Clients
      BY <2>1 DEF TypeOK
    <3>2. claimed'[e] = claimed[e] \cup S /\ \A c \in Clients : c # e => claimed'[c] = claimed[c]
      BY <2>5, <3>1
    <3>3. \A c \in Clients : \A p \in claimed'[c] : p \in claimed[c] \/ (c = e /\ p \in S)
      BY <3>2
    <3> QED BY <2>3, <2>4, <2>5, <3>3 DEF ClaimsAreTrue
  <2> QED BY <1>2, <2>2, <2>5
<1>4. UNCHANGED claimed \/ \E r \in Runs : Report(r)
  <2>1. ASSUME NEW r \in Runs, Step(r) PROVE UNCHANGED claimed \/ Report(r)
    BY <2>1 DEF Step, Provision, SeedOnly, RenderDirectory, RenderCompose, RenderEnv, RenderSeeds,
                Truncate, Register, Post, Die, history
  <2> QED BY <2>1 DEF Next, ComposeUp, Remove, vars, history
<1> QED BY <1>2, <1>3, <1>4

-----------------------------------------------------------------------------
(* one run at a time: what holds as long as no window was crossed           *)

Apart(a, e) == a.gateway # e.gateway /\ ~RangesOverlap(a.slice, e.slice)

\* No other client's entry is in the way of a run.
Fresh(r) ==
    \A d \in Clients \ {job[r].args.client} : book[d] # None => Apart(job[r].args, book[d])

\* Nobody writes the registry behind a run that goes by what it read, and the client
\* being rendered is not registered yet.
Alone ==
    \A r \in Runs : At(r, Rendering) =>
        /\ job[r].read = book /\ book[job[r].args.client] = None
        /\ \A q \in Runs : Exposed(q) => q = r

\* A full run that posts has its entry.
OwnEntry ==
    \A r \in Runs : At(r, {"post"}) /\ job[r].args.mode # "seed-proxies" =>
        book[job[r].args.client] = [gateway |-> job[r].args.gateway, slice |-> job[r].args.slice]

\* What is on disk at each stage of the rendering.
Rendered ==
    \A r \in Runs : At(r, Rendering) =>
        LET f == files[job[r].args.client] IN
        /\ ~At(r, {"directory"}) => f.geo
        /\ ~At(r, {"directory", "compose"}) => f.compose
        /\ ~At(r, {"directory", "compose", "env"}) =>
              f.env # None /\ f.env.gateway = job[r].args.gateway
        /\ At(r, {"truncate", "write"}) => f.seeds = job[r].args.slice

\* The .env of a client is there because its run got past it, or died after it; what
\* was started from it is still what it says.
Rooted ==
    \A c \in Clients \ (died \cup removed) :
        /\ files[c].env # None /\ book[c] = None =>
              \E r \in Runs : At(r, {"seeds", "truncate", "write"}) /\ job[r].args.client = c
        /\ stack[c] # None => files[c].env = stack[c]
        /\ volume[c] # None => files[c].env # None /\ volume[c] = files[c].env.secret
        /\ stack[c] # None => volume[c] # None

AllFresh == \A r \in Runs : Running(r) => Fresh(r)

EntriesApart ==
    \A c, d \in Clients : c # d /\ book[c] # None /\ book[d] # None
        => Apart(book[c], book[d])

Complete(c) ==
    /\ files[c].geo /\ files[c].compose /\ files[c].env # None
    /\ files[c].env.gateway = book[c].gateway
    /\ files[c].seeds = book[c].slice
EntriesComplete == \A c \in Clients : book[c] # None => Complete(c)

\* registry.json has everything that was entered, or nothing at all: and then only the
\* run that emptied it, if any, is still rendering.
Kept ==
    IF torn THEN registry = Blank /\ \A r \in Runs : At(r, Rendering) => At(r, {"write"})
            ELSE registry = book

Uncrossed ==
    /\ AllFresh /\ Alone /\ OwnEntry /\ Rendered /\ Rooted
    /\ EntriesApart /\ EntriesComplete
    /\ Kept

ProvisionInv ==
    /\ TypeOK /\ InPool /\ SecretsAreOwn /\ Progress /\ ClaimsAreTrue
    /\ ~overlapped => Uncrossed

LEMMA InitProvision == Init => ProvisionInv
<1> SUFFICES ASSUME Init PROVE ProvisionInv
  OBVIOUS
<1>1. TypeOK
  BY InitType
<1>2. \A r \in Runs : ~Running(r) /\ \A S : ~At(r, S)
  BY DEF Init, Running, At
<1>3. InPool /\ Progress
  BY <1>2 DEF InPool, Progress
<1>4. SecretsAreOwn
  BY <1>2 DEF SecretsAreOwn, Holds, Init, Empty
<1>5. ClaimsAreTrue
  BY DEF Init, ClaimsAreTrue
<1>6. Uncrossed
  <2>1. \A c \in Clients : book[c] = None /\ files[c].env = None /\ stack[c] = None /\ volume[c] = None
    BY DEF Init, Blank, Empty
  <2>2. Kept
    BY <1>2 DEF Kept, Init
  <2>3. AllFresh /\ Alone /\ OwnEntry /\ Rendered
    BY <1>2 DEF AllFresh, Alone, OwnEntry, Rendered
  <2>4. Rooted /\ EntriesApart /\ EntriesComplete
    BY <2>1 DEF Rooted, EntriesApart, EntriesComplete
  <2> QED BY <2>2, <2>3, <2>4 DEF Uncrossed
<1> QED BY <1>1, <1>3, <1>4, <1>5, <1>6 DEF ProvisionInv

LEMMA SameJob ==
  ASSUME NEW q, job'[q] = job[q]
  PROVE  /\ \A S : At(q, S)' <=> At(q, S)
         /\ Running(q)' <=> Running(q)
         /\ Exposed(q)' <=> Exposed(q)
BY DEF At, Running, Exposed

LEMMA RenderingIsExposed ==
  \A q \in Runs : \A S : At(q, S) =>
      /\ Running(q)
      /\ S \subseteq Rendering => At(q, Rendering) /\ Exposed(q)
BY DEF At, Running, Exposed

\* A step that leaves disk and stacks alone: a run posts, ends, or nothing happens.
LEMMA QuietStep ==
  ASSUME Uncrossed, NEW r \in Runs, \A q \in Runs : q # r => job'[q] = job[q],
         \/ job'[r] \in {job[r], Over}
         \/ /\ Running(r) /\ Running(r)' /\ job'[r].args = job[r].args
            /\ job'[r].at = job[r].at /\ job'[r].read = job[r].read,
         UNCHANGED <<disk, stack, volume, book, died, removed>>,
         At(r, {"seeds", "truncate", "write"}) => At(r, {"seeds", "truncate", "write"})'
  PROVE  Uncrossed'
<1>1. ASSUME NEW q \in Runs, Running(q)'
      PROVE  /\ Running(q) /\ job'[q].args = job[q].args
             /\ job'[q].at = job[q].at /\ job'[q].read = job[q].read
  BY <1>1 DEF Running
<1>2. \A q \in Runs : \A S : At(q, S)' => Running(q)' /\ At(q, S)
  BY <1>1 DEF At, Running
<1>3. \A q \in Runs : Exposed(q)' => Exposed(q)
  BY <1>1, <1>2 DEF Exposed
<1>4. AllFresh'
  BY <1>1 DEF Uncrossed, AllFresh, Fresh, disk
<1>5. Alone'
  BY <1>1, <1>2, <1>3 DEF Uncrossed, Alone, disk
<1>6. OwnEntry'
  BY <1>1, <1>2 DEF Uncrossed, OwnEntry, disk
<1>7. Rendered'
  <2>1. \A q \in Runs : \A S : Running(q)' => (At(q, S)' <=> At(q, S))
    BY <1>1 DEF At, Running
  <2> QED BY <1>1, <1>2, <2>1 DEF Uncrossed, Rendered, disk
<1>8. Rooted'
  <2>1. \A q \in Runs : At(q, {"seeds", "truncate", "write"}) =>
          At(q, {"seeds", "truncate", "write"})' /\ job'[q].args = job[q].args
    BY <1>1, <1>2, SameJob
  <2> QED BY <2>1 DEF Uncrossed, Rooted, disk
<1>9. EntriesApart' /\ EntriesComplete'
  BY DEF Uncrossed, EntriesApart, EntriesComplete, Complete, disk
<1>10. Kept'
  <2>1. \A q \in Runs : At(q, Rendering)' => At(q, Rendering)
    BY <1>2
  <2>2. \A q \in Runs : At(q, Rendering)' /\ At(q, {"write"}) => At(q, {"write"})'
    BY <1>1, <1>2 DEF At
  <2>3. UNCHANGED <<registry, torn, book>>
    BY DEF disk
  <2> QED BY <2>1, <2>2, <2>3 DEF Uncrossed, Kept, Blank
<1> QED BY <1>4, <1>5, <1>6, <1>7, <1>8, <1>9, <1>10 DEF Uncrossed

LEMMA ProvisionUncrossed ==
  ASSUME TypeOK, Uncrossed, NEW r \in Runs, NEW a \in Arguments, Provision(r, a), ~overlapped'
  PROVE  Uncrossed'
<1>1. /\ job[r] = None /\ Allocatable(a) /\ a.mode # "seed-proxies"
      /\ \A q \in Runs : ~Exposed(q)
      /\ UNCHANGED <<registry, torn, book, files, stack, volume, died, removed>>
      /\ registry = book /\ ~torn
  BY DEF Provision, disk, instances, Uncrossed, Kept
<1>2. /\ \A q \in Runs : q # r => job'[q] = job[q]
      /\ job'[r].at = "directory" /\ job'[r].args = a /\ job'[r].read = book
      /\ job'[r] \in Job
  <2>1. /\ Enter(r, a, "directory", r) /\ PortsOf(a.slice) \subseteq Ports
        /\ "directory" \in Rendering \cup {"post"}
    BY DEF Provision, Allocatable, Rendering
  <2>2. /\ job'[r] = [at |-> "directory", args |-> a, key |-> r, read |-> registry,
                      todo |-> PortsOf(a.slice), missed |-> FALSE]
        /\ job'[r] \in Job
        /\ \A q \in Runs : q # r => job'[q] = job[q]
    BY <2>1, EnterType
  <2> QED BY <1>1, <2>2
<1>3. \A q \in Runs : /\ ~At(q, Rendering)
                      /\ ~At(q, {"seeds", "truncate", "write"})
  BY <1>1, RenderingIsExposed DEF Rendering
<1>4. \A q \in Runs : \A S : At(q, S)' => (q = r /\ "directory" \in S) \/ (q # r /\ At(q, S))
  <2> SUFFICES ASSUME NEW q \in Runs, NEW S, At(q, S)'
               PROVE  (q = r /\ "directory" \in S) \/ (q # r /\ At(q, S))
    OBVIOUS
  <2>1. CASE q = r
    BY <1>2, <2>1 DEF At
  <2>2. CASE q # r
    BY <1>2, <2>2, SameJob
  <2> QED BY <2>1, <2>2
<1>5. \A q \in Runs : Exposed(q)' => q = r
  BY <1>1, <1>2, SameJob
<1>6. AllFresh'
  <2>1. Fresh(r)'
    BY <1>1, <1>2 DEF Fresh, Apart, Allocatable
  <2>2. \A q \in Runs : q # r /\ Running(q)' => Fresh(q)'
    BY <1>1, <1>2, SameJob DEF Uncrossed, AllFresh, Fresh
  <2> QED BY <2>1, <2>2 DEF AllFresh
<1>7. Alone'
  BY <1>1, <1>2, <1>3, <1>4, <1>5 DEF Alone, Allocatable
<1>8. OwnEntry'
  BY <1>1, <1>2, <1>4 DEF Uncrossed, OwnEntry
<1>9. Rendered'
  <2>1. At(r, {"directory"})' /\ ~At(r, {"truncate", "write"})'
        /\ At(r, {"directory", "compose"})' /\ At(r, {"directory", "compose", "env"})'
    BY <1>2, NoneIsNoRecord DEF At
  <2> QED BY <1>3, <1>4, <2>1 DEF Rendered
<1>10. Rooted'
  BY <1>1, <1>3 DEF Uncrossed, Rooted
<1>11. EntriesApart' /\ EntriesComplete'
  BY <1>1 DEF Uncrossed, EntriesApart, EntriesComplete, Complete
<1>12. Kept'
  BY <1>1 DEF Kept
<1> QED BY <1>6, <1>7, <1>8, <1>9, <1>10, <1>11, <1>12 DEF Uncrossed

LEMMA SeedOnlyUncrossed ==
  ASSUME TypeOK, Uncrossed, NEW r \in Runs, NEW a \in Arguments, SeedOnly(r, a), ~overlapped'
  PROVE  Uncrossed'
<1>1. /\ job[r] = None /\ Allocatable(a) /\ a.mode = "seed-proxies"
      /\ \A q \in Runs : ~At(q, Rendering)
      /\ UNCHANGED <<registry, torn, book, files, stack, volume, died, removed>>
      /\ registry = book /\ ~torn
  BY DEF SeedOnly, disk, instances, Uncrossed, Kept
<1>2. /\ \A q \in Runs : q # r => job'[q] = job[q]
      /\ job'[r].at = "post" /\ job'[r].args = a
      /\ job'[r] \in Job
  <2>1. PICK k : k = files[a.client].env.secret
    OBVIOUS
  <2>2. k \in Runs /\ Enter(r, a, "post", k) /\ PortsOf(a.slice) \subseteq Ports
    BY <2>1 DEF SeedOnly, Allocatable, TypeOK, Directory, Env, Arguments
  <2>3. /\ job'[r] = [at |-> "post", args |-> a, key |-> k, read |-> registry,
                      todo |-> PortsOf(a.slice), missed |-> FALSE]
        /\ job'[r] \in Job
        /\ \A q \in Runs : q # r => job'[q] = job[q]
    BY <2>2, EnterType
  <2> QED BY <2>3
<1>3. \A q \in Runs : ~At(q, {"seeds", "truncate", "write"})
  BY <1>1, RenderingIsExposed DEF Rendering
<1>4. \A q \in Runs : ~At(q, Rendering)'
  BY <1>1, <1>2, SameJob DEF At, Rendering
<1>5. AllFresh'
  <2>1. Fresh(r)'
    BY <1>1, <1>2 DEF Fresh, Apart, Allocatable
  <2>2. \A q \in Runs : q # r /\ Running(q)' => Fresh(q)'
    BY <1>1, <1>2, SameJob DEF Uncrossed, AllFresh, Fresh
  <2> QED BY <2>1, <2>2 DEF AllFresh
<1>6. Alone' /\ Rendered'
  BY <1>4 DEF Alone, Rendered
<1>7. OwnEntry'
  <2>1. \A q \in Runs : q # r /\ At(q, {"post"})' => At(q, {"post"}) /\ job'[q] = job[q]
    BY <1>2, SameJob
  <2> QED BY <1>1, <1>2, <2>1 DEF Uncrossed, OwnEntry
<1>8. Rooted'
  BY <1>1, <1>3 DEF Uncrossed, Rooted
<1>9. EntriesApart' /\ EntriesComplete'
  BY <1>1 DEF Uncrossed, EntriesApart, EntriesComplete, Complete
<1>10. Kept'
  BY <1>1 DEF Kept
<1> QED BY <1>5, <1>6, <1>7, <1>8, <1>9, <1>10 DEF Uncrossed

\* What a step of the only renderer finds: its client is not registered, and no other
\* run is rendering or seeding.
LEMMA Renderer ==
  ASSUME TypeOK, Uncrossed, NEW r \in Runs, At(r, Rendering)
  PROVE  /\ job[r] \in Job /\ Running(r) /\ job[r].args.client \in Clients
         /\ job[r].read = book /\ book[job[r].args.client] = None
         /\ \A q \in Runs \ {r} : ~Exposed(q) /\ ~At(q, Rendering)
         /\ \A q \in Runs \ {r} : ~At(q, {"seeds", "truncate", "write"})
BY RunningJob, RenderingIsExposed DEF Uncrossed, Alone, Rendering

\* A step from one stage of the rendering to the next one.
LEMMA RenderUncrossed ==
  ASSUME TypeOK, Uncrossed, NEW r \in Runs, At(r, Rendering), NEW place \in Rendering,
         Goto(r, place), UNCHANGED <<book, stack, volume, died, removed>>,
         NEW c, c = job[r].args.client,
         \A d \in Clients : d # c => files'[d] = files[d],
         /\ place # "directory" => files'[c].geo
         /\ place \notin {"directory", "compose"} => files'[c].compose
         /\ place \in {"seeds", "truncate", "write"} =>
              files'[c].env # None /\ files'[c].env.gateway = job[r].args.gateway
         /\ place \in {"truncate", "write"} => files'[c].seeds = job[r].args.slice,
         \/ place \in {"seeds", "truncate", "write"} /\ (At(r, {"env"}) \/ files'[c].env = files[c].env)
         \/ place \in {"compose", "env"} /\ files'[c].env = files[c].env
               /\ ~At(r, {"seeds", "truncate", "write"}),
         Kept'
  PROVE  Uncrossed'
<1>1. /\ job[r] \in Job /\ Running(r) /\ c \in Clients
      /\ job[r].read = book /\ book[c] = None
      /\ \A q \in Runs \ {r} : ~Exposed(q) /\ ~At(q, Rendering)
      /\ \A q \in Runs \ {r} : ~At(q, {"seeds", "truncate", "write"})
  BY Renderer
<1>2. /\ job'[r] = [job[r] EXCEPT !.at = place] /\ job'[r] \in Job
      /\ \A q \in Runs : q # r => job'[q] = job[q]
  BY <1>1, GotoType
<1>3. /\ job'[r].at = place /\ job'[r].args = job[r].args /\ job'[r].read = job[r].read
  BY <1>1, <1>2 DEF Job
<1>4. \A S : At(r, S)' <=> place \in S
  BY <1>2, <1>3, NoneIsNoRecord DEF At
<1>5. \A q \in Runs \ {r} : ~Exposed(q)' /\ ~At(q, Rendering)'
  BY <1>1, <1>2, SameJob
<1>6. AllFresh'
  <2>1. \A q \in Runs : Running(q)' => Running(q) /\ job'[q].args = job[q].args
    BY <1>1, <1>2, <1>3, SameJob
  <2> QED BY <2>1 DEF Uncrossed, AllFresh, Fresh
<1>7. Alone'
  BY <1>1, <1>3, <1>5 DEF Alone
<1>8. OwnEntry'
  <2>1. \A q \in Runs : At(q, {"post"})' => At(q, {"post"}) /\ job'[q] = job[q]
    BY <1>2, <1>4, SameJob DEF Rendering
  <2> QED BY <2>1 DEF Uncrossed, OwnEntry
<1>9. Rendered'
  <2>1. \A q \in Runs : At(q, Rendering)' => q = r
    BY <1>5
  <2> QED BY <1>3, <1>4, <2>1 DEF Rendered, Rendering
<1>10. Rooted'
  <2> SUFFICES ASSUME NEW d \in Clients \ (died \cup removed)
               PROVE  /\ files'[d].env # None /\ book[d] = None =>
                            \E q \in Runs : At(q, {"seeds", "truncate", "write"})'
                                             /\ job'[q].args.client = d
                      /\ stack[d] # None => files'[d].env = stack[d]
                      /\ volume[d] # None => files'[d].env # None /\ volume[d] = files'[d].env.secret
                      /\ stack[d] # None => volume[d] # None
    BY DEF Rooted
  <2>0. /\ files[d].env # None /\ book[d] = None =>
             d = c /\ At(r, {"seeds", "truncate", "write"})
        /\ stack[d] # None => files[d].env = stack[d]
        /\ volume[d] # None => files[d].env # None /\ volume[d] = files[d].env.secret
        /\ stack[d] # None => volume[d] # None
    BY <1>1 DEF Uncrossed, Rooted
  <2>1. CASE d # c
    BY <2>0, <2>1
  <2>2. CASE d = c /\ place \in {"compose", "env"}
    BY <1>1, <2>0, <2>2
  <2>3. CASE d = c /\ place \in {"seeds", "truncate", "write"}
    <3>1. At(r, {"seeds", "truncate", "write"})' /\ job'[r].args.client = d
      BY <1>3, <1>4, <2>3
    <3>2. At(r, {"env"}) => ~At(r, {"seeds", "truncate", "write"})
      BY DEF At
    <3>3. At(r, {"env"}) => stack[d] = None /\ volume[d] = None
      BY <1>1, <2>0, <2>3, <3>2, NoneIsNoRecord
    <3> QED BY <2>0, <2>3, <3>1, <3>3
  <2> QED BY <2>1, <2>2, <2>3
<1>11. EntriesApart'
  BY DEF Uncrossed, EntriesApart
<1>12. EntriesComplete'
  BY <1>1 DEF Uncrossed, EntriesComplete, Complete
<1> QED BY <1>6, <1>7, <1>8, <1>9, <1>10, <1>11, <1>12 DEF Uncrossed

LEMMA RenderStepsUncrossed ==
  ASSUME TypeOK, Uncrossed, NEW r \in Runs,
         RenderDirectory(r) \/ RenderCompose(r) \/ RenderEnv(r) \/ RenderSeeds(r) \/ Truncate(r)
  PROVE  Uncrossed'
<1> USE DEF disk, instances, history
<1>1. At(r, Rendering)
  BY RenderingIsExposed
     DEF RenderDirectory, RenderCompose, RenderEnv, RenderSeeds, Truncate, Rendering
<1>2. PICK c, f : c = job[r].args.client /\ f = files[c]
  OBVIOUS
<1>3. /\ c \in Clients /\ f \in Directory /\ files \in [Clients -> Directory]
      /\ job[r] \in Job /\ job[r].args \in Arguments
  BY <1>1, <1>2, RunningJob DEF TypeOK
<1>4. /\ ~At(r, {"directory"}) => f.geo
      /\ ~At(r, {"directory", "compose"}) => f.compose
      /\ ~At(r, {"directory", "compose", "env"}) => f.env # None /\ f.env.gateway = job[r].args.gateway
      /\ At(r, {"truncate", "write"}) => f.seeds = job[r].args.slice
  BY <1>1, <1>2 DEF Uncrossed, Rendered
<1>5. CASE RenderDirectory(r)
  <2>1. /\ files' = [files EXCEPT ![c] = [f EXCEPT !.geo = TRUE]] /\ Goto(r, "compose")
        /\ At(r, {"directory"}) /\ ~At(r, {"seeds", "truncate", "write"})
    BY <1>2, <1>5 DEF RenderDirectory, At
  <2>2. /\ files'[c].geo /\ files'[c].env = files[c].env
        /\ \A d \in Clients : d # c => files'[d] = files[d]
    BY <1>2, <1>3, <2>1 DEF Directory
  <2>9. /\ "compose" \in Rendering /\ Kept'
        /\ UNCHANGED <<book, stack, volume, died, removed>>
    <3>1. ~At(r, {"write"}) /\ "compose" \in Rendering
      BY <1>5 DEF RenderDirectory, At, Rendering
    <3>2. ~torn /\ registry = book
      BY <1>1, <3>1 DEF Uncrossed, Kept
    <3>3. UNCHANGED <<registry, torn, book, stack, volume, died, removed>>
      BY <1>5 DEF RenderDirectory, instances, history
    <3> QED BY <3>1, <3>2, <3>3 DEF Kept
  <2> QED BY <1>1, <1>2, <2>1, <2>2, <2>9, RenderUncrossed
<1>6. CASE RenderCompose(r)
  <2>1. /\ files' = [files EXCEPT ![c] = [f EXCEPT !.compose = TRUE]] /\ Goto(r, "env")
        /\ ~At(r, {"directory"}) /\ ~At(r, {"seeds", "truncate", "write"})
    BY <1>2, <1>6 DEF RenderCompose, At
  <2>2. /\ files'[c].geo /\ files'[c].compose /\ files'[c].env = files[c].env
        /\ \A d \in Clients : d # c => files'[d] = files[d]
    BY <1>2, <1>3, <1>4, <2>1 DEF Directory
  <2>9. /\ "env" \in Rendering /\ Kept'
        /\ UNCHANGED <<book, stack, volume, died, removed>>
    <3>1. ~At(r, {"write"}) /\ "env" \in Rendering
      BY <1>6 DEF RenderCompose, At, Rendering
    <3>2. ~torn /\ registry = book
      BY <1>1, <3>1 DEF Uncrossed, Kept
    <3>3. UNCHANGED <<registry, torn, book, stack, volume, died, removed>>
      BY <1>6 DEF RenderCompose, instances, history
    <3> QED BY <3>1, <3>2, <3>3 DEF Kept
  <2> QED BY <1>1, <1>2, <2>1, <2>2, <2>9, RenderUncrossed
<1>7. CASE RenderEnv(r)
  <2>1. PICK e : e = [secret |-> job[r].key, gateway |-> job[r].args.gateway]
    OBVIOUS
  <2>2. e \in Env /\ e # None /\ e.gateway = job[r].args.gateway
    BY <1>3, <2>1, NoneIsNoRecord DEF Env, Job, Arguments
  <2>3. /\ files' = [files EXCEPT ![c] = [f EXCEPT !.env = e]] /\ Goto(r, "seeds")
        /\ ~At(r, {"directory"}) /\ ~At(r, {"directory", "compose"}) /\ At(r, {"env"})
    BY <1>2, <1>7, <2>1 DEF RenderEnv, At
  <2>4. /\ files'[c].geo /\ files'[c].compose /\ files'[c].env = e
        /\ \A d \in Clients : d # c => files'[d] = files[d]
    BY <1>2, <1>3, <1>4, <2>3 DEF Directory
  <2>9. /\ "seeds" \in Rendering /\ Kept'
        /\ UNCHANGED <<book, stack, volume, died, removed>>
    <3>1. ~At(r, {"write"}) /\ "seeds" \in Rendering
      BY <1>7 DEF RenderEnv, At, Rendering
    <3>2. ~torn /\ registry = book
      BY <1>1, <3>1 DEF Uncrossed, Kept
    <3>3. UNCHANGED <<registry, torn, book, stack, volume, died, removed>>
      BY <1>7 DEF RenderEnv, instances, history
    <3> QED BY <3>1, <3>2, <3>3 DEF Kept
  <2> QED BY <1>1, <1>2, <2>2, <2>3, <2>4, <2>9, RenderUncrossed
<1>8. CASE RenderSeeds(r)
  <2>1. /\ files' = [files EXCEPT ![c] = [f EXCEPT !.seeds = job[r].args.slice]]
        /\ Goto(r, "truncate")
        /\ ~At(r, {"directory"}) /\ ~At(r, {"directory", "compose"})
        /\ ~At(r, {"directory", "compose", "env"})
    BY <1>2, <1>8 DEF RenderSeeds, At
  <2>2. /\ files'[c].geo /\ files'[c].compose /\ files'[c].env = files[c].env
        /\ files'[c].seeds = job[r].args.slice
        /\ files'[c].env # None /\ files'[c].env.gateway = job[r].args.gateway
        /\ \A d \in Clients : d # c => files'[d] = files[d]
    BY <1>2, <1>3, <1>4, <2>1 DEF Directory
  <2>9. /\ "truncate" \in Rendering /\ Kept'
        /\ UNCHANGED <<book, stack, volume, died, removed>>
    <3>1. ~At(r, {"write"}) /\ "truncate" \in Rendering
      BY <1>8 DEF RenderSeeds, At, Rendering
    <3>2. ~torn /\ registry = book
      BY <1>1, <3>1 DEF Uncrossed, Kept
    <3>3. UNCHANGED <<registry, torn, book, stack, volume, died, removed>>
      BY <1>8 DEF RenderSeeds, instances, history
    <3> QED BY <3>1, <3>2, <3>3 DEF Kept
  <2>10. PICK place : place = "truncate"
    OBVIOUS
  <2>11. /\ place \in Rendering /\ Goto(r, place)
         /\ place \in {"seeds", "truncate", "write"}
         /\ files'[c].env = files[c].env
    BY <2>1, <2>2, <2>9, <2>10
  <2> QED BY <1>1, <1>2, <2>2, <2>9, <2>11, RenderUncrossed
<1>9. CASE Truncate(r)
  <2>1. /\ files' = files /\ Goto(r, "write") /\ At(r, {"truncate", "write"})
        /\ ~At(r, {"directory"}) /\ ~At(r, {"directory", "compose"})
        /\ ~At(r, {"directory", "compose", "env"})
    BY <1>9 DEF Truncate, At
  <2>2. "write" \in Rendering /\ UNCHANGED <<book, stack, volume, died, removed>>
    BY <1>9 DEF Truncate, Rendering, instances, history
  <2>3. \A q \in Runs : At(q, Rendering)' => At(q, {"write"})'
    <3>1. /\ job'[r] = [job[r] EXCEPT !.at = "write"] /\ job[r] \in Job
          /\ \A q \in Runs : q # r => job'[q] = job[q]
      BY <1>3, <2>1, <2>2, GotoType
    <3>2. job'[r].at = "write"
      BY <3>1 DEF Job
    <3>3. \A q \in Runs \ {r} : ~At(q, Rendering)'
      BY <1>1, <3>1, Renderer, SameJob
    <3> QED BY <3>2, <3>3 DEF At
  <2>4. Kept'
    BY <1>9, <2>3 DEF Truncate, Kept, Blank
  <2> QED BY <1>1, <1>2, <1>4, <2>1, <2>2, <2>4, RenderUncrossed
<1> QED BY <1>5, <1>6, <1>7, <1>8, <1>9

\* The registry is written back as it is plus one entry; whoever still posts has an
\* entry of its own that the new one was compared with.
LEMMA RegisterUncrossed ==
  ASSUME TypeOK, Uncrossed, NEW r \in Runs, Register(r)
  PROVE  Uncrossed'
<1>1. At(r, {"write"}) /\ At(r, Rendering)
  BY RenderingIsExposed DEF Register, Rendering
<1>2. PICK c, a, e : /\ c = job[r].args.client /\ a = job[r].args
                     /\ e = [gateway |-> a.gateway, slice |-> a.slice]
  OBVIOUS
<1>3. /\ job[r] \in Job /\ Running(r) /\ c \in Clients /\ a \in Arguments
      /\ job[r].read = book /\ book[c] = None
      /\ \A q \in Runs \ {r} : ~Exposed(q) /\ ~At(q, Rendering)
      /\ \A q \in Runs \ {r} : ~At(q, {"seeds", "truncate", "write"})
  BY <1>1, <1>2, Renderer DEF Job
<1>4. /\ book' = [book EXCEPT ![c] = e] /\ registry' = book' /\ ~torn'
      /\ UNCHANGED <<files, stack, volume, died, removed>>
      /\ IF a.mode = "full" THEN Goto(r, "post") ELSE End(r)
  BY <1>2, <1>3 DEF Register, WithEntry, instances
<1>5. e \in Entry /\ e # None /\ e.gateway = a.gateway /\ e.slice = a.slice
  BY <1>2, <1>3, NoneIsNoRecord DEF Entry, Arguments
<1>6. /\ book'[c] = e /\ \A d \in Clients : d # c => book'[d] = book[d]
  BY <1>3, <1>4 DEF TypeOK
<1>7. /\ \A q \in Runs : q # r => job'[q] = job[q]
      /\ Running(r)' => /\ job'[r].args = a /\ job'[r].at = "post"
  <2>1. CASE End(r)
    BY <2>1 DEF End, TypeOK, Running
  <2>2. CASE Goto(r, "post")
    <3>1. /\ job'[r] = [job[r] EXCEPT !.at = "post"]
          /\ \A q \in Runs : q # r => job'[q] = job[q]
      BY <1>3, <2>2, GotoType
    <3> QED BY <1>2, <1>3, <3>1 DEF Job
  <2> QED BY <1>4, <2>1, <2>2
<1>8. \A q \in Runs : ~At(q, Rendering)'
  <2>1. \A q \in Runs \ {r} : ~At(q, Rendering)'
    BY <1>3, <1>7, SameJob
  <2>2. ~At(r, Rendering)'
    BY <1>7 DEF At, Running, Rendering
  <2> QED BY <2>1, <2>2
<1>9. \A d \in Clients \ {c} : book[d] # None => Apart(a, book[d])
  BY <1>2, <1>3 DEF Uncrossed, AllFresh, Fresh
\* The runs that are left post, with an entry.
<1>10. ASSUME NEW q \in Runs \ {r}, Running(q)
       PROVE  /\ job[q].args.client \in Clients /\ job[q].args.client # c
              /\ book[job[q].args.client] = [gateway |-> job[q].args.gateway,
                                                slice |-> job[q].args.slice]
  <2>1. job[q] \in Job /\ job[q].args \in Arguments /\ ~Exposed(q)
    BY <1>3, <1>10 DEF Running, TypeOK, Job
  <2>2. At(q, {"post"}) /\ job[q].args.mode # "seed-proxies"
    BY <1>10, <2>1 DEF Exposed, At, Running, Job
  <2>3. book[job[q].args.client] = [gateway |-> job[q].args.gateway, slice |-> job[q].args.slice]
    BY <2>2 DEF Uncrossed, OwnEntry
  <2>4. [gateway |-> job[q].args.gateway, slice |-> job[q].args.slice] # None
    BY <2>1, NoneIsNoRecord DEF Arguments, Entry
  <2> QED BY <1>3, <2>1, <2>3, <2>4 DEF Arguments
<1>11. AllFresh'
  <2> SUFFICES ASSUME NEW q \in Runs, Running(q)', NEW d \in Clients,
                      d # job'[q].args.client, book'[d] # None
               PROVE  Apart(job'[q].args, book'[d])
    BY DEF AllFresh, Fresh, Apart
  <2>1. CASE q = r
    BY <1>2, <1>6, <1>7, <1>9, <2>1
  <2>2. CASE q # r /\ d # c
    BY <1>6, <1>7, <2>2, SameJob DEF Uncrossed, AllFresh, Fresh
  <2>3. CASE q # r /\ d = c
    <3>1. PICK b, f : b = job[q].args /\ f = [gateway |-> b.gateway, slice |-> b.slice]
      OBVIOUS
    <3>2. Running(q) /\ job'[q].args = b
      BY <1>7, <2>3, <3>1, SameJob
    <3>3. book[b.client] = f /\ b.client \in Clients \ {c} /\ f # None
      <4>1. book[b.client] = f /\ b.client \in Clients \ {c}
        BY <1>10, <2>3, <3>1, <3>2
      <4>2. b \in Arguments
        BY <3>1, <3>2 DEF Running, TypeOK, Job
      <4>3. f # None
        BY <3>1, <4>2, NoneIsNoRecord DEF Arguments, Entry
      <4> QED BY <4>1, <4>3
    <3>4. Apart(a, f)
      BY <1>9, <3>3
    <3>5. Apart(b, e)
      BY <1>2, <3>1, <3>4 DEF Apart, RangesOverlap
    <3> QED BY <1>6, <2>3, <3>2, <3>5
  <2> QED BY <2>1, <2>2, <2>3
<1>12. Alone' /\ Rendered'
  BY <1>8 DEF Alone, Rendered
<1>13. OwnEntry'
  <2> SUFFICES ASSUME NEW q \in Runs, At(q, {"post"})', job'[q].args.mode # "seed-proxies"
               PROVE  book'[job'[q].args.client]
                        = [gateway |-> job'[q].args.gateway, slice |-> job'[q].args.slice]
    BY DEF OwnEntry
  <2>0. Running(q)'
    BY DEF At, Running
  <2>1. CASE q = r
    BY <1>2, <1>6, <1>7, <2>0, <2>1
  <2>2. CASE q # r
    <3>1. Running(q) /\ job'[q] = job[q]
      BY <1>7, <2>0, <2>2, SameJob
    <3> QED BY <1>6, <1>10, <2>2, <3>1
  <2> QED BY <2>1, <2>2
<1>14. Rooted'
  <2>1. \A d \in Clients : book'[d] = None => d # c /\ book[d] = None
    BY <1>5, <1>6
  <2>2. \A q \in Runs : At(q, {"seeds", "truncate", "write"}) => job[q].args.client = c
    BY <1>2, <1>3
  <2> QED BY <1>4, <2>1, <2>2 DEF Uncrossed, Rooted
<1>15. EntriesApart'
  <2> SUFFICES ASSUME NEW d \in Clients, NEW f \in Clients, d # f,
                      book'[d] # None, book'[f] # None
               PROVE  Apart(book'[d], book'[f])
    BY DEF EntriesApart, Apart
  <2>1. CASE d # c /\ f # c
    BY <1>6, <2>1 DEF Uncrossed, EntriesApart
  <2>2. CASE d = c
    BY <1>5, <1>6, <1>9, <2>2 DEF Apart
  <2>3. CASE f = c
    BY <1>5, <1>6, <1>9, <2>3 DEF Apart, RangesOverlap
  <2> QED BY <2>1, <2>2, <2>3
<1>16. EntriesComplete'
  <2>1. /\ files[c].geo /\ files[c].compose /\ files[c].env # None
        /\ files[c].env.gateway = a.gateway /\ files[c].seeds = a.slice
    <3>1. /\ ~At(r, {"directory"}) /\ ~At(r, {"directory", "compose"})
          /\ ~At(r, {"directory", "compose", "env"}) /\ At(r, {"truncate", "write"})
      BY <1>1 DEF At
    <3> QED BY <1>1, <1>2, <3>1 DEF Uncrossed, Rendered
  <2>2. \A d \in Clients : d # c /\ book'[d] # None => Complete(d) /\ book'[d] = book[d]
    BY <1>6 DEF Uncrossed, EntriesComplete
  <2> QED BY <1>4, <1>5, <1>6, <2>1, <2>2 DEF EntriesComplete, Complete
<1>17. Kept'
  BY <1>4 DEF Kept
<1> QED BY <1>11, <1>12, <1>13, <1>14, <1>15, <1>16, <1>17 DEF Uncrossed

\* A run posts, reports or dies: after its own death a client may have files and no entry.
LEMMA RunsOnUncrossed ==
  ASSUME TypeOK, Uncrossed, NEW r \in Runs, Post(r) \/ Report(r) \/ Die(r)
  PROVE  Uncrossed'
<1>1. \A q \in Runs : q # r => job'[q] = job[q]
  BY DEF Post, Report, Die, End, TypeOK
<1>2. job[r] \in Job /\ Running(r) /\ job[r].args.client \in Clients
  BY RunningJob DEF Post, Report, Die
<1>3. CASE Post(r)
  <2>1. PICK p \in job[r].todo, m \in BOOLEAN :
          job' = [job EXCEPT ![r] = [job[r] EXCEPT !.todo = job[r].todo \ {p}, !.missed = m]]
    BY <1>3, PostJob
  <2>2. /\ job'[r].args = job[r].args /\ job'[r].at = job[r].at /\ job'[r].read = job[r].read
        /\ job'[r] \in Job
    BY <1>2, <2>1 DEF TypeOK, Job
  <2>3. Running(r)' /\ ~At(r, {"seeds", "truncate", "write"})
    BY <1>3, <2>2, NoneIsNoRecord DEF Running, Post, At
  <2>4. UNCHANGED <<disk, stack, volume, book, died, removed>>
    BY <1>3 DEF Post, history
  <2> QED BY <1>1, <1>2, <2>2, <2>3, <2>4, QuietStep
<1>4. CASE Report(r)
  <2>1. job'[r] = Over /\ ~At(r, {"seeds", "truncate", "write"})
    BY <1>4 DEF Report, End, TypeOK, At
  <2>2. UNCHANGED <<disk, stack, volume, book, died, removed>>
    BY <1>4 DEF Report, instances
  <2> QED BY <1>1, <2>1, <2>2, QuietStep
<1>5. CASE Die(r) /\ ~At(r, Rendering)
  <2>1. job'[r] = Over /\ ~At(r, {"seeds", "truncate", "write"})
    BY <1>5 DEF Die, End, TypeOK, At, Rendering
  <2>2. UNCHANGED <<disk, stack, volume, book, died, removed>>
    BY <1>5 DEF Die, instances
  <2> QED BY <1>1, <2>1, <2>2, QuietStep
<1>6. CASE Die(r) /\ At(r, Rendering)
  <2>1. /\ job'[r] = Over /\ died' = died \cup {job[r].args.client}
        /\ UNCHANGED <<disk, stack, volume, book, removed>>
    BY <1>6 DEF Die, End, TypeOK, instances
  <2>2. /\ \A q \in Runs \ {r} : ~Exposed(q) /\ ~At(q, Rendering)
        /\ \A q \in Runs \ {r} : ~At(q, {"seeds", "truncate", "write"})
    BY <1>6, Renderer
  <2>3. ~Running(r)' /\ \A S : ~At(r, S)'
    BY <2>1 DEF Running, At
  <2>4. \A q \in Runs : ~At(q, Rendering)'
    BY <1>1, <2>2, <2>3, SameJob
  <2>5. Alone' /\ Rendered'
    BY <2>4 DEF Alone, Rendered
  <2>6. \A q \in Runs : Running(q)' => Running(q) /\ job'[q] = job[q] /\ q # r
    BY <1>1, <2>3, SameJob
  <2>7. AllFresh'
    BY <2>1, <2>6 DEF Uncrossed, AllFresh, Fresh, disk
  <2>8. OwnEntry'
    BY <1>1, <2>1, <2>3, SameJob DEF Uncrossed, OwnEntry, disk
  <2>9. Rooted'
    <3>1. \A d \in Clients \ (died' \cup removed) :
            /\ d \in Clients \ (died \cup removed) /\ d # job[r].args.client
      BY <2>1
    <3>2. \A q \in Runs : At(q, {"seeds", "truncate", "write"}) => q = r
      BY <2>2
    <3> QED BY <2>1, <3>1, <3>2 DEF Uncrossed, Rooted, disk
  <2>10. EntriesApart' /\ EntriesComplete'
    BY <2>1 DEF Uncrossed, EntriesApart, EntriesComplete, Complete, disk
  <2>11. Kept'
    BY <2>1, <2>4 DEF Uncrossed, Kept, Blank, disk
  <2> QED BY <2>5, <2>7, <2>8, <2>9, <2>10, <2>11 DEF Uncrossed
<1> QED BY <1>3, <1>4, <1>5, <1>6

\* The stack starts from the .env, whose secret its volume knows or learns.
LEMMA ComposeUpUncrossed ==
  ASSUME TypeOK, Uncrossed, NEW c \in Clients, ComposeUp(c)
  PROVE  Uncrossed'
<1>1. /\ files[c].env # None /\ stack' = [stack EXCEPT ![c] = files[c].env]
      /\ volume' = [volume EXCEPT ![c] = IF volume[c] = None THEN files[c].env.secret ELSE volume[c]]
      /\ UNCHANGED <<registry, torn, book, files, job, died, removed>>
  BY DEF ComposeUp, disk, history
<1>2. \A q \in Runs : /\ \A S : At(q, S)' <=> At(q, S)
                      /\ Running(q)' <=> Running(q)
                      /\ Exposed(q)' <=> Exposed(q)
  BY <1>1 DEF At, Running, Exposed
<1>3. AllFresh' /\ Alone' /\ OwnEntry' /\ Rendered'
  BY <1>1, <1>2 DEF Uncrossed, AllFresh, Fresh, Alone, OwnEntry, Rendered
<1>4. Rooted'
  <2>1. files[c].env.secret # None
    BY <1>1, NoneIsNoRecord DEF TypeOK, Directory, Env
  <2> SUFFICES ASSUME NEW d \in Clients \ (died \cup removed)
               PROVE  /\ files[d].env # None /\ book[d] = None =>
                            \E q \in Runs : At(q, {"seeds", "truncate", "write"})
                                             /\ job[q].args.client = d
                      /\ stack'[d] # None => files[d].env = stack'[d]
                      /\ volume'[d] # None => files[d].env # None /\ volume'[d] = files[d].env.secret
                      /\ stack'[d] # None => volume'[d] # None
    BY <1>1, <1>2 DEF Rooted
  <2>2. CASE d = c
    BY <1>1, <2>1, <2>2 DEF Uncrossed, Rooted, TypeOK
  <2>3. CASE d # c
    BY <1>1, <2>3 DEF Uncrossed, Rooted, TypeOK
  <2> QED BY <2>2, <2>3
<1>5. EntriesApart' /\ EntriesComplete'
  BY <1>1 DEF Uncrossed, EntriesApart, EntriesComplete, Complete
<1>6. Kept'
  BY <1>1, <1>2 DEF Uncrossed, Kept, Blank
<1> QED BY <1>3, <1>4, <1>5, <1>6 DEF Uncrossed

LEMMA RemoveUncrossed ==
  ASSUME TypeOK, Uncrossed, NEW c \in Clients, Remove(c), ~overlapped'
  PROVE  Uncrossed'
<1>0. registry = book /\ ~torn
  BY DEF Remove, Uncrossed, Kept
<1>1. /\ book' = [book EXCEPT ![c] = None] /\ files' = [files EXCEPT ![c] = Empty]
      /\ removed' = removed \cup {c} /\ registry' = book' /\ torn' = torn
      /\ UNCHANGED <<stack, volume, job, died>>
      /\ \A q \in Runs : ~At(q, Rendering \cup {"post"})
  BY <1>0 DEF Remove, instances
<1>2. \A q \in Runs : ~Running(q)
  BY <1>1 DEF At, Running, TypeOK, Job
<1>3. \A q \in Runs : \A S : ~Running(q)' /\ ~At(q, S)' /\ ~At(q, S)
  BY <1>1, <1>2 DEF At, Running
<1>4. AllFresh' /\ Alone' /\ OwnEntry' /\ Rendered'
  BY <1>3 DEF AllFresh, Alone, OwnEntry, Rendered
<1>5. \A d \in Clients : d # c => files'[d] = files[d] /\ book'[d] = book[d]
  BY <1>1 DEF TypeOK
<1>6. book'[c] = None
  BY <1>1 DEF TypeOK
<1>7. Rooted'
  BY <1>1, <1>3, <1>5 DEF Uncrossed, Rooted
<1>8. EntriesApart' /\ EntriesComplete' /\ Kept'
  BY <1>0, <1>1, <1>5, <1>6 DEF Uncrossed, EntriesApart, EntriesComplete, Complete, Kept, TypeOK
<1> QED BY <1>4, <1>7, <1>8 DEF Uncrossed

-----------------------------------------------------------------------------

LEMMA NextProvision == ProvisionInv /\ [Next]_vars => ProvisionInv'
<1> SUFFICES ASSUME ProvisionInv, [Next]_vars PROVE ProvisionInv'
  OBVIOUS
<1>1. TypeOK /\ InPool /\ SecretsAreOwn /\ Progress /\ ClaimsAreTrue
  BY DEF ProvisionInv
<1>2. TypeOK' /\ InPool' /\ SecretsAreOwn' /\ Progress' /\ ClaimsAreTrue'
  BY <1>1, NextType, NextInPool, NextSecrets, NextProgress, NextClaims
<1>3. ASSUME ~overlapped' PROVE Uncrossed'
  <2>1. ~overlapped /\ Uncrossed
    <3>1. overlapped => overlapped'
      BY <1>1 DEF Next, Step, Provision, SeedOnly, RenderDirectory, RenderCompose, RenderEnv, RenderSeeds,
                  Truncate, Register, Post, Report, Die, ComposeUp, Remove, vars, history
    <3> QED BY <1>3, <3>1 DEF ProvisionInv
  <2>2. CASE UNCHANGED vars
    <3>1. CASE Runs = {}
      BY <2>1, <2>2, <3>1
         DEF Uncrossed, AllFresh, Alone, OwnEntry, Rendered, Rooted, EntriesApart, EntriesComplete,
             Complete, Kept, vars, disk, instances, history
    <3>2. ASSUME NEW r \in Runs PROVE Uncrossed'
      BY <2>1, <2>2, QuietStep, SameJob DEF vars, instances, history
    <3> QED BY <3>1, <3>2
  <2>3. ASSUME NEW r \in Runs, Step(r) PROVE Uncrossed'
    BY <1>1, <1>3, <2>1, <2>3, ProvisionUncrossed, SeedOnlyUncrossed, RenderStepsUncrossed,
       RegisterUncrossed, RunsOnUncrossed DEF Step
  <2> QED BY <1>1, <1>3, <2>1, <2>2, <2>3, ComposeUpUncrossed, RemoveUncrossed DEF Next
<1> QED BY <1>2, <1>3 DEF ProvisionInv

LEMMA ProvisioningIsSafe == Spec => []ProvisionInv
BY InitProvision, NextProvision, PTL DEF Spec

\* The registry, the files and the runs keep their shape, and no slice leaves the pool.
THEOREM ProvisioningType == Spec => []TypeOK
BY ProvisioningIsSafe, PTL DEF ProvisionInv

LEMMA ApartIsDisjoint ==
  ASSUME TypeOK, NEW a, NEW b, a.slice \in Slices, b.slice \in Slices, Apart(a, b)
  PROVE  PortsOf(a.slice) \cap PortsOf(b.slice) = {}
<1>1. PICK s \in Slices, t \in Slices : s = a.slice /\ t = b.slice
  OBVIOUS
<1>2. s \in Nat \X Nat /\ t \in Nat \X Nat /\ ~(s[1] <= t[2] /\ t[1] <= s[2])
  BY <1>1, ProvisioningConstants DEF Apart, RangesOverlap
<1>3. \A p \in PortsOf(s) : p \notin PortsOf(t)
  BY <1>2 DEF PortsOf
<1> QED BY <1>1, <1>3

\* No two clients share a port while runs do not cross (validate_allocation).
THEOREM SlicesStayDisjoint == Spec => []SlicesAreDisjoint
<1>1. ProvisionInv => SlicesAreDisjoint
  <2> SUFFICES ASSUME ProvisionInv, ~overlapped, NEW c \in Clients, NEW d \in Clients, c # d,
                      book[c] # None, book[d] # None
               PROVE  /\ book[c].gateway # book[d].gateway
                      /\ PortsOf(book[c].slice) \cap PortsOf(book[d].slice) = {}
    BY DEF SlicesAreDisjoint
  <2>1. Apart(book[c], book[d]) /\ TypeOK
    BY DEF ProvisionInv, Uncrossed, EntriesApart
  <2>2. book[c].slice \in Slices /\ book[d].slice \in Slices
    BY <2>1 DEF TypeOK, Entry
  <2> QED BY <2>1, <2>2, ApartIsDisjoint DEF Apart
<1> QED BY <1>1, ProvisioningIsSafe, PTL

\* A client with an entry has all its files (the registry is written last).
THEOREM EnteredStaysComplete == Spec => []EnteredIsComplete
<1>1. ProvisionInv => EnteredIsComplete
  BY DEF ProvisionInv, Uncrossed, EntriesComplete, Complete, EnteredIsComplete
<1> QED BY <1>1, ProvisioningIsSafe, PTL

\* While runs do not cross, registry.json is what the runs entered and nobody deleted,
\* or, once a run is inside write_text or was killed there, empty: and then no other run
\* renders anything (load_registry raises).
THEOREM LossIsNoticed == Spec => []LossStopsEverything
<1>1. ProvisionInv => LossStopsEverything
  BY DEF ProvisionInv, Uncrossed, Kept, LossStopsEverything
<1> QED BY <1>1, ProvisioningIsSafe, PTL

\* The secrets on disk are those of the stack that runs (the comment on seed_only).
THEOREM LiveKeyStays == Spec => []LiveKeyOnDisk
<1>1. ProvisionInv => LiveKeyOnDisk
  BY DEF ProvisionInv, Uncrossed, Rooted, LiveKeyOnDisk
<1> QED BY <1>1, ProvisioningIsSafe, PTL

\* What a run reports as seeded is in its client's database, though runs cross, die and
\* lose answers: a key is minted for one client, so no post reaches another's gateway.
THEOREM ClaimsStayTrue == Spec => []ClaimsAreTrue
BY ProvisioningIsSafe, PTL DEF ProvisionInv

\* No client is given a proxy on a port of another client's entry while runs do not
\* cross; nothing is said of the client's own entry.
THEOREM PostsKeepOff == Spec => PostsAvoidOthers
<1>1. ProvisionInv /\ [Next]_vars =>
        \A c, d \in Clients : \A p \in Ports :
          rows'[c][p] > rows[c][p] /\ c # d /\ book[d] # None /\ ~overlapped
            => p \notin PortsOf(book[d].slice)
  <2> SUFFICES ASSUME ProvisionInv, [Next]_vars, NEW c \in Clients, NEW d \in Clients, NEW p \in Ports,
                      rows'[c][p] > rows[c][p], c # d, book[d] # None, ~overlapped
               PROVE  p \notin PortsOf(book[d].slice)
    OBVIOUS
  <2>0. TypeOK /\ rows \in [Clients -> [Ports -> 0..MaxRows]]
    BY DEF ProvisionInv, TypeOK
  <2>1. PICK r \in Runs : Post(r)
    <3>1. ~UNCHANGED rows
      BY <2>0, ProvisioningConstants
    <3>2. ASSUME NEW r \in Runs, Step(r) PROVE Post(r)
      BY <3>1, <3>2 DEF Step, Provision, SeedOnly, RenderDirectory, RenderCompose, RenderEnv, RenderSeeds,
                        Truncate, Register, Report, Die, instances
    <3> QED BY <3>1, <3>2 DEF Next, ComposeUp, Remove, vars, instances
  <2>2. PICK q \in job[r].todo : \/ \E e \in Clients : Reaches(r, e) /\ CreateProxy(e, q)
                               \/ UNCHANGED rows
    BY <2>0, <2>1, PostJob
  <2>3. PICK e \in Clients : Reaches(r, e) /\ CreateProxy(e, q)
    <3>1. ~UNCHANGED rows
      BY <2>0, ProvisioningConstants
    <3> QED BY <2>2, <3>1
  <2>4. job[r] \in Job /\ Running(r) /\ job[r].args \in Arguments
    BY <2>0, <2>1, RunningJob DEF Post
  <2>5. c = e /\ p = q
    <3>1. q \in Ports
      BY <2>4 DEF Job
    <3>2. c # e \/ p # q => rows'[c][p] = rows[c][p]
      BY <2>0, <2>3, <3>1 DEF CreateProxy
    <3> QED BY <2>0, <3>2, ProvisioningConstants
  <2>6. c = job[r].args.client
    BY <2>0, <2>3, <2>4, <2>5, PostReachesOwn DEF ProvisionInv
  <2>7. q \in PortsOf(job[r].args.slice)
    BY <2>4 DEF ProvisionInv, Progress
  <2>8. Apart(job[r].args, book[d])
    BY <2>4, <2>6 DEF ProvisionInv, Uncrossed, AllFresh, Fresh
  <2>9. job[r].args.slice \in Slices /\ book[d].slice \in Slices
    BY <2>0, <2>4 DEF Arguments, TypeOK, Entry
  <2>10. PortsOf(job[r].args.slice) \cap PortsOf(book[d].slice) = {}
    BY <2>0, <2>8, <2>9, ApartIsDisjoint
  <2> QED BY <2>5, <2>7, <2>10
<1> QED BY <1>1, ProvisioningIsSafe, PTL DEF Spec, PostsAvoidOthers

=============================================================================
