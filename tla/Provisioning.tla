---------------------------- MODULE Provisioning ----------------------------
(***************************************************************************)
(* scripts/provision_client.py, run by operators who share one instances   *)
(* directory.  A run reads the registry, refuses a collision, renders the  *)
(* client's files with fresh secrets and writes the registry it read back  *)
(* with its own entry; a seed-only run renders nothing and posts the ports *)
(* of a slice to the gateway, under the key it finds in the client's .env. *)
(*                                                                         *)
(* A run mints POSTGRES_PASSWORD and API_KEY together and never twice: the *)
(* run itself stands for the secrets it mints.                             *)
(***************************************************************************)
EXTENDS Integers, FiniteSets

CONSTANTS
    Runs,         \* invocations of the script
    Clients,      \* client ids
    Gateways,     \* host ports for a gateway
    Slices,       \* --proxy-ports, as <<first, last>>
    PortMin,      \* ENGAGE_PROXY_PORT_MIN
    PortMax,      \* ENGAGE_PROXY_PORT_MAX
    None,
    Over,         \* a run that has ended
    MaxRows       \* bound: proxies rows of one port in a client's database

ASSUME ProvisioningConstants ==
    /\ PortMin \in Nat /\ PortMax \in Nat /\ MaxRows \in Nat
    /\ \A s \in Slices : s \in Nat \X Nat /\ s[1] <= s[2]

VARIABLES
    registry,     \* client -> its entry in registry.json, None
    torn,         \* registry.json was emptied and is yet to be written
    files,        \* client -> instances/<client>/
    stack,        \* client -> the .env its containers were started from, None
    volume,       \* client -> the password its postgres volume knows, None
    rows,         \* client -> port -> rows of proxies
    job,          \* run -> where it is and what it holds
    claimed,      \* history: client -> ports that a run reported as seeded
    book,         \* history: client -> the entry a run wrote and nobody deleted since
    overlapped,   \* history: a run or an edit crossed another run's window
    died,         \* history: clients whose rendering was cut short
    removed       \* history: clients whose entry and directory were deleted

disk == <<registry, torn, files>>
instances == <<stack, volume, rows>>
history == <<claimed, book, overlapped, died, removed>>
vars == <<disk, instances, job, history>>

Ports == PortMin..PortMax
PortsOf(s) == s[1]..s[2]

\* A full run without PULS_PROXY_ID is, but for its exit code, a render-only
\* one; without a webhook URL it is refused.
Modes == {"full", "render-only", "seed-proxies"}

Arguments == [client : Clients, gateway : Gateways, slice : Slices, mode : Modes]

Entry == [gateway : Gateways, slice : Slices]
Env == [secret : Runs, gateway : Gateways]
Directory == [geo : BOOLEAN, compose : BOOLEAN, env : Env \cup {None},
              seeds : Slices \cup {None}]
Empty == [geo |-> FALSE, compose |-> FALSE, env |-> None, seeds |-> None]

Rendering == {"directory", "compose", "env", "seeds", "truncate", "write"}
Job == [at : Rendering \cup {"post"}, args : Arguments,
        key : Runs, read : [Clients -> Entry \cup {None}],
        todo : SUBSET Ports, missed : BOOLEAN]

ASSUME NoneIsNoRecord ==
    /\ None # Over /\ None \notin Entry /\ None \notin Env /\ None \notin Slices
    /\ None \notin Job /\ Over \notin Job /\ None \notin Runs

TypeOK ==
    /\ {registry, book} \subseteq [Clients -> Entry \cup {None}]
    /\ {torn, overlapped} \subseteq BOOLEAN
    /\ files \in [Clients -> Directory]
    /\ stack \in [Clients -> Env \cup {None}]
    /\ volume \in [Clients -> Runs \cup {None}]
    /\ rows \in [Clients -> [Ports -> 0..MaxRows]]
    /\ job \in [Runs -> Job \cup {None, Over}]
    /\ claimed \in [Clients -> SUBSET Ports]
    /\ {died, removed} \subseteq SUBSET Clients

Blank == [c \in Clients |-> None]

Init ==
    /\ registry = Blank /\ book = Blank
    /\ torn = FALSE /\ overlapped = FALSE
    /\ files = [c \in Clients |-> Empty]
    /\ stack = [c \in Clients |-> None]
    /\ volume = [c \in Clients |-> None]
    /\ rows = [c \in Clients |-> [p \in Ports |-> 0]]
    /\ job = [r \in Runs |-> None]
    /\ claimed = [c \in Clients |-> {}]
    /\ died = {} /\ removed = {}

At(r, places) == job[r] \notin {None, Over} /\ job[r].at \in places

\* A run whose view of the registry is older than what it will do with it.
Exposed(r) ==
    \/ At(r, Rendering)
    \/ At(r, {"post"}) /\ job[r].args.mode = "seed-proxies"

\* Mutant: a slice may begin at the port where another ends.
MutantRangesOverlap(a, b) == a[1] < b[2] /\ b[1] < a[2]

RangesOverlap(a, b) == a[1] <= b[2] /\ b[1] <= a[2]

\* Mutant: allow_existing skips the comparison with the others as well.
MutantAllocatable(a) ==
    /\ PortsOf(a.slice) \subseteq Ports
    /\ \/ a.mode = "seed-proxies"
       \/ /\ registry[a.client] = None
          /\ \A d \in Clients \ {a.client} :
                registry[d] # None =>
                    /\ registry[d].gateway # a.gateway
                    /\ ~RangesOverlap(a.slice, registry[d].slice)

\* validate_allocation does not raise.
Allocatable(a) ==
    /\ PortsOf(a.slice) \subseteq Ports
    /\ registry[a.client] = None \/ a.mode = "seed-proxies"
    /\ \A d \in Clients \ {a.client} :
          registry[d] # None =>
              /\ registry[d].gateway # a.gateway
              /\ ~RangesOverlap(a.slice, registry[d].slice)

Enter(r, a, place, secret) ==
    job' = [job EXCEPT ![r] =
              [at |-> place, args |-> a, key |-> secret, read |-> registry,
               todo |-> PortsOf(a.slice), missed |-> FALSE]]

\* Mutant: a registry that cannot be read counts as an empty one.
MutantProvision(r, a) ==
    /\ job[r] = None /\ a.mode # "seed-proxies"
    /\ Allocatable(a)
    /\ Enter(r, a, "directory", r)
    /\ overlapped' = (overlapped \/ \E q \in Runs : Exposed(q))
    /\ UNCHANGED <<disk, instances, claimed, book, died, removed>>

\* main() up to the rendering: json.load raises on a truncated file.
Provision(r, a) ==
    /\ job[r] = None /\ a.mode # "seed-proxies"
    /\ ~torn
    /\ Allocatable(a)
    /\ Enter(r, a, "directory", r)
    /\ overlapped' = (overlapped \/ \E q \in Runs : Exposed(q))
    /\ UNCHANGED <<disk, instances, claimed, book, died, removed>>

\* Mutant: a seed-only run renders the client again before it posts.
MutantSeedOnly(r, a) ==
    /\ job[r] = None /\ a.mode = "seed-proxies"
    /\ ~torn
    /\ Allocatable(a)
    /\ files[a.client].env # None
    /\ Enter(r, a, "directory", r)
    /\ overlapped' = (overlapped \/ \E q \in Runs : Exposed(q))
    /\ UNCHANGED <<disk, instances, claimed, book, died, removed>>

\* Seed-only: the key comes from the rendered .env, and nothing is written.
SeedOnly(r, a) ==
    /\ job[r] = None /\ a.mode = "seed-proxies"
    /\ ~torn
    /\ Allocatable(a)
    /\ files[a.client].env # None
    /\ Enter(r, a, "post", files[a.client].env.secret)
    /\ overlapped' = (overlapped \/ \E q \in Runs : At(q, Rendering))
    /\ UNCHANGED <<disk, instances, claimed, book, died, removed>>

Goto(r, place) == job' = [job EXCEPT ![r].at = place]
End(r) == job' = [job EXCEPT ![r] = Over]
WithEntry(entries, r) ==
    LET a == job[r].args IN
    [entries EXCEPT ![a.client] = [gateway |-> a.gateway, slice |-> a.slice]]

\* Mutant: the registry is written before the client's files.
MutantRenderDirectory(r) ==
    /\ At(r, {"directory"})
    /\ registry' = WithEntry(job[r].read, r) /\ book' = WithEntry(book, r)
    /\ files' = [files EXCEPT ![job[r].args.client].geo = TRUE]
    /\ Goto(r, "compose")
    /\ UNCHANGED <<torn, instances, claimed, overlapped, died, removed>>

\* The GeoLite files, real or empty; a copy that is there is left alone.
RenderDirectory(r) ==
    /\ At(r, {"directory"})
    /\ files' = [files EXCEPT ![job[r].args.client].geo = TRUE]
    /\ Goto(r, "compose")
    /\ UNCHANGED <<registry, torn, instances, history>>

RenderCompose(r) ==
    /\ At(r, {"compose"})
    /\ files' = [files EXCEPT ![job[r].args.client].compose = TRUE]
    /\ Goto(r, "env")
    /\ UNCHANGED <<registry, torn, instances, history>>

RenderEnv(r) ==
    /\ At(r, {"env"})
    /\ LET a == job[r].args IN
       files' = [files EXCEPT ![a.client].env =
                   [secret |-> job[r].key, gateway |-> a.gateway]]
    /\ Goto(r, "seeds")
    /\ UNCHANGED <<registry, torn, instances, history>>

RenderSeeds(r) ==
    /\ At(r, {"seeds"})
    /\ files' = [files EXCEPT ![job[r].args.client].seeds = job[r].args.slice]
    /\ Goto(r, "truncate")
    /\ UNCHANGED <<registry, torn, instances, history>>

\* write_text opens the registry for writing, which empties it ...
Truncate(r) ==
    /\ At(r, {"truncate"})
    /\ registry' = Blank /\ torn' = TRUE
    /\ Goto(r, "write")
    /\ UNCHANGED <<files, instances, history>>

\* ... and writes what the run read when it started, with its own entry.
Register(r) ==
    /\ At(r, {"write"})
    /\ registry' = WithEntry(job[r].read, r) /\ book' = WithEntry(book, r)
    /\ torn' = FALSE
    /\ IF job[r].args.mode = "full" THEN Goto(r, "post") ELSE End(r)
    /\ UNCHANGED <<files, instances, claimed, overlapped, died, removed>>

\* One POST of the list reaches the client that listens on the port and has
\* the key, if its database accepts the password it was started with.
Reaches(r, d) ==
    /\ stack[d] # None
    /\ stack[d].gateway = job[r].args.gateway
    /\ stack[d].secret = job[r].key
    /\ volume[d] = job[r].key

\* The gateway of d adds a row whether or not the URL has one.
CreateProxy(d, p) ==
    /\ rows[d][p] < MaxRows
    /\ rows' = [rows EXCEPT ![d][p] = @ + 1]

\* The answer may be lost after the row is there; the port is then a failure.
Post(r) ==
    /\ At(r, {"post"}) /\ job[r].todo # {}
    /\ \E p \in job[r].todo, answered \in BOOLEAN :
          /\ \A q \in job[r].todo : p <= q
          /\ \/ \E d \in Clients :
                   Reaches(r, d) /\ CreateProxy(d, p)
             \/ ~answered /\ UNCHANGED rows
          /\ job' = [job EXCEPT ![r].todo = @ \ {p},
                                ![r].missed = @ \/ ~answered]
    /\ UNCHANGED <<disk, stack, volume, history>>

\* Mutant: a request that fails is counted like one that is answered.
MutantReport(r) ==
    /\ At(r, {"post"}) /\ job[r].todo = {}
    /\ claimed' = [claimed EXCEPT ![job[r].args.client] =
                     @ \cup PortsOf(job[r].args.slice)]
    /\ End(r)
    /\ UNCHANGED <<disk, instances, book, overlapped, died, removed>>

\* _run_proxy_seeding returns 0 when every port was answered.
Report(r) ==
    /\ At(r, {"post"}) /\ job[r].todo = {}
    /\ claimed' = IF job[r].missed THEN claimed
                  ELSE [claimed EXCEPT ![job[r].args.client] =
                          @ \cup PortsOf(job[r].args.slice)]
    /\ End(r)
    /\ UNCHANGED <<disk, instances, book, overlapped, died, removed>>

Die(r) ==
    /\ At(r, Rendering \cup {"post"})
    /\ died' = IF At(r, Rendering) THEN died \cup {job[r].args.client} ELSE died
    /\ End(r)
    /\ UNCHANGED <<disk, instances, claimed, book, overlapped, removed>>

\* The operator: docker compose --env-file .env up -d, in the client's directory.
ComposeUp(c) ==
    /\ files[c].compose /\ files[c].env # None
    /\ stack[c] # files[c].env
    /\ \A d \in Clients \ {c} :
          stack[d] # None => stack[d].gateway # files[c].env.gateway
    /\ stack' = [stack EXCEPT ![c] = files[c].env]
    /\ volume' = [volume EXCEPT ![c] = IF @ = None THEN files[c].env.secret ELSE @]
    /\ UNCHANGED <<disk, rows, job, history>>

\* ... and what the refusal of a known client id tells the operator to do.
Remove(c) ==
    /\ registry[c] # None /\ ~torn
    /\ registry' = [registry EXCEPT ![c] = None]
    /\ files' = [files EXCEPT ![c] = Empty]
    /\ removed' = removed \cup {c}
    /\ book' = [book EXCEPT ![c] = None]
    /\ overlapped' = (overlapped \/ \E r \in Runs : At(r, Rendering \cup {"post"}))
    /\ UNCHANGED <<torn, instances, job, claimed, died>>

Step(r) ==
    \/ \E a \in Arguments : Provision(r, a) \/ SeedOnly(r, a)
    \/ RenderDirectory(r) \/ RenderCompose(r) \/ RenderEnv(r) \/ RenderSeeds(r)
    \/ Truncate(r) \/ Register(r)
    \/ Post(r) \/ Report(r) \/ Die(r)

Next == (\E r \in Runs : Step(r)) \/ (\E c \in Clients : ComposeUp(c) \/ Remove(c))

Spec == Init /\ [][Next]_vars

-----------------------------------------------------------------------------
\* As long as no two runs crossed, no two clients that were entered and not deleted
\* share a gateway port or a port of the proxy pool, whatever runs died on the way and
\* whether or not registry.json still has them (validate_allocation).
SlicesAreDisjoint ==
    ~overlapped => \A c, d \in Clients :
        c # d /\ book[c] # None /\ book[d] # None =>
            /\ book[c].gateway # book[d].gateway
            /\ PortsOf(book[c].slice) \cap PortsOf(book[d].slice) = {}

\* ... and such a client has all its files, which say what its entry says: a run that
\* dies leaves files without an entry, never the reverse.
EnteredIsComplete ==
    ~overlapped => \A c \in Clients :
        book[c] # None =>
            /\ files[c].geo /\ files[c].compose /\ files[c].env # None
            /\ files[c].env.gateway = book[c].gateway
            /\ files[c].seeds = book[c].slice

\* ... and registry.json is what the runs wrote and nobody deleted.  A run killed inside
\* write_text (provision_client.py:466) loses every entry; load_registry raises on what
\* is left (:76-79), so that no later run begins from an empty registry and gives the
\* same ports away again.
LossStopsEverything ==
    ~overlapped =>
        IF torn THEN registry = Blank /\ \A r \in Runs : At(r, Rendering) => At(r, {"write"})
                ELSE registry = book

\* ... and the .env of a client whose stack is up holds the key its gateway has and the
\* password its volume knows, if no run died while it rendered the client and the client
\* was never removed: a seed-only run mints no secrets over the live ones (the comment
\* on seed_only).  A render after a death or a removal does, for a volume that knows
\* the old ones.
LiveKeyOnDisk ==
    ~overlapped => \A c \in Clients \ (died \cup removed) :
        stack[c] # None => files[c].env = stack[c] /\ volume[c] = stack[c].secret

\* A port reported as seeded has a row in that client's database.
ClaimsAreTrue ==
    \A c \in Clients : \A p \in claimed[c] : rows[c][p] > 0

\* As long as no two runs crossed, no client is given a proxy on a port of another
\* client's entry, though a seed-only run takes its slice from the command line.  The
\* slice need not be within the client's own entry: nothing compares the two.
PostsAvoidOthers ==
    [][\A c, d \in Clients : \A p \in Ports :
         rows'[c][p] > rows[c][p] /\ c # d /\ book[d] # None /\ ~overlapped
             => p \notin PortsOf(book[d].slice)]_vars

=============================================================================
