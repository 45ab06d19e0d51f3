------------------------------ MODULE Watchers ------------------------------
(***************************************************************************)
(* The watcher processes: each claims the active accounts of its residue   *)
(* class, connects a client per account once, and from then on forwards    *)
(* the messages those accounts hear.  A message several clients hear is    *)
(* forwarded by the handler that sets its key first.  The workers of the   *)
(* task queue store users in the same table as the handlers do.            *)
(*                                                                         *)
(* A process takes its number and the total from its environment; each is  *)
(* 1 where the environment does not set it, and nothing compares them.     *)
(*                                                                         *)
(* The row that a handler commits is where WebhookDelivery begins.         *)
(***************************************************************************)
EXTENDS Integers, FiniteSets

CONSTANTS
    Processes,
    Number,       \* process -> its WATCHER_PROCESS_ID
    Total,        \* process -> its WATCHER_TOTAL, one at least
    Accounts,     \* ids
    ShardSize,
    Messages,     \* what a (chat, message id) names
    Sender,       \* message -> the user who sent it, None for a channel's post
    Inbox,        \* account -> the messages it hears
    None,
    MaxSightings  \* bound: message -> how often its key is set

ASSUME WatcherConstants ==
    /\ IsFiniteSet(Processes)
    /\ Number \in [Processes -> Int] /\ Total \in [Processes -> Nat \ {0}]
    /\ IsFiniteSet(Accounts) /\ Accounts \subseteq Nat
    /\ ShardSize \in Nat \ {0} /\ MaxSightings \in [Messages -> Nat]
    /\ Inbox \in [Accounts -> SUBSET Messages]

VARIABLES
    active,       \* accounts whose status is active
    phase,        \* process -> down, waiting (for an account), watching
    shard,        \* process -> rotation_mgr.current_shard
    key,          \* number -> its watcher:shard key, {} when there is none
    todo,         \* process -> claimed accounts whose client is yet to be started
    clients,      \* process -> accounts whose client is started
    seen,         \* messages whose seen key is set
    step,         \* handler -> where its run of handle_new_message is
    peers,        \* users with a global_peers row
    storing,      \* users whose row a worker inserted and has not committed
    resolved,     \* history: users whose row was committed by a worker
    rows,         \* message -> webhook rows committed for it
    sightings,    \* history: message -> how often its key was set
    lost,         \* history: message -> handlers that died or raised on it
    raced         \* history: message -> handlers whose insert of the sender raised

fleet == <<active, phase, shard, key, todo, clients>>
inbound == <<seen, step, peers, storing, resolved, rows, sightings, lost, raced>>
vars == <<fleet, inbound>>

Numbers == {Number[p] : p \in Processes}

\* handle_new_message of one client for one message: <<process, account, message>>
Handlers == {h \in Processes \X Accounts \X Messages : h[3] \in Inbox[h[2]]}
Steps == {"idle", "seen", "absent", "flushed", "ready"}
Senders == {Sender[m] : m \in Messages} \ {None}
Busy(m) == {h \in Handlers : h[3] = m /\ step[h] # "idle"}

TypeOK ==
    /\ active \subseteq Accounts
    /\ phase \in [Processes -> {"down", "waiting", "watching"}]
    /\ {shard, todo, clients} \subseteq [Processes -> SUBSET Accounts]
    /\ key \in [Numbers -> SUBSET Accounts]
    /\ seen \subseteq Messages
    /\ step \in [Handlers -> Steps]
    /\ {peers, storing, resolved} \subseteq SUBSET Senders
    /\ {rows, sightings, lost, raced} \subseteq [Messages -> Nat]
    /\ \A h \in Handlers : step[h] # "idle" => h[2] \in clients[h[1]]

Nobody == [p \in Processes |-> {}]
Never == [m \in Messages |-> 0]

Init ==
    /\ active \in SUBSET Accounts
    /\ phase = [p \in Processes |-> "down"]
    /\ shard = Nobody /\ todo = Nobody /\ clients = Nobody
    /\ key = [n \in Numbers |-> {}]
    /\ seen = {} /\ peers = {} /\ storing = {} /\ resolved = {}
    /\ step = [h \in Handlers |-> "idle"]
    /\ rows = Never /\ sightings = Never /\ lost = Never /\ raced = Never

-----------------------------------------------------------------------------
(* Shards and processes                                                     *)

\* Mutant: every process claims the whole fleet.
MutantMine(p) == active

\* the active accounts of the process's residue class
Mine(p) == {a \in active : a % Total[p] = (Number[p] - 1) % Total[p]}

\* SHARD_SIZE of them, by their last activity, which is left out
Selections(p) == {s \in SUBSET Mine(p) : \/ Cardinality(s) = ShardSize
                                         \/ s = Mine(p) /\ Cardinality(s) < ShardSize}

Publish(p, s) ==
    /\ shard' = [shard EXCEPT ![p] = s]
    /\ key' = [key EXCEPT ![Number[p]] = s]

\* Mutant: a waiting process is content with the empty shard it has.
MutantClaim(p) ==
    /\ phase[p] = "down"
    /\ \E s \in Selections(p) :
          /\ Publish(p, s)
          /\ todo' = [todo EXCEPT ![p] = s]
          /\ phase' = [phase EXCEPT ![p] = IF s = {} THEN "waiting" ELSE "watching"]
    /\ UNCHANGED <<active, clients, inbound>>

\* A starting or a waiting process claims its shard; it waits while that is empty.
Claim(p) ==
    /\ phase[p] \in {"down", "waiting"}
    /\ \E s \in Selections(p) :
          /\ Publish(p, s)
          /\ todo' = [todo EXCEPT ![p] = s]
          /\ phase' = [phase EXCEPT ![p] = IF s = {} THEN "waiting" ELSE "watching"]
    /\ UNCHANGED <<active, clients, inbound>>

\* A client of the shard is started, or could not be and is left out.
Connect(p, a) ==
    /\ a \in todo[p]
    /\ todo' = [todo EXCEPT ![p] = @ \ {a}]
    /\ clients' \in {clients, [clients EXCEPT ![p] = @ \cup {a}]}
    /\ UNCHANGED <<active, phase, shard, key, inbound>>

\* The rotation selects a new shard.  The clients remain.
Rotate(p) ==
    /\ phase[p] # "down"
    /\ \E s \in Selections(p) : Publish(p, s)
    /\ UNCHANGED <<active, phase, todo, clients, inbound>>

\* It withdraws the key first, and may raise after that.
RotateFails(p) ==
    /\ phase[p] # "down"
    /\ key' = [key EXCEPT ![Number[p]] = {}]
    /\ UNCHANGED <<active, phase, shard, todo, clients, inbound>>

Heartbeat(p) ==
    /\ phase[p] = "watching"
    /\ key' = [key EXCEPT ![Number[p]] = shard[p]]
    /\ UNCHANGED <<active, phase, shard, todo, clients, inbound>>

\* A key that nobody renewed for two hours: the process is dead, or its loop of
\* heartbeats is.
Expire(n) ==
    /\ key[n] # {}
    /\ key' = [key EXCEPT ![n] = {}]
    /\ UNCHANGED <<active, phase, shard, todo, clients, inbound>>

\* Onboarding, flood control, sleep: the status of an account changes.
ChangeStatus(a) ==
    /\ active' = IF a \in active THEN active \ {a} ELSE active \cup {a}
    /\ UNCHANGED <<phase, shard, key, todo, clients, inbound>>

\* The process exits on memory pressure, or dies.  So do the handlers of its clients.
Exit(p) ==
    /\ phase[p] # "down"
    /\ phase' = [phase EXCEPT ![p] = "down"]
    /\ shard' = [shard EXCEPT ![p] = {}]
    /\ todo' = [todo EXCEPT ![p] = {}]
    /\ clients' = [clients EXCEPT ![p] = {}]
    /\ step' = [h \in Handlers |-> IF h[1] = p THEN "idle" ELSE step[h]]
    /\ lost' = [m \in Messages |-> lost[m] + Cardinality({h \in Busy(m) : h[1] = p})]
    /\ UNCHANGED <<active, key, seen, peers, storing, resolved, rows, sightings, raced>>

-----------------------------------------------------------------------------
(* handle_new_message                                                       *)

Bump(count, m) == [count EXCEPT ![m] = @ + 1]
Go(h, to) == step' = [step EXCEPT ![h] = to]

\* Mutant: a post without a sending user is dropped.
MutantSee(h) == LET m == h[3] IN
    /\ h[2] \in clients[h[1]]
    /\ m \notin seen /\ step[h] = "idle"
    /\ seen' = seen \cup {m}
    /\ sightings' = Bump(sightings, m)
    /\ Go(h, IF Sender[m] = None THEN "idle" ELSE "seen")
    /\ UNCHANGED <<fleet, peers, storing, resolved, rows, lost, raced>>

\* The first handler of a message sets its key (SET NX); the others return.
See(h) == LET m == h[3] IN
    /\ h[2] \in clients[h[1]]
    /\ m \notin seen /\ step[h] = "idle"
    /\ seen' = seen \cup {m}
    /\ sightings' = Bump(sightings, m)
    /\ Go(h, IF Sender[m] = None THEN "ready" ELSE "seen")
    /\ UNCHANGED <<fleet, peers, storing, resolved, rows, lost, raced>>

\* The sender is resolved and looked up; an unresolved one is not stored.
Look(h) ==
    /\ step[h] = "seen"
    /\ \E to \in {"absent", "ready"} :
          /\ Sender[h[3]] \in peers => to = "ready"
          /\ Go(h, to)
    /\ UNCHANGED <<fleet, seen, peers, storing, resolved, rows, sightings, lost, raced>>

\* peer_id is unique: an insert waits for another one of the user to be committed or
\* rolled back
InsertMayGo(s) ==
    /\ s \notin storing
    /\ \A h \in Handlers : step[h] = "flushed" => Sender[h[3]] # s

\* Mutant: the insert does not wait for another one but raises at once.
MutantFlush(h) == LET s == Sender[h[3]] IN
    /\ step[h] = "absent"
    /\ IF s \in peers \/ ~InsertMayGo(s)
         THEN Go(h, "idle") /\ raced' = Bump(raced, h[3])
         ELSE Go(h, "flushed") /\ UNCHANGED raced
    /\ UNCHANGED <<fleet, seen, peers, storing, resolved, rows, sightings, lost>>

\* The insert of an absent sender raises if the sender has a row by then.
Flush(h) == LET s == Sender[h[3]] IN
    /\ step[h] = "absent" /\ InsertMayGo(s)
    /\ IF s \in peers
         THEN Go(h, "idle") /\ raced' = Bump(raced, h[3])
         ELSE Go(h, "flushed") /\ UNCHANGED raced
    /\ UNCHANGED <<fleet, seen, peers, storing, resolved, rows, sightings, lost>>

\* The chat is resolved; the webhook's row, and the sender's, are committed.
Forward(h) ==
    /\ step[h] \in {"flushed", "ready"}
    /\ Go(h, "idle")
    /\ rows' = Bump(rows, h[3])
    /\ peers' = IF step[h] = "flushed" THEN peers \cup {Sender[h[3]]} ELSE peers
    /\ UNCHANGED <<fleet, seen, storing, resolved, sightings, lost, raced>>

\* Telegram, Redis or the database raises; the error is logged and the update is gone.
Raise(h) ==
    /\ step[h] # "idle"
    /\ Go(h, "idle")
    /\ lost' = Bump(lost, h[3])
    /\ UNCHANGED <<fleet, seen, peers, storing, resolved, rows, sightings, raced>>

\* The key of a message expires after an hour.
Forget(m) ==
    /\ m \in seen /\ sightings[m] < MaxSightings[m]
    /\ seen' = seen \ {m}
    /\ UNCHANGED <<fleet, step, peers, storing, resolved, rows, sightings, lost, raced>>

-----------------------------------------------------------------------------
(* upsert_peer, in a resolve_username task of a worker                      *)

\* A user the worker did not find is inserted ...
WorkerInserts(s) ==
    /\ s \notin peers /\ InsertMayGo(s)
    /\ storing' = storing \cup {s}
    /\ UNCHANGED <<fleet, seen, step, peers, resolved, rows, sightings, lost, raced>>

\* ... and committed with the end of the task, unless that raises or the worker dies.
WorkerEnds(s) ==
    /\ s \in storing
    /\ storing' = storing \ {s}
    /\ \/ peers' = peers \cup {s} /\ resolved' = resolved \cup {s}
       \/ UNCHANGED <<peers, resolved>>
    /\ UNCHANGED <<fleet, seen, step, rows, sightings, lost, raced>>

-----------------------------------------------------------------------------

Tends(p) == Claim(p) \/ \E a \in Accounts : Connect(p, a)
Handles(h) == See(h) \/ Look(h) \/ Flush(h) \/ Forward(h) \/ Raise(h)

Next ==
    \/ \E p \in Processes :
          \/ Tends(p) \/ Rotate(p) \/ RotateFails(p) \/ Heartbeat(p) \/ Exit(p)
    \/ \E n \in Numbers : Expire(n)
    \/ \E a \in Accounts : ChangeStatus(a)
    \/ \E h \in Handlers : Handles(h)
    \/ \E m \in Messages : Forget(m)
    \/ \E s \in Senders : WorkerInserts(s) \/ WorkerEnds(s)

\* Docker restarts a process (`restart: unless-stopped` of compose.client.template.yml),
\* and a waiting one looks again every minute.  Nothing makes a message arrive, a
\* rotation happen or an account change.
Fairness == \A p \in Processes : WF_vars(Tends(p))

Spec == Init /\ [][Next]_vars /\ Fairness

-----------------------------------------------------------------------------
(* Properties                                                               *)

\* Processes that share one total and claim different residue classes, as the four
\* of compose.client.template.yml do.  Those of docker-compose.yml do not: it sets
\* neither variable, and each of its four watchers claims the whole fleet.
NumberedApart ==
    \A p, q \in Processes : p # q =>
        /\ Total[p] = Total[q]
        /\ (Number[p] - 1) % Total[p] # (Number[q] - 1) % Total[p]

\* rotation_manager.py:35-37: where the processes are numbered apart no account is
\* connected, claimed or published by two of them, whatever rotated, died or
\* restarted, and with keys of the dead about.
OneOwner ==
    NumberedApart =>
        \A p, q \in Processes : p # q =>
            (shard[p] \cup key[Number[p]] \cup todo[p] \cup clients[p])
                \cap (shard[q] \cup key[Number[q]] \cup todo[q] \cup clients[q]) = {}

\* update_handler.py:34-43: each time the key of a message is set exactly one handler
\* answers for it: the message has a row of its own, is under way, or was dropped by
\* that handler, and no other account's copy makes up for it.
EverySightingIsAccounted ==
    \A m \in Messages :
        sightings[m] = rows[m] + Cardinality(Busy(m)) + lost[m] + raced[m]

\* update_handler.py:54-66: two insert one unknown user.  A message is dropped for it
\* only when the other one's row stands: another message of the sender was forwarded,
\* or a worker stored the sender.  Two that fail never cancel each other out.
RaceHasAWinner ==
    \A m \in Messages : raced[m] > 0 =>
        \/ Sender[m] \in resolved
        \/ \E w \in Messages : Sender[w] = Sender[m] /\ rows[w] > 0

\* watcher_process.py:57-62: a process does not wait for ever for accounts it has.
EmptyShardEnds ==
    \A p \in Processes : []<>(Mine(p) = {} \/ phase[p] = "watching")

=============================================================================
