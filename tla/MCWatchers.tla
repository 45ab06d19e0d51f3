----------------------------- MODULE MCWatchers -----------------------------
(***************************************************************************)
(* An instance of Watchers for TLC: two processes with an account each,    *)
(* numbered as in compose.client.template.yml.  A channel's post is heard  *)
(* by both accounts, also after its key expired; each of them hears a      *)
(* message of one user besides, whom a worker may store meanwhile.         *)
(***************************************************************************)
EXTENDS Watchers

CONSTANTS p1, p2, post, first, second, user

Numbered == [p \in Processes |-> IF p = p1 THEN 1 ELSE 2]
Two == [p \in Processes |-> 2]

SenderOf == [m \in Messages |-> IF m = post THEN None ELSE user]
HeardBy == [a \in Accounts |-> IF a = 1 THEN {post, first} ELSE {post, second}]
PostExpires == [m \in Messages |-> IF m = post THEN 2 ELSE 1]

=============================================================================
