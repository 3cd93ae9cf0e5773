---------------------------- MODULE OrderedWrites ----------------------------
(***************************************************************************)
(* What the apps may expect of their writes, without streams, pipelines or *)
(* retries.  The writes of a user reach the server in the order they were  *)
(* made, whoever is signed in meanwhile; a write may reach it again, along *)
(* with those after it, as long as it is not answered; an answer is given  *)
(* in that order, once, and is true: a success leaves the server with the  *)
(* write or a later one, a failure means the server never had it.          *)
(***************************************************************************)
EXTENDS Naturals, Sequences

CONSTANTS Users, Other, Keys, Writes

VARIABLES
    written,  \* the writes in the order they were made: [user, key, valid]
    pending,  \* [user -> writes not answered yet]
    log,      \* what the server has made its state of
    told      \* [write -> what the app was told]

vars == <<written, pending, log, told>>

Init ==
    /\ written = <<>>
    /\ pending = [u \in Users |-> <<>>]
    /\ log = <<>>
    /\ told = [w \in Writes |-> "none"]

New == Len(written) + 1
Answered(w, answer) ==
    told' = [told EXCEPT ![w] = IF @ = "waiting" THEN answer ELSE @]

Make(u, key, valid) ==
    /\ New \in Writes
    /\ written' = Append(written, [user |-> u, key |-> key, valid |-> valid])
    /\ pending' = [pending EXCEPT ![u] = Append(@, New)]
    /\ told' = [told EXCEPT ![New] = "waiting"]
    /\ UNCHANGED log

MakeElsewhere(key) ==
    /\ New \in Writes
    /\ written' = Append(written, [user |-> Other, key |-> key, valid |-> TRUE])
    /\ log' = Append(log, New)
    /\ UNCHANGED <<pending, told>>

\* Write w is the last of user u to have reached the server.
IsLast(u, w) ==
    \E v \in DOMAIN log :
        /\ log[v] = w
        /\ \A later \in DOMAIN log : later > v => written[log[later]].user # u

\* The server starts over with the first pending write, or goes on with the
\* next one, and never goes past one it refuses.
Reach(u, i) ==
    /\ i \in DOMAIN pending[u]
    /\ \A j \in 1..i : written[pending[u][j]].valid
    /\ i = 1 \/ IsLast(u, pending[u][i - 1])
    /\ log' = Append(log, pending[u][i])
    /\ UNCHANGED <<written, pending, told>>

Succeed(u) ==
    /\ pending[u] # <<>>
    /\ \E i \in DOMAIN log : log[i] = Head(pending[u])
    /\ \E i \in DOMAIN pending[u] : IsLast(u, pending[u][i])
    /\ Answered(Head(pending[u]), "ok")
    /\ pending' = [pending EXCEPT ![u] = Tail(@)]
    /\ UNCHANGED <<written, log>>

Fail(u) ==
    /\ pending[u] # <<>>
    /\ \A i \in DOMAIN log : log[i] # Head(pending[u])
    /\ ~written[Head(pending[u])].valid
    /\ Answered(Head(pending[u]), "failed")
    /\ pending' = [pending EXCEPT ![u] = Tail(@)]
    /\ UNCHANGED <<written, log>>

\* The app is killed; nobody waits for answers any more.
Forget ==
    /\ told' = [w \in Writes |-> IF told[w] = "waiting" THEN "lost" ELSE told[w]]
    /\ UNCHANGED <<written, pending, log>>

Next ==
    \/ \E u \in Users, key \in Keys, valid \in BOOLEAN : Make(u, key, valid)
    \/ \E key \in Keys : MakeElsewhere(key)
    \/ \E u \in Users : \E i \in DOMAIN pending[u] : Reach(u, i)
    \/ \E u \in Users : Succeed(u) \/ Fail(u)
    \/ Forget

Spec == Init /\ [][Next]_vars
=============================================================================
