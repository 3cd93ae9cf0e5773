---------------------------- MODULE QueryListeners ----------------------------
(***************************************************************************)
(* Firestore's side of a query with snapshot listeners: the result of the  *)
(* query, and for every registration that is served the result it was last *)
(* told of and the results queued for it on the main queue.                *)
(***************************************************************************)
EXTENDS DocumentChanges

CONSTANTS
    NoReg,      \* a listener property that was never set
    MaxWrites,  \* bound on changes of the collection
    MaxLive     \* bound on registrations served at once

ASSUME ListenerAssumption ==
    /\ MaxWrites \in Nat /\ MaxLive \in Nat
    /\ NoReg \notin Nat

VARIABLES docs,    \* the query's result
          writes,  \* how often it changed
          live     \* [registration -> [seen : Views, queue : Seq(Views)]]

queryVars == <<docs, writes, live>>

QueryTypeOK ==
    /\ docs \in Views
    /\ writes \in 0..MaxWrites
    /\ DOMAIN live \subseteq Nat
    /\ \A r \in DOMAIN live : live[r] \in [seen : Views, queue : Seq(Views)]

QueryInit == docs \in Views /\ writes = 0 /\ live = <<>>

FreshReg == CHOOSE r \in 1..(Cardinality(DOMAIN live) + 1) : r \notin DOMAIN live

\* addSnapshotListener: the result as it stands is the first snapshot.
AddListener ==
    /\ Cardinality(DOMAIN live) < MaxLive
    /\ live' = [r \in DOMAIN live \cup {FreshReg} |->
                  IF r = FreshReg THEN [seen |-> {}, queue |-> <<docs>>] ELSE live[r]]

\* ListenerRegistration.remove(): what was queued is muted.
Removed(reg) == [r \in DOMAIN live \ {reg} |-> live[r]]

\* The collection changes in any way, at once or in a batch.
Write ==
    /\ writes < MaxWrites
    /\ writes' = writes + 1
    /\ docs' \in Views \ {docs}
    /\ live' = [r \in DOMAIN live |-> [live[r] EXCEPT !.queue = Append(@, docs')]]

Pending(reg) == reg \in DOMAIN live /\ live[reg].queue # <<>>

\* The changes of the snapshot the registration is told of next.
NextChanges(reg) == Changes(live[reg].seen, Head(live[reg].queue))

\* The main queue hands the next snapshot to the registration's block.
Deliver(reg) ==
    /\ Pending(reg)
    /\ live' = [live EXCEPT ![reg] = [seen |-> Head(@.queue), queue |-> Tail(@.queue)]]
==============================================================================
