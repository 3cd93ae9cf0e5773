------------------------------ MODULE LocalView ------------------------------
(***************************************************************************)
(* From documents to what a snapshot listener is told: the documents the   *)
(* SDK holds, the pending writes laid over them, the view of one query and *)
(* its listener.  Pure operators over records; FirestoreClient's handlers  *)
(* apply them.  A document's contents are the number of the write that     *)
(* made it, 0 when there is none; the query matches every key, as the      *)
(* apps' ordered collections do, and nothing deletes its documents.        *)
(***************************************************************************)
EXTENDS Naturals, Sequences

CONSTANT Keys

DocumentStates == {"none", "synced", "committed", "local"}
Document(version, write, state) ==
    [version |-> version, write |-> write, state |-> state]
Documents == [version : Nat, write : Nat, state : DocumentStates]
NoDocument == Document(0, 0, "none")

\* Mutant: Watch's document hides a pending write that is older.
SyncedFirst(cached, pending) ==
    IF pending = <<>> \/ cached.state = "synced" THEN cached
    ELSE Document(cached.version, pending[Len(pending)], "local")

\* A cached document under the pending writes on it.
LocalDocument(cached, pending) ==
    IF pending = <<>> THEN cached
    ELSE Document(cached.version, pending[Len(pending)], "local")

\* Mutant: an acknowledgement is cached even if Watch was faster.
AlwaysAcknowledged(cached, version, write) == Document(version, write, "committed")

\* ApplyBatchResult: an acknowledged write is cached unless Watch was faster.
Acknowledged(cached, version, write) ==
    IF cached.version < version THEN Document(version, write, "committed") ELSE cached

\* Mutant: Watch is believed whatever is known already.
AlwaysNews(cached, version) == version > 0

\* ApplyRemoteEvent for one document: outdated updates are ignored.
IsNews(cached, version) ==
    \/ version > cached.version
    \/ version = cached.version /\ cached.state \in {"committed", "local"}
Updated(cached, version, write) ==
    IF IsNews(cached, version) THEN Document(version, write, "synced") ELSE cached
-----------------------------------------------------------------------------
(* The view (View) and its one listener (QueryListener).  shown is what the
   listener's block has been told in all, by the changes of its events. *)

Views == [listening : BOOLEAN, docs : [Keys -> Documents], mutated : SUBSET Keys,
          current : BOOLEAN, sync : {"none", "local", "synced"}, raised : BOOLEAN,
          shown : [Keys -> Nat]]
NoView == [listening |-> FALSE, docs |-> [k \in Keys |-> NoDocument], mutated |-> {},
           current |-> FALSE, sync |-> "none", raised |-> FALSE,
           shown |-> [k \in Keys |-> 0]]
NewView == [NoView EXCEPT !.listening = TRUE]

\* A change that only Watch can confirm is held back until it does.
ShouldWaitForSyncedDocument(new, old) ==
    old.state = "local" /\ new.state = "committed"

\* ComputeDocumentChanges: the kind of change of one key.
ChangeOf(view, key, new) ==
    LET old == view.docs[key]
        oldPending == key \in view.mutated
        newPending == \/ new.state = "local"
                      \/ key \in view.mutated /\ new.state = "committed"
    IN  IF old = NoDocument
          THEN IF new = NoDocument THEN "none" ELSE "added"
        ELSE IF new = NoDocument
          THEN "removed"
        ELSE IF old.write # new.write
          THEN IF ShouldWaitForSyncedDocument(new, old) THEN "none" ELSE "modified"
        ELSE IF oldPending <=> newPending THEN "none" ELSE "metadata"

\* The block is told of an event: documents with changes other than metadata.
Told(shown, docs, changes) ==
    [k \in Keys |-> CASE changes[k] \in {"added", "modified"} -> docs[k].write
                      [] changes[k] = "removed" -> 0
                      [] OTHER -> shown[k]]

InitialChanges(docs) == [k \in Keys |-> IF docs[k] = NoDocument THEN "none" ELSE "added"]

\* The first event waits for the server unless there is something to show or
\* the client knows it is offline.
ShouldRaiseInitialEvent(view, online) ==
    \/ view.sync = "synced"
    \/ \E k \in Keys : view.docs[k] # NoDocument
    \/ online = "Offline"

RaiseInitialEvent(view) ==
    [view EXCEPT !.raised = TRUE,
                 !.shown = Told(@, view.docs, InitialChanges(view.docs))]

\* OnViewSnapshot, for a listener that does not ask for metadata.
OnViewSnapshot(view, changes, online) ==
    CASE ~view.raised /\ ShouldRaiseInitialEvent(view, online) -> RaiseInitialEvent(view)
      [] view.raised -> [view EXCEPT !.shown = Told(@, view.docs, changes)]
      [] OTHER -> view

\* Mutant: every document is renewed, held back or not.
RenewAll(view, changes, new, current, online) ==
    LET sync == IF current THEN "synced" ELSE "local"
        next == [view EXCEPT !.docs = new,
                             !.mutated = {k \in Keys : new[k].state = "local"},
                             !.current = current, !.sync = sync]
    IN  IF (\E k \in Keys : changes[k] # "none") \/ sync # view.sync
          THEN OnViewSnapshot(next, changes, online) ELSE next

\* ApplyChanges: documents, pending keys and the sync state are renewed; a
\* snapshot goes out if any of it is new.  No document is ever in limbo here.
ApplyChanges(view, changes, new, current, online) ==
    LET applied == {k \in Keys : changes[k] # "none"}
        sync == IF current THEN "synced" ELSE "local"
        next == [view EXCEPT
                   !.docs = [k \in Keys |-> IF k \in applied THEN new[k] ELSE @[k]],
                   !.mutated = {k \in Keys : IF k \in applied THEN new[k].state = "local"
                                             ELSE k \in @},
                   !.current = current,
                   !.sync = sync]
    IN  IF applied # {} \/ sync # view.sync
          THEN OnViewSnapshot(next, changes, online) ELSE next

\* EmitNewSnapshotsAndNotifyLocalStore: the documents of some keys may be new.
EmitNewSnapshots(view, keys, new, current, online) ==
    IF view.listening
      THEN ApplyChanges(view, [k \in Keys |-> IF k \in keys THEN ChangeOf(view, k, new[k])
                                              ELSE "none"], new, current, online)
      ELSE view

\* HandleOnlineStateChange: the view first, which hears of being offline, then
\* the listener, whose first event may be due.
HandleOnlineStateChange(view, before, online) ==
    LET seen == IF view.current /\ online = "Offline"
                  THEN ApplyChanges(view, [k \in Keys |-> "none"], view.docs, FALSE, before)
                  ELSE view
    IN  IF /\ view.listening /\ ~seen.raised /\ seen.sync # "none"
           /\ ShouldRaiseInitialEvent(seen, online)
          THEN RaiseInitialEvent(seen) ELSE seen
=============================================================================
