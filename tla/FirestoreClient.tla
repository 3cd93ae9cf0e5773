--------------------------- MODULE FirestoreClient ---------------------------
(***************************************************************************)
(* A device's Firestore SDK with a snapshot listener: the write pipeline,  *)
(* the cache of remote documents, the watch stream and the online state    *)
(* composed.  A write is shown at once, before the server has it; the two  *)
(* streams then confirm it independently, in either order, and either may  *)
(* break.  The steps of WritePipeline are taken as they are; each handler  *)
(* that also touches documents says here what becomes of them.             *)
(*                                                                         *)
(* Watch is external: it acknowledges a listen, then sends the documents   *)
(* that changed since the listen's resume token and marks it current, then *)
(* whatever changes.  WatchChangeAggregator's bookkeeping is abstracted to *)
(* whole consistent snapshots.                                             *)
(***************************************************************************)
EXTENDS WritePipeline

CONSTANT MaxListens  \* bound on addSnapshotListener

INSTANCE LocalView

ASSUME ClientAssumption == MaxListens \in Nat

VARIABLES
    cache,     \* [key -> document], RemoteDocumentCache, on disk
    resume,    \* version of the query's resume token, on disk
    view,      \* the query's view and listener
    watch,     \* the watch stream's Stream::state_
    watchIdle, \* its idleness_timer_ is set
    target,    \* where the server is with the listen
    sent,      \* version up to which it has sent on this stream
    events,    \* what is on its way from it
    online,    \* OnlineStateTracker::state_
    failures,  \* watch_stream_failures_
    timer,     \* online_state_timer_ is set
    listens

watchVars == <<watch, watchIdle, target, sent, events>>
onlineVars == <<online, failures, timer>>
docVars == <<cache, resume, view>>
vars == <<pipelineVars, docVars, watchVars, onlineVars, listens>>

Nothing == [kind |-> "message", from |-> 0, to |-> 0]

TypeOK ==
    /\ PipelineTypeOK
    /\ cache \in [Keys -> Documents]
    /\ resume \in Nat
    /\ view \in Views
    /\ watch \in StreamStates \ {"ready"} /\ watchIdle \in BOOLEAN
    /\ target \in {"none", "requested", "acked", "current"}
    /\ sent \in Nat
    /\ events \in Seq([kind : {"message", "snapshot"}, from : Nat, to : Nat])
    /\ online \in {"Unknown", "Online", "Offline"}
    /\ failures \in Nat /\ timer \in BOOLEAN
    /\ listens \in 0..MaxListens

Init ==
    /\ PipelineInit
    /\ cache = [k \in Keys |-> NoDocument] /\ resume = 0
    /\ view = NoView
    /\ watch = "initial" /\ watchIdle = FALSE
    /\ target = "none" /\ sent = 0 /\ events = <<>>
    /\ online = "Unknown" /\ failures = 0 /\ timer = FALSE
    /\ listens = 0
-----------------------------------------------------------------------------
(* Documents. *)

LastOf(S) == CHOOSE m \in S : \A n \in S : n <= m

PendingOn(key, queue) ==
    LET on == {i \in DOMAIN queue : written'[queue[i].write].key = key}
    IN  IF on = {} THEN <<>> ELSE <<queue[LastOf(on)].write>>

\* The local view of every key, with this cache and the next queue.
LocalDocuments(docs) ==
    [k \in Keys |-> LocalDocument(docs[k], PendingOn(k, queues'[currentUser']))]

KeysIn(queue) == {written[queue[i].write].key : i \in DOMAIN queue}

\* The last version of a key no later than version.
VersionAt(key, version) ==
    LET on == {v \in 1..version : written[committed[v]].key = key}
    IN  IF on = {} THEN 0 ELSE LastOf(on)
WriteAt(key, version) ==
    IF VersionAt(key, version) = 0 THEN 0 ELSE committed[VersionAt(key, version)]

\* The keys whose documents may have changed reach the view.
Emit(keys) ==
    view' = EmitNewSnapshots(view, keys, LocalDocuments(cache'), view.current, online)
-----------------------------------------------------------------------------
(* Writes: the pipeline's steps and what they do to the documents. *)

Write(key, valid) ==
    /\ WriteMutations(key, valid)
    /\ UNCHANGED <<cache, resume, watchVars, onlineVars, listens>>
    /\ Emit({key})

HandleSuccessfulWrite ==
    LET write == Head(pipeline).write
        key == written[write].key
    IN  /\ OnWriteStreamMutationResult
        /\ cache' = [cache EXCEPT ![key] = Acknowledged(@, Head(answers), write)]
        /\ UNCHANGED <<resume, watchVars, onlineVars, listens>>
        /\ Emit({key})

HandleRejectedWrite ==
    /\ HandleWriteError
    /\ UNCHANGED <<cache, resume, watchVars, onlineVars, listens>>
    /\ Emit({written[Head(pipeline).write].key})

\* The steps of the pipeline that touch no document.
PipelineOnly ==
    /\ \/ BackoffElapses \/ OnStreamStart \/ OnWriteStreamHandshakeComplete \/ Commit
       \/ OnWriteStreamClose \/ IdleTimeout
       \/ \E key \in Keys : CommitOther(key)
    /\ UNCHANGED <<docVars, watchVars, onlineVars, listens>>
-----------------------------------------------------------------------------
(* The online state. *)

\* SetAndBroadcast, on a view already brought to v.
SetAndBroadcast(new, v) ==
    /\ online' = new
    /\ view' = IF new = online THEN v ELSE HandleOnlineStateChange(v, online, new)

\* UpdateState: the timer is cancelled, the failures are forgotten.
UpdateState(new, v) ==
    /\ timer' = FALSE /\ failures' = 0
    /\ SetAndBroadcast(new, v)

\* HandleWatchStreamStart: until a first failure the state is open, for as long
\* as the timer runs.
HandleWatchStreamStart(v) ==
    /\ UNCHANGED failures
    /\ IF failures = 0 THEN timer' = TRUE /\ SetAndBroadcast("Unknown", v)
                       ELSE UNCHANGED <<timer, online>> /\ view' = v

\* HandleWatchStreamFailure and the start of the next attempt: a connection that
\* worked gets another chance, one that did not means offline.
HandleWatchStreamFailure ==
    IF online = "Online"
      THEN /\ timer' = TRUE /\ failures' = failures
           /\ SetAndBroadcast("Unknown", view)
      ELSE /\ timer' = FALSE /\ failures' = failures + 1
           /\ SetAndBroadcast("Offline", view)

OnlineStateTimeout ==
    /\ timer
    /\ timer' = FALSE
    /\ SetAndBroadcast("Offline", view)
    /\ UNCHANGED <<pipelineVars, cache, resume, watchVars, failures, listens>>
-----------------------------------------------------------------------------
(* Listening. *)

\* AddQueryListener: the view is made of what is at hand and may be shown at
\* once; the listen goes out on the stream, or the stream is started.
Listen ==
    LET docs == LocalDocuments(cache)
        made == EmitNewSnapshots(NewView, Keys, docs, FALSE, online)
    IN  /\ ~view.listening /\ listens < MaxListens
        /\ listens' = listens + 1
        /\ UNCHANGED <<pipelineVars, cache, resume, events>>
        /\ watch' = StartedFrom(watch)
        /\ IF watch = "open"
             THEN target' = "requested" /\ sent' = resume /\ watchIdle' = FALSE
             ELSE UNCHANGED <<target, sent, watchIdle>>
        /\ IF watch \in {"initial", "error"}
             THEN HandleWatchStreamStart(made)
             ELSE view' = made /\ UNCHANGED onlineVars

\* RemoveQueryListener: what is on its way for the target is only a sign of life.
StopListening ==
    /\ view.listening
    /\ target' = "none"
    /\ events' = [i \in DOMAIN events |-> Nothing]
    /\ UNCHANGED <<pipelineVars, cache, resume, watch, sent, listens>>
    /\ IF watch = "open"
         THEN watchIdle' = TRUE /\ view' = NoView /\ UNCHANGED onlineVars
         ELSE UNCHANGED watchIdle /\ UpdateState("Unknown", NoView)
-----------------------------------------------------------------------------
(* The watch stream. *)

WatchBackoffElapses ==
    /\ watch = "backoff"
    /\ watch' = "starting"
    /\ UNCHANGED <<pipelineVars, docVars, watchIdle, target, sent, events, onlineVars, listens>>

OnWatchStreamOpen ==
    /\ watch = "starting"
    /\ watch' = "open"
    /\ IF view.listening THEN target' = "requested" /\ sent' = resume
                         ELSE UNCHANGED <<target, sent>>
    /\ UNCHANGED <<pipelineVars, docVars, watchIdle, events, onlineVars, listens>>

\* The watch stream breaks, before or after it was open.
OnWatchStreamClose ==
    /\ watch \in {"starting", "open"}
    /\ faults < MaxFaults
    /\ faults' = faults + 1
    /\ watch' = IF view.listening THEN "backoff" ELSE "error"
    /\ watchIdle' = FALSE /\ target' = "none" /\ events' = <<>>
    /\ UNCHANGED <<written, clientVars, streamVars, committed,
                   cache, resume, sent, listens>>
    /\ IF view.listening THEN HandleWatchStreamFailure ELSE UpdateState("Unknown", view)

\* The idle timer stops the stream, which must not be needed.
WatchIdleTimeout ==
    /\ watchIdle
    /\ watch' = IF view.listening THEN "starting" ELSE "initial"
    /\ watchIdle' = FALSE /\ target' = "none" /\ events' = <<>>
    /\ UNCHANGED <<pipelineVars, cache, resume, sent, listens>>
    /\ UpdateState("Unknown", view)

\* OnWatchStreamChange: any message means online; a consistent snapshot no older
\* than the last one renews the cache, and with it the view, which is current.
OnWatchStreamChange ==
    LET event == Head(events)
        keys == {k \in Keys : VersionAt(k, event.to) > event.from}
        news == {k \in keys : IsNews(cache[k], VersionAt(k, event.to))}
        now == HandleOnlineStateChange(view, online, "Online")
    IN  /\ events # <<>>
        /\ events' = Tail(events)
        /\ online' = "Online" /\ timer' = FALSE /\ failures' = 0
        /\ UNCHANGED <<pipelineVars, watch, watchIdle, target, sent, listens>>
        /\ IF event.kind = "snapshot" /\ event.to >= resume
             THEN /\ resume' = event.to
                  /\ cache' = [k \in Keys |->
                                 IF k \in keys
                                   THEN Updated(cache[k], VersionAt(k, event.to),
                                                WriteAt(k, event.to))
                                   ELSE cache[k]]
                  /\ view' = EmitNewSnapshots(now, news, LocalDocuments(cache'), TRUE,
                                              "Online")
             ELSE view' = now /\ UNCHANGED <<cache, resume>>

\* Watch, the server's side: an acknowledgement, then snapshots.
WatchAcknowledges ==
    /\ target = "requested"
    /\ target' = "acked"
    /\ events' = Append(events, Nothing)
    /\ UNCHANGED <<pipelineVars, docVars, watch, watchIdle, sent, onlineVars, listens>>

WatchSends ==
    /\ target = "acked" \/ (target = "current" /\ sent < Len(committed))
    /\ target' = "current"
    /\ events' = Append(events, [kind |-> "snapshot", from |-> sent, to |-> Len(committed)])
    /\ sent' = Len(committed)
    /\ UNCHANGED <<pipelineVars, docVars, watch, watchIdle, onlineVars, listens>>
-----------------------------------------------------------------------------
(* The customer and the app. *)

\* The pipeline changes hands; documents with writes of either user may look
\* different now; the watch stream is torn down and started again.
CredentialChange(u) ==
    LET closed == IF watch = "error" THEN "error" ELSE "initial"
        keys == IF u = currentUser THEN {} ELSE KeysIn(Queue) \cup KeysIn(queues[u])
        seen == EmitNewSnapshots(view, keys, LocalDocuments(cache), view.current, online)
    IN  /\ HandleCredentialChange(u)
        /\ watch' = IF view.listening THEN StartedFrom(closed) ELSE closed
        /\ watchIdle' = FALSE /\ target' = "none" /\ events' = <<>>
        /\ timer' = view.listening /\ failures' = 0
        /\ SetAndBroadcast("Unknown", seen)
        /\ UNCHANGED <<cache, resume, sent, listens>>

Restart ==
    /\ Relaunch
    /\ view' = NoView
    /\ watch' = "initial" /\ watchIdle' = FALSE /\ target' = "none" /\ events' = <<>>
    /\ online' = "Unknown" /\ failures' = 0 /\ timer' = FALSE
    /\ UNCHANGED <<cache, resume, sent, listens>>

WatchStep ==
    \/ WatchBackoffElapses \/ OnWatchStreamOpen
    \/ WatchAcknowledges \/ WatchSends \/ OnWatchStreamChange
WriteStep ==
    \/ HandleSuccessfulWrite \/ HandleRejectedWrite
    \/ /\ BackoffElapses \/ OnStreamStart \/ OnWriteStreamHandshakeComplete \/ Commit
       /\ UNCHANGED <<docVars, watchVars, onlineVars, listens>>

Next ==
    \/ \E key \in Keys, valid \in BOOLEAN : Write(key, valid)
    \/ HandleSuccessfulWrite \/ HandleRejectedWrite \/ PipelineOnly
    \/ Listen \/ StopListening
    \/ OnWatchStreamClose \/ WatchIdleTimeout \/ OnlineStateTimeout
    \/ WatchStep
    \/ \E u \in Users : CredentialChange(u)
    \/ Restart

Spec == Init /\ [][Next]_vars
FairSpec == Spec /\ WF_vars(WriteStep) /\ WF_vars(WatchStep) /\ WF_vars(OnlineStateTimeout)
-----------------------------------------------------------------------------
(* What the apps rely on. *)

\* The changes of its events, and nothing else, keep a listener's block in step
\* with the view: no document is told twice, left out or left behind, whatever
\* was held back before the first event or for Watch.
ShownIsView ==
    view.raised => \A k \in Keys : view.shown[k] = view.docs[k].write

\* The customer sees what was written last on this device and is not yet
\* answered, whatever the two streams deliver in between.
OwnWritesAreShown ==
    view.raised =>
        \A k \in KeysIn(Queue) :
            view.shown[k] = Queue[LastOf({i \in DOMAIN Queue :
                                     written[Queue[i].write].key = k})].write

\* No flicker: a document shown is never replaced by one the server had earlier,
\* although its acknowledgement and Watch's snapshots arrive in any order and a
\* broken stream sends everything again.
LatestCommitOf(w, log) == LET vs == {v \in DOMAIN log : log[v] = w}
                          IN  IF vs = {} THEN 0 ELSE LastOf(vs)
NeverBackInTime ==
    [][ view.raised /\ view'.raised /\ currentUser' = currentUser =>
          \A k \in Keys :
             LET old == LatestCommitOf(view.shown[k], committed')
                 new == LatestCommitOf(view'.shown[k], committed')
             IN  view.shown[k] # view'.shown[k] /\ old # 0 => \/ new > old
                                                              \/ new = 0 /\ view'.shown[k] # 0
      ]_vars

\* A listener hears something in the end, and when the writing, breaking and
\* coming and going is over, it shows what the server has.
Synced == /\ view.raised /\ view.sync = "synced"
          /\ \A k \in Keys : view.shown[k] = WriteAt(k, Len(committed))
EventuallySynced == <>[](view.listening => Synced)
=============================================================================
