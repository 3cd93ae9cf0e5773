---------------------------- MODULE WritePipeline ----------------------------
(***************************************************************************)
(* How a write of the apps reaches Firestore's server: the SDK's queue of  *)
(* mutation batches (one per user, kept on disk), the pipeline of batches  *)
(* in flight, the write stream and the callbacks waiting for an answer.    *)
(*                                                                         *)
(* Every handler runs alone on the SDK's worker queue and is one action.   *)
(* The faults are those the code handles: the stream breaks at any moment, *)
(* with answers still on their way; the server refuses a write; the        *)
(* customer changes; the app is killed and launched again.  The server is  *)
(* external: it handles a stream's requests in order and nothing of a      *)
(* stream that has ended.                                                  *)
(***************************************************************************)
EXTENDS Naturals, Sequences, FiniteSets

CONSTANTS
    Users,       \* who may be signed in (the anonymous customer is one)
    Other,       \* whoever writes from another device
    Keys,        \* documents
    MaxPending,  \* kMaxPendingWrites
    MaxWrites,   \* bound on writes
    MaxFaults    \* bound on broken streams, credential changes and launches

ASSUME PipelineAssumption ==
    /\ Users # {} /\ Keys # {} /\ Other \notin Users
    /\ MaxPending \in Nat \ {0}
    /\ MaxWrites \in Nat /\ MaxFaults \in Nat

VARIABLES
    written,      \* every write in the order it was made: [user, key, valid]
    currentUser,  \* SyncEngine::current_user_
    queues,       \* [user -> batches not yet acknowledged], on disk
    nextBatchId,  \* LevelDbMutationQueue::next_batch_id_
    callbacks,    \* [user -> ids of batches], mutation_callbacks_
    outcome,      \* [write -> what its callback was told]
    pipeline,     \* RemoteStore::write_pipeline_
    stream,       \* Stream::state_; "ready" is open with the handshake done
    idle,         \* idleness_timer_ is set
    requests,     \* batches sent on the stream the server has not handled
    answers,      \* commit versions on their way back
    committed,    \* the server's log of writes; the index is the version
    faults        \* how many there were

clientVars == <<currentUser, queues, nextBatchId, callbacks, outcome>>
streamVars == <<pipeline, stream, idle, requests, answers>>
pipelineVars == <<written, clientVars, streamVars, committed, faults>>

Writes == 1..MaxWrites
Batches == [id : Nat, write : Writes]
Outcomes == {"none", "waiting", "ok", "failed", "lost"}
StreamStates == {"initial", "starting", "open", "ready", "error", "backoff"}
Queue == queues[currentUser]

PipelineTypeOK ==
    /\ written \in Seq([user : Users \cup {Other}, key : Keys, valid : BOOLEAN])
    /\ Len(written) <= MaxWrites
    /\ currentUser \in Users
    /\ queues \in [Users -> Seq(Batches)]
    /\ nextBatchId \in Nat \ {0}
    /\ callbacks \in [Users -> SUBSET Nat]
    /\ outcome \in [Writes -> Outcomes]
    /\ pipeline \in Seq(Batches)
    /\ stream \in StreamStates
    /\ idle \in BOOLEAN
    /\ requests \in Seq(Batches)
    /\ answers \in Seq(Nat)
    /\ committed \in Seq(Writes)
    /\ faults \in 0..MaxFaults

PipelineInit ==
    /\ written = <<>>
    /\ currentUser \in Users
    /\ queues = [u \in Users |-> <<>>]
    /\ nextBatchId = 1
    /\ callbacks = [u \in Users |-> {}]
    /\ outcome = [w \in Writes |-> "none"]
    /\ pipeline = <<>> /\ stream = "initial" /\ idle = FALSE
    /\ requests = <<>> /\ answers = <<>>
    /\ committed = <<>>
    /\ faults = 0
-----------------------------------------------------------------------------
(* The pipeline. *)

\* Where the first batch after the one of this id stands in a queue.
NextBatchAfter(q, id) ==
    IF \E i \in DOMAIN q : q[i].id > id
      THEN CHOOSE i \in DOMAIN q : /\ q[i].id > id
                                   /\ \A j \in DOMAIN q : q[j].id > id => i <= j
      ELSE Len(q) + 1

\* The pipeline pl topped up from queue q.
Filled(pl, q) ==
    LET from == NextBatchAfter(q, IF pl = <<>> THEN 0 ELSE pl[Len(pl)].id)
        room == MaxPending - Len(pl)
        last == IF from + room - 1 < Len(q) THEN from + room - 1 ELSE Len(q)
    IN  pl \o SubSeq(q, from, last)

\* Stream::Start: a stream that failed backs off first.
StartedFrom(s) == CASE s = "initial" -> "starting"
                    [] s = "error"   -> "backoff"
                    [] OTHER         -> s

\* Mutant: the idle timer is left running when there is something to send.
FillWithIdleTimer(pl, q, s, sent) ==
    LET filled == Filled(pl, q)
    IN  /\ pipeline' = filled
        /\ stream' = IF filled = <<>> THEN s ELSE StartedFrom(s)
        /\ requests' = IF s = "ready"
                         THEN sent \o SubSeq(filled, Len(pl) + 1, Len(filled)) ELSE sent
        /\ idle' = (s \in {"open", "ready"} /\ (filled = <<>> \/ idle))

\* Mutant: only a batch that was added starts the stream again.
FillStartsForNew(pl, q, s, sent) ==
    LET filled == Filled(pl, q)
        added  == SubSeq(filled, Len(pl) + 1, Len(filled))
    IN  /\ pipeline' = filled
        /\ stream' = IF added = <<>> THEN s ELSE StartedFrom(s)
        /\ requests' = IF s = "ready" THEN sent \o added ELSE sent
        /\ idle' = (/\ s \in {"open", "ready"}
                    /\ filled = <<>> \/ (idle /\ ~(s = "ready" /\ added # <<>>)))

\* FillWritePipeline with pipeline pl and queue q on a stream in state s, on
\* which sent is not yet handled: what is added is sent on a ready stream
\* (which cancels the idle timer), a stream with nothing to write is marked
\* idle, and one that is needed is started.
FillWritePipeline(pl, q, s, sent) ==
    LET filled == Filled(pl, q)
        added  == SubSeq(filled, Len(pl) + 1, Len(filled))
    IN  /\ pipeline' = filled
        /\ stream' = IF filled = <<>> THEN s ELSE StartedFrom(s)
        /\ requests' = IF s = "ready" THEN sent \o added ELSE sent
        /\ idle' = (/\ s \in {"open", "ready"}
                    /\ filled = <<>> \/ (idle /\ ~(s = "ready" /\ added # <<>>)))

\* LoadNextBatchIdFromDb over all users' queues.
NextIdAfter(qs) ==
    LET ids == UNION {{qs[u][i].id : i \in DOMAIN qs[u]} : u \in Users}
    IN  IF ids = {} THEN 1 ELSE (CHOOSE n \in ids : \A m \in ids : m <= n) + 1

\* NotifyUser: only a callback made in this session is there to be told.
NotifyUser(batch, told) ==
    IF batch.id \in callbacks[currentUser]
      THEN /\ outcome' = [outcome EXCEPT ![batch.write] = told]
           /\ callbacks' = [callbacks EXCEPT ![currentUser] = @ \ {batch.id}]
      ELSE UNCHANGED <<outcome, callbacks>>

\* RemoveMutationBatch: the row of this id is deleted.
WithoutBatch(q, id) ==
    LET i == NextBatchAfter(q, id - 1)
    IN  SubSeq(q, 1, i - 1) \o SubSeq(q, i + 1, Len(q))

\* The head of the pipeline is settled: its callback is told, the queue loses
\* it, and the pipeline is topped up on a stream in state s.
Settle(told, s, sent) ==
    LET rest == WithoutBatch(Queue, Head(pipeline).id)
    IN  /\ NotifyUser(Head(pipeline), told)
        /\ queues' = [queues EXCEPT ![currentUser] = rest]
        /\ FillWritePipeline(Tail(pipeline), rest, s, sent)
        /\ UNCHANGED <<currentUser, nextBatchId>>
-----------------------------------------------------------------------------
(* What the app does. *)

\* SyncEngine::WriteMutations; the server will accept the write if it is valid.
WriteMutations(key, valid) ==
    LET batch == [id |-> nextBatchId, write |-> Len(written) + 1]
        queue == Append(Queue, batch)
    IN  /\ Len(written) < MaxWrites
        /\ written' = Append(written,
                             [user |-> currentUser, key |-> key, valid |-> valid])
        /\ queues' = [queues EXCEPT ![currentUser] = queue]
        /\ nextBatchId' = nextBatchId + 1
        /\ callbacks' = [callbacks EXCEPT ![currentUser] = @ \cup {batch.id}]
        /\ outcome' = [outcome EXCEPT ![batch.write] = "waiting"]
        /\ FillWritePipeline(pipeline, queue, stream, requests)
        /\ UNCHANGED <<currentUser, answers, committed, faults>>

\* Mutant: the pipeline is not cleared when the customer changes.
KeepPipeline(u) ==
    /\ faults < MaxFaults
    /\ faults' = faults + 1
    /\ currentUser' = u
    /\ nextBatchId' = IF u = currentUser THEN nextBatchId ELSE NextIdAfter(queues)
    /\ FillWritePipeline(pipeline, queues[u], IF stream = "error" THEN stream ELSE "initial", <<>>)
    /\ answers' = <<>>
    /\ UNCHANGED <<written, queues, callbacks, outcome, committed>>

\* HandleCredentialChange: the queue of user u (who may be the same, with a
\* fresh token) takes over, the streams are torn down and set up again.
HandleCredentialChange(u) ==
    /\ faults < MaxFaults
    /\ faults' = faults + 1
    /\ currentUser' = u
    /\ nextBatchId' = IF u = currentUser THEN nextBatchId ELSE NextIdAfter(queues)
    /\ FillWritePipeline(<<>>, queues[u], IF stream = "error" THEN stream ELSE "initial", <<>>)
    /\ answers' = <<>>
    /\ UNCHANGED <<written, queues, callbacks, outcome, committed>>

\* The app is killed and launched again: what is on disk is all there is.
Relaunch ==
    /\ faults < MaxFaults
    /\ faults' = faults + 1
    /\ nextBatchId' = NextIdAfter(queues)
    /\ callbacks' = [u \in Users |-> {}]
    /\ outcome' = [w \in Writes |-> IF outcome[w] = "waiting" THEN "lost" ELSE outcome[w]]
    /\ FillWritePipeline(<<>>, Queue, "initial", <<>>)
    /\ answers' = <<>>
    /\ UNCHANGED <<written, currentUser, queues, committed>>
-----------------------------------------------------------------------------
(* The write stream. *)

BackoffElapses ==
    /\ stream = "backoff"
    /\ stream' = "starting"
    /\ UNCHANGED <<written, clientVars, pipeline, idle, requests, answers,
                   committed, faults>>

\* The token is there and the connection stands; the handshake is sent.
OnStreamStart ==
    /\ stream = "starting"
    /\ stream' = "open"
    /\ idle' = FALSE
    /\ UNCHANGED <<written, clientVars, pipeline, requests, answers,
                   committed, faults>>

\* Mutant: only the pipeline's head is sent again after the handshake.
ResendHead ==
    /\ stream = "open"
    /\ stream' = "ready"
    /\ requests' = IF pipeline = <<>> THEN <<>> ELSE <<Head(pipeline)>>
    /\ idle' = (idle /\ pipeline = <<>>)
    /\ UNCHANGED <<written, clientVars, pipeline, answers, committed, faults>>

\* The whole pipeline is sent, what was sent on an earlier stream too.
OnWriteStreamHandshakeComplete ==
    /\ stream = "open"
    /\ stream' = "ready"
    /\ requests' = pipeline
    /\ idle' = (idle /\ pipeline = <<>>)
    /\ UNCHANGED <<written, clientVars, pipeline, answers, committed, faults>>

\* An answer names no batch: it is taken for that of the pipeline's head.
OnWriteStreamMutationResult ==
    /\ answers # <<>>
    /\ answers' = Tail(answers)
    /\ Settle("ok", stream, requests)
    /\ UNCHANGED <<written, committed, faults>>

\* The stream ends with a permanent error: the request the server stopped at
\* is taken to be the pipeline's head.  No backoff before the next stream.
HandleWriteError ==
    /\ requests # <<>> /\ answers = <<>>
    /\ ~written[Head(requests).write].valid
    /\ Settle("failed", "initial", <<>>)
    /\ UNCHANGED <<written, answers, committed, faults>>

\* Mutant: any error is held against the pipeline's head.
EveryErrorIsPermanent ==
    /\ stream = "ready" /\ pipeline # <<>>
    /\ faults < MaxFaults
    /\ faults' = faults + 1
    /\ Settle("failed", "initial", <<>>)
    /\ answers' = <<>>
    /\ UNCHANGED <<written, committed>>

\* The stream ends with a transient error, or no token was to be had; answers
\* on their way are lost, and the pipeline stays for the next stream.
OnWriteStreamClose ==
    /\ stream \in {"starting", "open", "ready"}
    /\ faults < MaxFaults
    /\ faults' = faults + 1
    /\ stream' = IF pipeline = <<>> THEN "error" ELSE "backoff"
    /\ idle' = FALSE
    /\ requests' = <<>> /\ answers' = <<>>
    /\ UNCHANGED <<written, clientVars, pipeline, committed>>

\* The idle timer stops the stream, which must not be needed.
IdleTimeout ==
    /\ idle
    /\ idle' = FALSE
    /\ stream' = IF pipeline = <<>> THEN "initial" ELSE "starting"
    /\ requests' = <<>> /\ answers' = <<>>
    /\ UNCHANGED <<written, clientVars, pipeline, committed, faults>>
-----------------------------------------------------------------------------
(* The server. *)

Commit ==
    /\ requests # <<>>
    /\ written[Head(requests).write].valid
    /\ requests' = Tail(requests)
    /\ committed' = Append(committed, Head(requests).write)
    /\ answers' = Append(answers, Len(committed) + 1)
    /\ UNCHANGED <<written, clientVars, pipeline, stream, idle, faults>>

\* A write from another device.
CommitOther(key) ==
    /\ Len(written) < MaxWrites
    /\ written' = Append(written, [user |-> Other, key |-> key, valid |-> TRUE])
    /\ committed' = Append(committed, Len(written) + 1)
    /\ UNCHANGED <<clientVars, streamVars, faults>>

StreamStep ==
    \/ BackoffElapses \/ OnStreamStart \/ OnWriteStreamHandshakeComplete
    \/ OnWriteStreamMutationResult \/ HandleWriteError \/ Commit

PipelineNext ==
    \/ \E key \in Keys, valid \in BOOLEAN : WriteMutations(key, valid)
    \/ \E key \in Keys : CommitOther(key)
    \/ \E u \in Users : HandleCredentialChange(u)
    \/ Relaunch
    \/ OnWriteStreamClose \/ IdleTimeout
    \/ StreamStep

PipelineSpec == PipelineInit /\ [][PipelineNext]_pipelineVars

\* The timers fire, the network lets a stream through in the end and the server
\* answers; none of the writes, breaks and changes has to happen.
FairPipelineSpec == PipelineSpec /\ WF_pipelineVars(StreamStep)
-----------------------------------------------------------------------------
(* What the pipeline promises. *)

\* What is in flight is the front of the queue, so that the batch an answer is
\* taken for is the first one on disk, whatever became of streams and users.
PipelineIsQueueFront ==
    /\ Len(pipeline) <= Len(Queue)
    /\ pipeline = SubSeq(Queue, 1, Len(pipeline))

\* Positions are all that relates answers to batches (OnWriteStreamMutationResult
\* takes the pipeline's head): on a ready stream the answers on their way are of
\* the first batches of the pipeline, in order, and the rest is being asked.
AnswersMatchPipeline ==
    IF stream = "ready"
      THEN /\ \A i \in DOMAIN answers : /\ i <= Len(pipeline)
                                        /\ committed[answers[i]] = pipeline[i].write
           /\ requests = SubSeq(pipeline, Len(answers) + 1, Len(pipeline))
      ELSE requests = <<>> /\ answers = <<>>

\* The graceful stop by the idle timer asserts that nothing waits for the stream
\* (HARD_ASSERT in OnWriteStreamClose).
IdleStreamIsNotNeeded == idle => pipeline = <<>>

\* Streams, retries, kills and changes of the customer are invisible but for what
\* OrderedWrites allows: writes reach the server in order, perhaps again while
\* unanswered, and are answered in order, once and truthfully.
PendingWrites == [u \in Users |-> [i \in DOMAIN queues[u] |-> queues[u][i].write]]
Ordered == INSTANCE OrderedWrites WITH
    pending <- PendingWrites,
    log     <- committed,
    told    <- outcome
ImplementsOrderedWrites == Ordered!Spec

\* Every write of the customer who stays is answered.
Awaited(w) == /\ outcome[w] = "waiting"
              /\ \E i \in DOMAIN Queue : Queue[i].write = w
WritesAreAnswered == \A w \in Writes : Awaited(w) ~> ~Awaited(w)
=============================================================================
