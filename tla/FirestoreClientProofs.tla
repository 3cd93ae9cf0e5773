------------------------ MODULE FirestoreClientProofs ------------------------
(***************************************************************************)
(* What holds of the client's writes and of the whole client for any       *)
(* users, documents, pipeline size and number of writes, breaks, kills and *)
(* changes of the customer.  Of the write pipeline, which the client       *)
(* extends:                                                                *)
(*   - its inductive invariant and the safety properties it implies;       *)
(*   - it implements ordered writes: streams, resending, kills and changes *)
(*     of the customer are invisible.                                      *)
(* Of the client:                                                          *)
(*   - the pipeline keeps its promises whatever the other stream does;     *)
(*   - what a listener has been told is its view, and the view has the     *)
(*     last pending write of every document;                               *)
(*   - no document shown goes back in time.                                *)
(***************************************************************************)
EXTENDS FirestoreClient, TLAPS, SequenceTheorems, WellFoundedInduction

-----------------------------------------------------------------------------
(* The write pipeline.  Queues and their fronts. *)

\* A queue: batches in the order of their identifiers and of their writes.
Rising(q) ==
    /\ q \in Seq(Batches)
    /\ \A i \in 1..Len(q) : q[i].id >= 1
    /\ \A i, j \in 1..Len(q) : i < j => q[i].id < q[j].id /\ q[i].write < q[j].write

\* How much of queue q the pipeline has room for, and that much of it.
Room(q) == IF MaxPending <= Len(q) THEN MaxPending ELSE Len(q)
Front(q) == SubSeq(q, 1, Room(q))

\* pl is a beginning of q the pipeline has room for.
IsFront(pl, q) == Len(pl) \in 0..Room(q) /\ pl = SubSeq(q, 1, Len(pl))

LEMMA RoomFacts ==
    ASSUME NEW q \in Seq(Batches)
    PROVE  /\ Len(q) \in Nat /\ Room(q) \in Nat
           /\ Room(q) <= Len(q) /\ Room(q) <= MaxPending
    BY PipelineAssumption, LenProperties DEF Room

LEMMA FrontFacts ==
    ASSUME NEW q \in Seq(Batches), NEW pl, IsFront(pl, q)
    PROVE  /\ pl \in Seq(Batches)
           /\ Len(pl) \in Nat /\ Len(pl) <= Len(q)
           /\ \A i \in 1..Len(pl) : pl[i] = q[i]
<1>1. Len(pl) \in Nat /\ Len(pl) <= Len(q) /\ Len(q) \in Nat
    BY RoomFacts DEF IsFront
<1>2. \A i \in 1..Len(pl) : q[i] \in Batches
    BY <1>1, ElementOfSeq
<1> DEFINE n == Len(pl)
<1>3. pl = SubSeq(q, 1, n) /\ n \in Int
    BY <1>1 DEF IsFront
<1>4. \A i \in 1..n : q[i] \in Batches
    BY <1>2
<1> HIDE DEF n
<1>5. SubSeq(q, 1, n) \in Seq(Batches) /\ \A i \in 1..n : SubSeq(q, 1, n)[i] = q[i]
    <2>1. /\ SubSeq(q, 1, n) \in Seq(Batches)
          /\ \A i \in 1..n-1+1 : SubSeq(q, 1, n)[i] = q[1+i-1]
        BY <1>3, <1>4, SubSeqProperties
    <2> QED
        BY <2>1, <1>3
<1> QED
    BY <1>1, <1>3, <1>5 DEF n

LEMMA FrontFromElements ==
    ASSUME NEW q \in Seq(Batches), NEW pl \in Seq(Batches), Len(pl) \in 0..Room(q),
           \A i \in 1..Len(pl) : pl[i] = q[i]
    PROVE  IsFront(pl, q)
<1> DEFINE n == Len(pl)
           s == SubSeq(q, 1, n)
<1>1. n \in Nat /\ n <= Len(q) /\ Len(q) \in Nat
    BY RoomFacts
<1>2. \A i \in 1..n : q[i] \in Batches
    BY <1>1, ElementOfSeq
<1> HIDE DEF n
<1>3. /\ s \in Seq(Batches)
      /\ Len(s) = IF 1 <= n THEN n-1+1 ELSE 0
      /\ \A i \in 1..n-1+1 : s[i] = q[1+i-1]
    BY <1>1, <1>2, SubSeqProperties
<1>4. Len(s) = n /\ \A i \in 1..n : s[i] = q[i]
    BY <1>3, <1>1
<1>5. pl = s
    <2> HIDE DEF s
    <2> QED
        BY <1>3, <1>4, SeqEqual DEF n
<1> QED
    BY <1>5 DEF IsFront, n

LEMMA QueueFacts ==
    ASSUME NEW q, Rising(q)
    PROVE  /\ q \in Seq(Batches) /\ Len(q) \in Nat /\ DOMAIN q = 1..Len(q)
           /\ \A i \in 1..Len(q) : /\ q[i] \in Batches
                                  /\ q[i].id \in Nat \ {0}
                                  /\ q[i].write \in 1..MaxWrites
<1>1. q \in Seq(Batches) /\ Len(q) \in Nat /\ DOMAIN q = 1..Len(q)
    BY LenProperties DEF Rising
<1>2. \A i \in 1..Len(q) : q[i] \in Batches
    BY <1>1, ElementOfSeq
<1>3. \A i \in 1..Len(q) : q[i].id \in Nat /\ q[i].write \in 1..MaxWrites
    BY <1>2 DEF Batches, Writes
<1> QED
    BY <1>1, <1>2, <1>3 DEF Rising

\* The batch after the n-th is found whatever identifier between the two is given.
LEMMA NextAfterFacts ==
    ASSUME NEW q, Rising(q), NEW n \in 0..Len(q), NEW id \in Int,
           \A i \in 1..n : q[i].id <= id,
           n < Len(q) => q[n + 1].id > id
    PROVE  NextBatchAfter(q, id) = n + 1
<1>1. Len(q) \in Nat /\ DOMAIN q = 1..Len(q)
    BY QueueFacts
<1>2. \A i \in 1..Len(q) : q[i].id \in Nat
    BY QueueFacts
<1>3. CASE n = Len(q)
    <2>1. ~ \E i \in DOMAIN q : q[i].id > id
        BY <1>1, <1>2, <1>3
    <2> QED
        BY <2>1, <1>3 DEF NextBatchAfter
<1>4. CASE n < Len(q)
    <2>1. n + 1 \in DOMAIN q /\ q[n + 1].id > id
        BY <1>1, <1>4
    <2>2. \A j \in DOMAIN q : q[j].id > id => n + 1 <= j
        BY <1>1, <1>2
    <2>3. \A i \in DOMAIN q : q[i].id > id /\ (\A j \in DOMAIN q : q[j].id > id => i <= j)
                              => i = n + 1
        BY <2>1, <2>2, <1>1
    <2> DEFINE First(i) == /\ q[i].id > id
                           /\ \A j \in DOMAIN q : q[j].id > id => i <= j
    <2>4. NextBatchAfter(q, id) = CHOOSE i \in DOMAIN q : First(i)
        BY <2>1 DEF NextBatchAfter
    <2>5. \E i \in DOMAIN q : First(i)
        BY <2>1, <2>2
    <2>6. \A i \in DOMAIN q : First(i) => i = n + 1
        BY <2>3
    <2> HIDE DEF First
    <2>7. (CHOOSE i \in DOMAIN q : First(i)) \in {i \in DOMAIN q : First(i)}
        BY <2>5, Zenon
    <2> QED
        BY <2>4, <2>6, <2>7, Zenon
<1>5. n = Len(q) \/ n < Len(q)
    <2>1. n \in 0..Len(q) /\ Len(q) \in Nat
        BY <1>1
    <2> QED
        BY <2>1
<1> QED
    BY <1>3, <1>4, <1>5, Zenon

\* FillWritePipeline fills the pipeline with the front of the queue.
LEMMA FilledIsFront ==
    ASSUME NEW q, Rising(q), NEW pl, IsFront(pl, q)
    PROVE  Filled(pl, q) = Front(q)
<1> DEFINE id == IF pl = <<>> THEN 0 ELSE pl[Len(pl)].id
           n == Len(pl)
<1>1. /\ pl \in Seq(Batches) /\ n \in Nat /\ n <= Len(q)
      /\ \A i \in 1..n : pl[i] = q[i]
      /\ n <= Room(q) /\ Len(q) \in Nat /\ Room(q) \in Nat /\ Room(q) <= Len(q)
    BY FrontFacts, RoomFacts DEF Rising, IsFront
<1>2. \A i \in 1..Len(q) : q[i].id \in Nat
    BY QueueFacts
<1>3. pl = <<>> <=> n = 0
    BY <1>1, EmptySeq
<1>4. NextBatchAfter(q, id) = n + 1
    <2>1. id = IF n = 0 THEN 0 ELSE q[n].id
        BY <1>1, <1>3
    <2>2. id \in Int /\ \A i \in 1..n : q[i].id <= id
        BY <2>1, <1>1, <1>2 DEF Rising
    <2>3. n < Len(q) => q[n + 1].id > id
        BY <2>1, <1>1, <1>2 DEF Rising
    <2> HIDE DEF id, n
    <2> QED
        BY <2>2, <2>3, <1>1, NextAfterFacts
<1>5. Filled(pl, q) = pl \o SubSeq(q, n + 1, Room(q))
    <2>1. (IF n + 1 + (MaxPending - n) - 1 < Len(q) THEN n + 1 + (MaxPending - n) - 1 ELSE Len(q))
            = Room(q)
        BY <1>1, PipelineAssumption DEF Room
    <2> HIDE DEF id
    <2>2. Filled(pl, q) = LET from == NextBatchAfter(q, id)
                              room == MaxPending - n
                              last == IF from + room - 1 < Len(q) THEN from + room - 1 ELSE Len(q)
                          IN  pl \o SubSeq(q, from, last)
        BY DEF Filled, id
    <2> QED
        BY <2>1, <2>2, <1>4
<1>6. pl = SubSeq(q, 1, n)
    BY DEF IsFront
<1>7. SubSeq(q, 1, n) \o SubSeq(q, n + 1, Room(q)) = SubSeq(q, 1, Room(q))
    <2> HIDE DEF n
    <2>1. 1 \in 1..Len(q)+1 /\ n \in 1-1..Len(q) /\ Room(q) \in n..Len(q)
        BY <1>1
    <2> QED
        BY <2>1, ConcatAdjacentSubSeq DEF Rising
<1> QED
    BY <1>5, <1>6, <1>7 DEF Front

LEMMA FrontIsFront ==
    ASSUME NEW q \in Seq(Batches)
    PROVE  IsFront(Front(q), q) /\ Len(Front(q)) = Room(q)
<1> DEFINE n == Room(q)
<1>1. n \in Nat /\ n <= Len(q) /\ Len(q) \in Nat
    BY RoomFacts
<1>2. \A i \in 1..n : q[i] \in Batches
    BY <1>1, ElementOfSeq
<1>3. Len(SubSeq(q, 1, n)) = IF 1 <= n THEN n-1+1 ELSE 0
    <2> HIDE DEF n
    <2> QED
        BY <1>1, <1>2, SubSeqProperties
<1>4. Len(Front(q)) = n
    BY <1>1, <1>3 DEF Front
<1> QED
    BY <1>4, <1>1 DEF IsFront, Front

LEMMA TailFacts ==
    ASSUME NEW q, Rising(q), q # <<>>
    PROVE  /\ Rising(Tail(q))
           /\ Len(Tail(q)) = Len(q) - 1 /\ Len(q) >= 1
           /\ \A i \in 1..Len(q) - 1 : Tail(q)[i] = q[i + 1]
           /\ Head(q) = q[1]
           /\ WithoutBatch(q, q[1].id) = Tail(q)
<1>1. /\ q \in Seq(Batches) /\ Len(q) \in Nat
      /\ \A i \in 1..Len(q) : q[i].id \in Nat \ {0} /\ q[i].write \in 1..MaxWrites
    BY QueueFacts
<1>2. /\ Tail(q) \in Seq(Batches) /\ Len(Tail(q)) = Len(q) - 1
      /\ \A i \in 1..Len(Tail(q)) : Tail(q)[i] = q[i + 1]
    BY <1>1, HeadTailProperties
<1>3. Len(q) >= 1 /\ Head(q) = q[1]
    BY <1>1, EmptySeq
<1>4. \A i \in 1..Len(q) - 1 : Tail(q)[i] = q[i + 1]
    BY <1>2
<1>5. Rising(Tail(q))
    <2>1. \A i \in 1..Len(Tail(q)) : i + 1 \in 1..Len(q)
        BY <1>1, <1>2
    <2>2. \A i \in 1..Len(Tail(q)) : Tail(q)[i].id >= 1
        BY <2>1, <1>2 DEF Rising
    <2>3. ASSUME NEW i \in 1..Len(Tail(q)), NEW j \in 1..Len(Tail(q)), i < j
          PROVE  Tail(q)[i].id < Tail(q)[j].id /\ Tail(q)[i].write < Tail(q)[j].write
        <3>1. i + 1 \in 1..Len(q) /\ j + 1 \in 1..Len(q) /\ i + 1 < j + 1
            BY <2>1, <2>3, <1>1, <1>2
        <3>2. q[i + 1].id < q[j + 1].id /\ q[i + 1].write < q[j + 1].write
            BY <3>1 DEF Rising
        <3> QED
            BY <3>2, <1>2
    <2> QED
        BY <2>2, <2>3, <1>2 DEF Rising
<1>6. NextBatchAfter(q, q[1].id - 1) = 0 + 1
    <2>1. q[1].id \in Nat \ {0}
        BY <1>1, <1>3
    <2>2. q[1].id - 1 \in Int /\ q[0 + 1].id > q[1].id - 1 /\ 0 \in 0..Len(q)
        BY <2>1, <1>1
    <2>3. \A i \in 1..0 : q[i].id <= q[1].id - 1
        OBVIOUS
    <2> DEFINE before == q[1].id - 1
    <2> HIDE DEF before
    <2>4. before \in Int /\ q[0 + 1].id > before /\ 0 \in 0..Len(q)
          /\ \A i \in 1..0 : q[i].id <= before
        BY <2>2, <2>3 DEF before
    <2>5. NextBatchAfter(q, before) = 0 + 1
        BY <2>4, NextAfterFacts
    <2> QED
        BY <2>5 DEF before
<1>7. WithoutBatch(q, q[1].id) = SubSeq(q, 1, 0) \o SubSeq(q, 2, Len(q))
    <2>1. WithoutBatch(q, q[1].id) = LET i == 0 + 1
                                     IN  SubSeq(q, 1, i - 1) \o SubSeq(q, i + 1, Len(q))
        BY <1>6 DEF WithoutBatch
    <2>2. 0 + 1 - 1 = 0 /\ 0 + 1 + 1 = 2
        OBVIOUS
    <2> QED
        BY <2>1, <2>2
<1>8. SubSeq(q, 1, 0) = <<>>
    BY SubSeqEmpty
<1>9. SubSeq(q, 2, Len(q)) = Tail(q)
    BY <1>1, TailIsSubSeq
<1>10. <<>> \o Tail(q) = Tail(q)
    BY <1>2, ConcatEmptySeq
<1> QED
    BY <1>3, <1>2, <1>4, <1>5, <1>7, <1>8, <1>9, <1>10

LEMMA TailIsFront ==
    ASSUME NEW q, Rising(q), NEW pl, IsFront(pl, q), pl # <<>>
    PROVE  /\ q # <<>> /\ Head(pl) = q[1]
           /\ IsFront(Tail(pl), Tail(q))
           /\ Len(Tail(pl)) = Len(pl) - 1 /\ Len(pl) >= 1
           /\ \A i \in 1..Len(pl) - 1 : Tail(pl)[i] = pl[i + 1]
<1>1. /\ pl \in Seq(Batches) /\ Len(pl) \in Nat /\ Len(pl) <= Len(q)
      /\ \A i \in 1..Len(pl) : pl[i] = q[i]
      /\ q \in Seq(Batches) /\ Len(q) \in Nat /\ Len(pl) <= Room(q)
    BY FrontFacts, RoomFacts DEF Rising, IsFront
<1>2. Len(pl) >= 1 /\ Head(pl) = pl[1] /\ pl[1] = q[1]
    BY <1>1, EmptySeq
<1>3. q # <<>>
    BY <1>1, <1>2, EmptySeq
<1>4. /\ Tail(pl) \in Seq(Batches) /\ Len(Tail(pl)) = Len(pl) - 1
      /\ \A i \in 1..Len(Tail(pl)) : Tail(pl)[i] = pl[i + 1]
    BY <1>1, HeadTailProperties
<1>5. /\ Tail(q) \in Seq(Batches) /\ Len(Tail(q)) = Len(q) - 1
      /\ \A i \in 1..Len(Tail(q)) : Tail(q)[i] = q[i + 1]
    BY <1>1, <1>3, HeadTailProperties
<1>6. Len(Tail(pl)) \in 0..Room(Tail(q))
    BY <1>1, <1>2, <1>4, <1>5, PipelineAssumption DEF Room
<1>7. \A i \in 1..Len(Tail(pl)) : Tail(pl)[i] = Tail(q)[i]
    BY <1>1, <1>4, <1>5
<1>8. IsFront(Tail(pl), Tail(q))
    BY <1>4, <1>5, <1>6, <1>7, FrontFromElements
<1>9. \A i \in 1..Len(pl) - 1 : Tail(pl)[i] = pl[i + 1]
    BY <1>4
<1> QED
    BY <1>2, <1>3, <1>4, <1>8, <1>9

LEMMA AppendFacts ==
    ASSUME NEW q, Rising(q), NEW batch \in Batches, batch.id >= 1,
           \A i \in 1..Len(q) : q[i].id < batch.id /\ q[i].write < batch.write
    PROVE  /\ Rising(Append(q, batch))
           /\ Len(Append(q, batch)) = Len(q) + 1
           /\ \A i \in 1..Len(q) : Append(q, batch)[i] = q[i]
           /\ Append(q, batch)[Len(q) + 1] = batch
<1>1. q \in Seq(Batches) /\ Len(q) \in Nat
    BY QueueFacts
<1>2. /\ Append(q, batch) \in Seq(Batches)
      /\ Len(Append(q, batch)) = Len(q) + 1
      /\ \A i \in 1..Len(q) : Append(q, batch)[i] = q[i]
      /\ Append(q, batch)[Len(q) + 1] = batch
    BY <1>1, AppendProperties
<1>3. \A i \in 1..Len(q) + 1 : i \in 1..Len(q) \/ i = Len(q) + 1
    BY <1>1
<1>4. \A i \in 1..Len(q) + 1 : Append(q, batch)[i].id >= 1
    BY <1>2, <1>3 DEF Rising
<1>5. ASSUME NEW i \in 1..Len(q) + 1, NEW j \in 1..Len(q) + 1, i < j
      PROVE  /\ Append(q, batch)[i].id < Append(q, batch)[j].id
             /\ Append(q, batch)[i].write < Append(q, batch)[j].write
    <2>1. i \in 1..Len(q)
        BY <1>1, <1>5
    <2>2. CASE j \in 1..Len(q)
        BY <2>1, <2>2, <1>2, <1>5 DEF Rising
    <2>3. CASE j = Len(q) + 1
        BY <2>1, <2>3, <1>2
    <2> QED
        BY <2>2, <2>3, <1>3
<1>6. Rising(Append(q, batch))
    BY <1>2, <1>4, <1>5 DEF Rising
<1> QED
    BY <1>2, <1>6

LEMMA AppendIsFront ==
    ASSUME NEW q \in Seq(Batches), NEW batch \in Batches, NEW pl, IsFront(pl, q)
    PROVE  IsFront(pl, Append(q, batch))
<1>1. /\ pl \in Seq(Batches) /\ Len(pl) \in Nat /\ Len(pl) <= Room(q)
      /\ \A i \in 1..Len(pl) : pl[i] = q[i]
      /\ Len(q) \in Nat /\ Len(pl) <= Len(q)
    BY FrontFacts, RoomFacts DEF IsFront
<1>2. /\ Append(q, batch) \in Seq(Batches)
      /\ Len(Append(q, batch)) = Len(q) + 1
      /\ \A i \in 1..Len(q) : Append(q, batch)[i] = q[i]
    BY AppendProperties
<1>3. Len(pl) \in 0..Room(Append(q, batch))
    BY <1>1, <1>2, PipelineAssumption DEF Room
<1>4. \A i \in 1..Len(pl) : pl[i] = Append(q, batch)[i]
    BY <1>1, <1>2
<1> QED
    BY <1>1, <1>2, <1>3, <1>4, FrontFromElements

LEMMA EmptyIsFront ==
    ASSUME NEW q \in Seq(Batches)
    PROVE  IsFront(<<>>, q)
<1> DEFINE none == <<>>
<1>1. none \in Seq(Batches) /\ Len(none) = 0 /\ Room(q) \in Nat
    BY RoomFacts
<1> HIDE DEF none
<1>2. Len(none) \in 0..Room(q) /\ \A i \in 1..Len(none) : none[i] = q[i]
    BY <1>1
<1>3. IsFront(none, q)
    BY <1>1, <1>2, FrontFromElements
<1> QED
    BY <1>3 DEF none
-----------------------------------------------------------------------------
(* Filling the pipeline. *)

LEMMA StartedFromFacts ==
    ASSUME NEW s \in StreamStates
    PROVE  /\ StartedFrom(s) \in StreamStates
           /\ StartedFrom(s) = "ready" <=> s = "ready"
    BY DEF StartedFrom, StreamStates

\* Whatever the stream's state, the pipeline is the front of the queue again;
\* what was added is on its way if the stream is ready, and only a ready stream
\* with nothing to write may be idle.
LEMMA FillFacts ==
    ASSUME NEW q, Rising(q), NEW pl, IsFront(pl, q),
           NEW s \in StreamStates, NEW reqs,
           FillWritePipeline(pl, q, s, reqs),
           idle => pl = <<>>,
           s = "open" => ~idle /\ q # <<>>
    PROVE  /\ pipeline' = Front(q)
           /\ IsFront(pipeline', q) /\ pipeline' \in Seq(Batches)
           /\ Len(pl) <= Len(pipeline')
           /\ \A i \in 1..Len(pl) : pipeline'[i] = pl[i]
           /\ stream' \in StreamStates
           /\ stream' = "ready" <=> s = "ready"
           /\ s = "ready" => requests' = reqs \o SubSeq(pipeline', Len(pl) + 1, Len(pipeline'))
           /\ s # "ready" => requests' = reqs
           /\ idle' \in BOOLEAN
           /\ idle' => stream' = "ready" /\ pipeline' = <<>>
<1> DEFINE filled == Filled(pl, q)
           added == SubSeq(filled, Len(pl) + 1, Len(filled))
<1>1. filled = Front(q)
    BY FilledIsFront
<1>2. /\ pipeline' = filled
      /\ stream' = IF filled = <<>> THEN s ELSE StartedFrom(s)
      /\ requests' = IF s = "ready" THEN reqs \o added ELSE reqs
      /\ idle' = (/\ s \in {"open", "ready"}
                  /\ filled = <<>> \/ (idle /\ ~(s = "ready" /\ added # <<>>)))
    BY DEF FillWritePipeline
<1>3. IsFront(filled, q) /\ Len(filled) = Room(q)
    BY <1>1, FrontIsFront DEF Rising
<1>4. /\ filled \in Seq(Batches) /\ \A i \in 1..Len(filled) : filled[i] = q[i]
      /\ Len(filled) \in Nat
    BY <1>3, FrontFacts DEF Rising
<1>5. /\ Len(pl) \in Nat /\ Len(pl) <= Len(filled)
      /\ pl \in Seq(Batches) /\ \A i \in 1..Len(pl) : pl[i] = q[i]
    BY <1>3, FrontFacts, RoomFacts DEF Rising, IsFront
<1>6. \A i \in 1..Len(pl) : filled[i] = pl[i]
    BY <1>4, <1>5
<1>7. stream' \in StreamStates /\ (stream' = "ready" <=> s = "ready")
    BY <1>2, StartedFromFacts
<1>8. idle' \in BOOLEAN
    BY <1>2, Zenon
<1>9. pl = <<>> => added = filled
    <2>1. ASSUME pl = <<>> PROVE added = filled
        <3>1. Len(pl) + 1 = 1
            BY <2>1
        <3> QED
            BY <3>1, <1>4, SubSeqFull
    <2> QED
        BY <2>1
<1>10. q # <<>> => filled # <<>>
    <2>1. ASSUME q # <<>> PROVE Len(filled) >= 1
        <3>1. Len(q) >= 1
            BY <2>1, TailFacts
        <3> QED
            BY <3>1, <1>3, PipelineAssumption DEF Room
    <2> QED
        BY <2>1, <1>4
<1>11. ASSUME idle' PROVE s = "ready" /\ filled = <<>>
    <2>1. s \in {"open", "ready"} /\ (filled = <<>> \/ (idle /\ ~(s = "ready" /\ added # <<>>)))
        BY <1>11, <1>2, Zenon
    <2>2. s = "ready"
        BY <2>1, <1>10
    <2> QED
        BY <2>1, <2>2, <1>9
<1> HIDE DEF filled, added
<1>12. idle' => stream' = "ready" /\ pipeline' = <<>>
    BY <1>11, <1>2, <1>7
<1>13. s = "ready" => requests' = reqs \o SubSeq(pipeline', Len(pl) + 1, Len(pipeline'))
    BY <1>2 DEF added
<1> QED
    BY <1>1, <1>2, <1>3, <1>4, <1>5, <1>6, <1>7, <1>8, <1>12, <1>13
-----------------------------------------------------------------------------
(* Batch identifiers. *)

LEMMA HasGreatest ==
    ASSUME NEW S, S \subseteq Nat, S # {}, NEW b \in Nat, \A n \in S : n <= b
    PROVE  \E n \in S : \A m \in S : m <= n
<1> DEFINE R == {ss \in Nat \X Nat : ss[1] < ss[2]}
           Bounds == {n \in Nat : \A m \in S : m <= n}
<1>1. IsWellFoundedOn(R, Nat)
    BY NatLessThanWellFounded DEF OpToRel
<1>2. PICK n \in Bounds : \A y \in Bounds : ~(<<y, n>> \in R)
    <2>1. Bounds \subseteq Nat /\ b \in Bounds
        OBVIOUS
    <2> HIDE DEF R, Bounds
    <2> QED
        BY <1>1, <2>1, WFMin
<1>3. \A y \in Bounds : ~(y < n)
    BY <1>2
<1>4. n \in S
    <2>1. SUFFICES ASSUME n \notin S PROVE FALSE
        OBVIOUS
    <2>2. PICK m \in S : TRUE
        OBVIOUS
    <2>3. n > 0 /\ n - 1 \in Nat
        BY <2>1, <2>2
    <2>4. n - 1 \in Bounds
        BY <2>1, <2>3
    <2> QED
        BY <2>4, <2>3, <1>3
<1> QED
    BY <1>4

LEMMA NextIdFacts ==
    ASSUME \A u \in Users : Rising(queues[u]),
           NEW b \in Nat, \A u \in Users : \A i \in 1..Len(queues[u]) : queues[u][i].id < b
    PROVE  /\ NextIdAfter(queues) \in Nat \ {0}
           /\ \A u \in Users : \A i \in 1..Len(queues[u]) :
                 queues[u][i].id < NextIdAfter(queues)
<1> DEFINE ids == UNION {{queues[u][i].id : i \in DOMAIN queues[u]} : u \in Users}
           greatest == CHOOSE n \in ids : \A m \in ids : m <= n
<1>1. NextIdAfter(queues) = IF ids = {} THEN 1 ELSE greatest + 1
    BY DEF NextIdAfter
<1>2. \A u \in Users : /\ DOMAIN queues[u] = 1..Len(queues[u])
                       /\ \A i \in 1..Len(queues[u]) : queues[u][i].id \in Nat
    BY QueueFacts
<1>3. \A u \in Users : \A i \in 1..Len(queues[u]) : queues[u][i].id \in ids
    BY <1>2
<1>4. ids \subseteq Nat /\ \A n \in ids : n <= b
    BY <1>2
<1>5. ASSUME ids # {} PROVE greatest \in ids /\ \A m \in ids : m <= greatest
    <2>1. \E n \in ids : \A m \in ids : m <= n
        <3> HIDE DEF ids
        <3> QED
            BY <1>4, <1>5, HasGreatest
    <2> HIDE DEF ids
    <2> QED
        BY <2>1, Zenon
<1> HIDE DEF ids, greatest
<1>6. CASE ids = {}
    BY <1>1, <1>3, <1>6
<1>7. CASE ids # {}
    <2>1. greatest \in Nat /\ NextIdAfter(queues) = greatest + 1
        BY <1>1, <1>4, <1>5, <1>7
    <2>2. \A u \in Users : \A i \in 1..Len(queues[u]) : queues[u][i].id <= greatest
        BY <1>3, <1>5, <1>7
    <2>3. \A u \in Users : \A i \in 1..Len(queues[u]) : queues[u][i].id \in Nat
        BY <1>2
    <2> QED
        BY <2>1, <2>2, <2>3
<1> QED
    BY <1>6, <1>7
-----------------------------------------------------------------------------
(* The invariant: what the properties rest on is that identifiers rise within *)
(* every queue and stay below the next one, and where each answer on its way  *)
(* and each request not handled belong in the pipeline.                       *)

QueuesInv ==
    \A u \in Users :
        /\ Rising(queues[u])
        /\ \A i \in 1..Len(queues[u]) : /\ queues[u][i].id < nextBatchId
                                        /\ queues[u][i].write <= Len(written)
                                        /\ written[queues[u][i].write].user = u

IdleInv == idle => stream = "ready" /\ pipeline = <<>>

AnswersInv ==
    /\ stream # "ready" => requests = <<>> /\ answers = <<>>
    /\ stream = "ready" =>
          /\ Len(answers) <= Len(pipeline)
          /\ requests = SubSeq(pipeline, Len(answers) + 1, Len(pipeline))
          /\ \A i \in 1..Len(answers) : /\ answers[i] \in 1..Len(committed)
                                        /\ committed[answers[i]] = pipeline[i].write

IInv ==
    /\ PipelineTypeOK
    /\ QueuesInv
    /\ IsFront(pipeline, Queue)
    /\ IdleInv
    /\ AnswersInv

LEMMA Initially == PipelineInit => IInv
<1> SUFFICES ASSUME PipelineInit PROVE IInv
    OBVIOUS
<1> USE DEF PipelineInit
<1>1. PipelineTypeOK
    <2>1. /\ written \in Seq([user : Users \cup {Other}, key : Keys, valid : BOOLEAN])
          /\ Len(written) <= MaxWrites
          /\ pipeline \in Seq(Batches) /\ requests \in Seq(Batches)
          /\ answers \in Seq(Nat) /\ committed \in Seq(Writes)
        BY PipelineAssumption
    <2>2. queues \in [Users -> Seq(Batches)] /\ callbacks \in [Users -> SUBSET Nat]
        OBVIOUS
    <2>3. outcome \in [Writes -> Outcomes]
        BY DEF Outcomes
    <2>4. stream \in StreamStates /\ faults \in 0..MaxFaults
          /\ nextBatchId \in Nat \ {0} /\ currentUser \in Users
        BY PipelineAssumption DEF StreamStates
    <2>5. idle \in BOOLEAN
        BY Zenon
    <2> QED
        BY <2>1, <2>2, <2>3, <2>4, <2>5 DEF PipelineTypeOK
<1>2. QueuesInv
    <2>1. ASSUME NEW u \in Users PROVE queues[u] = <<>>
        OBVIOUS
    <2>2. Rising(<<>>) /\ 1..Len(<<>>) = {}
        BY DEF Rising
    <2> QED
        BY <2>1, <2>2, Zenon DEF QueuesInv
<1>3. IsFront(pipeline, Queue)
    <2>1. Queue = <<>> /\ pipeline = <<>> /\ <<>> \in Seq(Batches)
        BY DEF Queue
    <2> QED
        BY <2>1, EmptyIsFront
<1>4. IdleInv /\ AnswersInv
    BY DEF IdleInv, AnswersInv
<1> QED
    BY <1>1, <1>2, <1>3, <1>4 DEF IInv

\* The end of a sequence.
LEMMA RestFacts ==
    ASSUME NEW S, NEW s \in Seq(S), NEW m \in Nat \ {0}
    PROVE  /\ SubSeq(s, m, Len(s)) \in Seq(S)
           /\ Len(SubSeq(s, m, Len(s))) = IF m <= Len(s) THEN Len(s) - m + 1 ELSE 0
           /\ \A i \in 1..Len(s) - m + 1 : SubSeq(s, m, Len(s))[i] = s[m + i - 1]
<1> DEFINE n == Len(s)
<1>1. n \in Nat
    OBVIOUS
<1>2. \A i \in m..n : s[i] \in S
    BY <1>1, ElementOfSeq
<1> HIDE DEF n
<1>3. /\ SubSeq(s, m, n) \in Seq(S)
      /\ Len(SubSeq(s, m, n)) = IF m <= n THEN n - m + 1 ELSE 0
      /\ \A i \in 1..n - m + 1 : SubSeq(s, m, n)[i] = s[m + i - 1]
    BY <1>1, <1>2, SubSeqProperties
<1> QED
    BY <1>3 DEF n

\* What is sent of a pipeline, and of what is added to it.
LEMMA ExtendedRest ==
    ASSUME NEW S, NEW s \in Seq(S), NEW t \in Seq(S), Len(s) <= Len(t),
           \A i \in 1..Len(s) : t[i] = s[i],
           NEW n \in 0..Len(s)
    PROVE  SubSeq(s, n + 1, Len(s)) \o SubSeq(t, Len(s) + 1, Len(t)) = SubSeq(t, n + 1, Len(t))
<1> DEFINE k == Len(s)
           first == SubSeq(t, n + 1, k)
<1>1. k \in Nat /\ Len(t) \in Nat /\ n \in Nat /\ n <= k
    OBVIOUS
<1>2. \A i \in n + 1..k : t[i] \in S /\ s[i] \in S /\ t[i] = s[i]
    BY <1>1, ElementOfSeq
<1> HIDE DEF k
<1>3. /\ first \in Seq(S) /\ Len(first) = IF n + 1 <= k THEN k - (n + 1) + 1 ELSE 0
      /\ \A i \in 1..k - (n + 1) + 1 : first[i] = t[n + 1 + i - 1]
    BY <1>1, <1>2, SubSeqProperties
<1>4. /\ SubSeq(s, n + 1, k) \in Seq(S)
      /\ Len(SubSeq(s, n + 1, k)) = IF n + 1 <= k THEN k - (n + 1) + 1 ELSE 0
      /\ \A i \in 1..k - (n + 1) + 1 : SubSeq(s, n + 1, k)[i] = s[n + 1 + i - 1]
    BY <1>1, <1>2, SubSeqProperties
<1>5. SubSeq(s, n + 1, k) = first
    <2> DEFINE mine == SubSeq(s, n + 1, k)
    <2>1. \A i \in 1..k - (n + 1) + 1 : n + 1 + i - 1 \in n + 1..k
        BY <1>1
    <2>2. Len(mine) = Len(first) /\ \A i \in 1..Len(mine) : mine[i] = first[i]
        BY <2>1, <1>1, <1>2, <1>3, <1>4
    <2> HIDE DEF mine, first
    <2>3. mine \in Seq(S)
        BY <1>4 DEF mine
    <2>4. mine = first
        BY <2>2, <2>3, <1>3, SeqEqual
    <2> QED
        BY <2>4 DEF mine
<1> DEFINE m == n + 1
           l == Len(t)
<1>6. m \in 1..Len(t) + 1 /\ k \in m - 1..Len(t) /\ l \in k..Len(t)
    BY <1>1 DEF k
<1> HIDE DEF m, l
<1>7. SubSeq(t, m, k) \o SubSeq(t, k + 1, l) = SubSeq(t, m, l)
    BY <1>6, ConcatAdjacentSubSeq
<1> QED
    BY <1>5, <1>7 DEF k, m, l

LEMMA RestOfTail ==
    ASSUME NEW S, NEW s \in Seq(S), s # <<>>, NEW n \in Nat \ {0}
    PROVE  SubSeq(s, n + 1, Len(s)) = SubSeq(Tail(s), n, Len(Tail(s)))
<1> DEFINE a == SubSeq(s, n + 1, Len(s))
           t == Tail(s)
           b == SubSeq(t, n, Len(t))
<1>1. t \in Seq(S) /\ Len(t) = Len(s) - 1 /\ \A i \in 1..Len(t) : t[i] = s[i + 1]
    BY HeadTailProperties
<1>2. Len(s) \in Nat /\ Len(t) \in Nat
    BY <1>1
<1> HIDE DEF t
<1>3. /\ a \in Seq(S) /\ Len(a) = IF n + 1 <= Len(s) THEN Len(s) - (n + 1) + 1 ELSE 0
      /\ \A i \in 1..Len(s) - (n + 1) + 1 : a[i] = s[n + 1 + i - 1]
    BY RestFacts
<1>4. /\ b \in Seq(S) /\ Len(b) = IF n <= Len(t) THEN Len(t) - n + 1 ELSE 0
      /\ \A i \in 1..Len(t) - n + 1 : b[i] = t[n + i - 1]
    BY <1>1, RestFacts
<1> HIDE DEF a, b
<1>5. Len(a) = Len(b)
    BY <1>1, <1>2, <1>3, <1>4
<1>6. ASSUME NEW i \in 1..Len(a) PROVE a[i] = b[i]
    <2>1. i \in 1..Len(s) - (n + 1) + 1 /\ i \in 1..Len(t) - n + 1 /\ n + i - 1 \in 1..Len(t)
        BY <1>1, <1>2, <1>3
    <2>2. a[i] = s[n + 1 + i - 1] /\ b[i] = s[n + i - 1 + 1]
        BY <2>1, <1>1, <1>3, <1>4
    <2>3. n + 1 + i - 1 = n + i - 1 + 1
        BY <1>3, <2>1
    <2> QED
        BY <2>2, <2>3
<1>7. a = b
    BY <1>3, <1>4, <1>5, <1>6, SeqEqual
<1> QED
    BY <1>7 DEF a, b, t

LEMMA WriteMutationsStep ==
    ASSUME IInv, NEW key \in Keys, NEW valid \in BOOLEAN, WriteMutations(key, valid)
    PROVE  IInv'
<1> DEFINE batch == [id |-> nextBatchId, write |-> Len(written) + 1]
           queue == Append(Queue, batch)
           entry == [user |-> currentUser, key |-> key, valid |-> valid]
           Entries == [user : Users \cup {Other}, key : Keys, valid : BOOLEAN]
<1>1. /\ Len(written) < MaxWrites
      /\ written' = Append(written, entry)
      /\ queues' = [queues EXCEPT ![currentUser] = queue]
      /\ nextBatchId' = nextBatchId + 1
      /\ callbacks' = [callbacks EXCEPT ![currentUser] = @ \cup {batch.id}]
      /\ outcome' = [outcome EXCEPT ![batch.write] = "waiting"]
      /\ FillWritePipeline(pipeline, queue, stream, requests)
      /\ UNCHANGED <<currentUser, answers, committed, faults>>
    BY DEF WriteMutations
<1>2. /\ written \in Seq(Entries) /\ Len(written) \in Nat
      /\ currentUser \in Users /\ queues \in [Users -> Seq(Batches)]
      /\ nextBatchId \in Nat \ {0}
      /\ stream \in StreamStates /\ requests \in Seq(Batches)
      /\ answers \in Seq(Nat) /\ Len(answers) \in Nat
    BY DEF IInv, PipelineTypeOK
<1>3. batch \in Batches /\ batch.id = nextBatchId /\ batch.write = Len(written) + 1
      /\ batch.write \in Writes
    BY <1>1, <1>2, PipelineAssumption DEF Batches, Writes
<1>4. /\ Rising(Queue) /\ IsFront(pipeline, Queue)
      /\ \A i \in 1..Len(Queue) : Queue[i].id < batch.id /\ Queue[i].write < batch.write
    <2>1. /\ Rising(Queue) /\ IsFront(pipeline, Queue)
          /\ \A i \in 1..Len(Queue) : Queue[i].id < nextBatchId /\ Queue[i].write <= Len(written)
        BY <1>2 DEF IInv, QueuesInv, Queue
    <2>2. \A i \in 1..Len(Queue) : Queue[i].write \in 1..MaxWrites
        BY <2>1, QueueFacts
    <2> QED
        BY <2>1, <2>2, <1>2, <1>3
<1> HIDE DEF batch, entry, Entries
<1>5. /\ Rising(queue) /\ Len(queue) = Len(Queue) + 1
      /\ \A i \in 1..Len(Queue) : queue[i] = Queue[i]
      /\ queue[Len(Queue) + 1] = batch
      /\ IsFront(pipeline, queue)
      /\ queue # <<>> /\ queue \in Seq(Batches) /\ Len(Queue) \in Nat
    <2>1. Queue \in Seq(Batches) /\ batch.id >= 1 /\ Len(Queue) \in Nat
        BY <1>2, <1>3, <1>4, QueueFacts
    <2>2. queue \in Seq(Batches) /\ queue # <<>>
        BY <2>1, <1>3, AppendProperties
    <2> QED
        BY <2>1, <2>2, <1>3, <1>4, AppendFacts, AppendIsFront
<1> HIDE DEF queue
<1>6. /\ IsFront(pipeline', queue) /\ pipeline' \in Seq(Batches)
      /\ Len(pipeline) <= Len(pipeline')
      /\ \A i \in 1..Len(pipeline) : pipeline'[i] = pipeline[i]
      /\ stream' \in StreamStates
      /\ stream' = "ready" <=> stream = "ready"
      /\ stream = "ready" =>
            requests' = requests \o SubSeq(pipeline', Len(pipeline) + 1, Len(pipeline'))
      /\ stream # "ready" => requests' = requests
      /\ idle' \in BOOLEAN
      /\ idle' => stream' = "ready" /\ pipeline' = <<>>
    <2>1. (idle => pipeline = <<>>) /\ (stream = "open" => ~idle /\ queue # <<>>)
        BY <1>5 DEF IInv, IdleInv
    <2> QED
        BY <1>1, <1>2, <1>5, <2>1, FillFacts
<1>7. Queue' = queue /\ \A u \in Users : queues'[u] = IF u = currentUser THEN queue ELSE queues[u]
    BY <1>1, <1>2 DEF Queue
<1>8. pipeline \in Seq(Batches) /\ Len(pipeline) \in Nat /\ Len(pipeline') \in Nat
    BY <1>2, <1>6 DEF IInv, PipelineTypeOK
<1>9. AnswersInv'
    <2>1. CASE stream = "ready"
        <3>1. /\ Len(answers) \in 0..Len(pipeline)
              /\ requests = SubSeq(pipeline, Len(answers) + 1, Len(pipeline))
              /\ \A i \in 1..Len(answers) : /\ answers[i] \in 1..Len(committed)
                                            /\ committed[answers[i]] = pipeline[i].write
            BY <2>1, <1>2, <1>8 DEF IInv, AnswersInv
        <3>2. requests' = SubSeq(pipeline', Len(answers) + 1, Len(pipeline'))
            BY <2>1, <3>1, <1>6, <1>8, ExtendedRest
        <3>3. \A i \in 1..Len(answers) : /\ answers[i] \in 1..Len(committed)
                                         /\ committed[answers[i]] = pipeline'[i].write
            <4>1. \A i \in 1..Len(answers) : i \in 1..Len(pipeline)
                BY <3>1, <1>2, <1>8
            <4>2. \A i \in 1..Len(answers) : pipeline'[i] = pipeline[i]
                BY <4>1, <1>6
            <4> QED
                BY <3>1, <4>2
        <3> QED
            BY <2>1, <3>1, <3>2, <3>3, <1>1, <1>2, <1>6, <1>8 DEF AnswersInv
    <2>2. CASE stream # "ready"
        BY <2>2, <1>1, <1>6 DEF IInv, AnswersInv
    <2> QED
        BY <2>1, <2>2
<1>10. /\ written' \in Seq(Entries) /\ Len(written') = Len(written) + 1
       /\ \A i \in 1..Len(written) : written'[i] = written[i]
       /\ written'[Len(written) + 1] = entry /\ entry.user = currentUser
    <2>1. entry \in Entries /\ entry.user = currentUser
        BY <1>2 DEF entry, Entries
    <2> QED
        BY <2>1, <1>1, <1>2, AppendProperties
<1>11. QueuesInv'
    <2> SUFFICES ASSUME NEW u \in Users
                 PROVE  /\ Rising(queues'[u])
                        /\ \A i \in 1..Len(queues'[u]) : /\ queues'[u][i].id < nextBatchId'
                                                         /\ queues'[u][i].write <= Len(written')
                                                         /\ written'[queues'[u][i].write].user = u
        BY DEF QueuesInv
    <2>1. /\ Rising(queues[u])
          /\ \A i \in 1..Len(queues[u]) : /\ queues[u][i].id < nextBatchId
                                          /\ queues[u][i].write <= Len(written)
                                          /\ written[queues[u][i].write].user = u
                                          /\ queues[u][i].id \in Nat
                                          /\ queues[u][i].write \in 1..MaxWrites
        BY QueueFacts DEF IInv, QueuesInv
    <2>2. \A i \in 1..Len(queues[u]) : /\ queues[u][i].id < nextBatchId'
                                       /\ queues[u][i].write <= Len(written')
                                       /\ written'[queues[u][i].write].user = u
        BY <2>1, <1>1, <1>2, <1>10
    <2>3. CASE u # currentUser
        BY <2>1, <2>2, <2>3, <1>7
    <2>4. CASE u = currentUser
        <3>1. queues'[u] = queue /\ Queue = queues[u]
            BY <2>4, <1>7 DEF Queue
        <3>2. \A i \in 1..Len(queue) : i \in 1..Len(Queue) \/ i = Len(Queue) + 1
            BY <1>5
        <3>3. /\ batch.id < nextBatchId' /\ batch.write <= Len(written')
              /\ written'[batch.write].user = u
            BY <1>1, <1>2, <1>3, <1>10, <2>4
        <3>4. \A i \in 1..Len(Queue) : queue[i] = queues[u][i] /\ i \in 1..Len(queues[u])
            BY <3>1, <1>5
        <3>5. ASSUME NEW i \in 1..Len(queue)
              PROVE  /\ queue[i].id < nextBatchId' /\ queue[i].write <= Len(written')
                     /\ written'[queue[i].write].user = u
            <4>1. CASE i \in 1..Len(Queue)
                BY <4>1, <3>4, <2>2
            <4>2. CASE i = Len(Queue) + 1
                BY <4>2, <3>3, <1>5
            <4> QED
                BY <4>1, <4>2, <3>2
        <3> QED
            BY <3>1, <3>5, <1>5
    <2> QED
        BY <2>3, <2>4
<1>12. PipelineTypeOK'
    <2>1. queues' \in [Users -> Seq(Batches)]
        BY <1>1, <1>2, <1>5
    <2>2. callbacks' \in [Users -> SUBSET Nat]
        BY <1>1, <1>2, <1>3 DEF IInv, PipelineTypeOK
    <2>3. outcome' \in [Writes -> Outcomes]
        BY <1>1, <1>3 DEF IInv, PipelineTypeOK, Outcomes
    <2>4. requests' \in Seq(Batches)
        <3>1. SubSeq(pipeline', Len(pipeline) + 1, Len(pipeline')) \in Seq(Batches)
            BY <1>6, <1>8, RestFacts
        <3>2. CASE stream = "ready"
            <4>1. requests \o SubSeq(pipeline', Len(pipeline) + 1, Len(pipeline')) \in Seq(Batches)
                BY <3>1, <1>2, ConcatProperties
            <4> QED
                BY <4>1, <3>2, <1>6
        <3>3. CASE stream # "ready"
            BY <3>3, <1>2, <1>6
        <3> QED
            BY <3>2, <3>3
    <2>5. nextBatchId' \in Nat \ {0} /\ Len(written') <= MaxWrites
        BY <1>1, <1>2, <1>10, PipelineAssumption
    <2>6. written' \in Seq([user : Users \cup {Other}, key : Keys, valid : BOOLEAN])
        BY <1>10 DEF Entries
    <2>7. currentUser' \in Users /\ answers' \in Seq(Nat) /\ committed' \in Seq(Writes)
          /\ faults' \in 0..MaxFaults
        BY <1>1 DEF IInv, PipelineTypeOK
    <2> QED
        BY <2>1, <2>2, <2>3, <2>4, <2>5, <2>6, <2>7, <1>6 DEF PipelineTypeOK
<1>13. IsFront(pipeline', Queue') /\ IdleInv'
    BY <1>6, <1>7 DEF IdleInv
<1> QED
    BY <1>9, <1>11, <1>12, <1>13 DEF IInv, IsFront, Room

\* The batch at the head of the pipeline is settled, by an answer on a ready
\* stream or by the end of one: queue and pipeline move on together, and so do
\* the answers behind it.
\* The head of the pipeline is the first batch of the queue, which loses it.
LEMMA SettledQueue ==
    ASSUME IInv, pipeline # <<>>, NEW told, NEW s, NEW reqs, Settle(told, s, reqs)
    PROVE  /\ Queue # <<>> /\ Head(pipeline) = Queue[1]
           /\ queues' = [queues EXCEPT ![currentUser] = Tail(Queue)]
           /\ Queue' = Tail(Queue)
<1>1. currentUser \in Users /\ queues \in [Users -> Seq(Batches)] /\ Rising(Queue)
    BY DEF IInv, PipelineTypeOK, QueuesInv, Queue
<1>2. Queue # <<>> /\ Head(pipeline) = Queue[1]
    BY <1>1, TailIsFront DEF IInv
<1>3. /\ queues' = [queues EXCEPT ![currentUser] = WithoutBatch(Queue, Queue[1].id)]
      /\ currentUser' = currentUser
    BY <1>2 DEF Settle
<1>4. WithoutBatch(Queue, Queue[1].id) = Tail(Queue)
    BY <1>1, <1>2, TailFacts
<1> QED
    BY <1>1, <1>2, <1>3, <1>4 DEF Queue

LEMMA SettleStep ==
    ASSUME IInv, pipeline # <<>>,
           NEW told \in {"ok", "failed"}, NEW s \in {"ready", "initial"}, NEW reqs,
           Settle(told, s, reqs),
           UNCHANGED <<written, committed, faults>>,
           s = "ready" => /\ stream = "ready" /\ reqs = requests
                          /\ answers # <<>> /\ answers' = Tail(answers),
           s = "initial" => reqs = <<>> /\ answers' = <<>>
    PROVE  IInv'
<1> DEFINE rest == WithoutBatch(Queue, Head(pipeline).id)
           t == Tail(pipeline)
<1>1. /\ NotifyUser(Head(pipeline), told)
      /\ queues' = [queues EXCEPT ![currentUser] = rest]
      /\ FillWritePipeline(t, rest, s, reqs)
      /\ currentUser' = currentUser /\ nextBatchId' = nextBatchId
    BY DEF Settle
<1>2. /\ currentUser \in Users /\ queues \in [Users -> Seq(Batches)]
      /\ requests \in Seq(Batches) /\ answers \in Seq(Nat) /\ Len(answers) \in Nat
      /\ pipeline \in Seq(Batches) /\ Len(pipeline) \in Nat
      /\ callbacks \in [Users -> SUBSET Nat] /\ outcome \in [Writes -> Outcomes]
    BY DEF IInv, PipelineTypeOK
<1>3. Rising(Queue) /\ IsFront(pipeline, Queue)
    BY <1>2 DEF IInv, QueuesInv, Queue
<1>4. /\ Queue # <<>> /\ Head(pipeline) = Queue[1]
      /\ IsFront(t, Tail(Queue))
      /\ Len(t) = Len(pipeline) - 1 /\ Len(pipeline) >= 1
      /\ \A i \in 1..Len(pipeline) - 1 : t[i] = pipeline[i + 1]
    BY <1>3, TailIsFront
<1>5. /\ Rising(Tail(Queue)) /\ rest = Tail(Queue)
      /\ Len(Tail(Queue)) = Len(Queue) - 1
      /\ \A i \in 1..Len(Queue) - 1 : Tail(Queue)[i] = Queue[i + 1]
    BY <1>3, <1>4, TailFacts
<1> HIDE DEF rest
<1>6. /\ Rising(rest) /\ IsFront(t, rest) /\ rest \in Seq(Batches)
      /\ t \in Seq(Batches) /\ Len(t) \in Nat /\ Len(rest) \in Nat
    BY <1>4, <1>5, <1>2, HeadTailProperties DEF Rising
<1> HIDE DEF t
<1>7. /\ IsFront(pipeline', rest) /\ pipeline' \in Seq(Batches)
      /\ Len(t) <= Len(pipeline')
      /\ \A i \in 1..Len(t) : pipeline'[i] = t[i]
      /\ stream' \in StreamStates
      /\ stream' = "ready" <=> s = "ready"
      /\ s = "ready" => requests' = reqs \o SubSeq(pipeline', Len(t) + 1, Len(pipeline'))
      /\ s # "ready" => requests' = reqs
      /\ idle' \in BOOLEAN
      /\ idle' => stream' = "ready" /\ pipeline' = <<>>
    <2>1. (idle => t = <<>>) /\ (s = "open" => ~idle /\ rest # <<>>) /\ s \in StreamStates
        BY DEF IInv, IdleInv, StreamStates
    <2>2. Rising(rest) /\ IsFront(t, rest) /\ FillWritePipeline(t, rest, s, reqs)
        BY <1>1, <1>6
    <2> QED
        BY ONLY <2>1, <2>2, FillFacts
<1>8. Queue' = rest /\ \A u \in Users : queues'[u] = IF u = currentUser THEN rest ELSE queues[u]
    BY <1>1, <1>2 DEF Queue
<1>9. Len(pipeline') \in Nat
    BY <1>7
<1>10. AnswersInv'
    <2>1. CASE s = "initial"
        BY <2>1, <1>7 DEF AnswersInv
    <2>2. CASE s = "ready"
        <3> DEFINE n == Len(answers) - 1
        <3>1. /\ Len(answers) <= Len(pipeline)
              /\ requests = SubSeq(pipeline, Len(answers) + 1, Len(pipeline))
              /\ \A i \in 1..Len(answers) : /\ answers[i] \in 1..Len(committed)
                                            /\ committed[answers[i]] = pipeline[i].write
            BY <2>2 DEF IInv, AnswersInv
        <3>2. /\ answers' \in Seq(Nat) /\ Len(answers') = n /\ Len(answers) \in Nat \ {0}
              /\ \A i \in 1..n : answers'[i] = answers[i + 1]
            BY <2>2, <1>2, EmptySeq, HeadTailProperties
        <3>3. n \in 0..Len(t) /\ n \in Nat
            BY <3>1, <3>2, <1>2, <1>4
        <3>4. requests = SubSeq(t, n + 1, Len(t))
            <4>1. SubSeq(pipeline, Len(answers) + 1, Len(pipeline))
                    = SubSeq(t, Len(answers), Len(t))
                BY <3>2, <1>2, RestOfTail DEF t
            <4>2. n + 1 = Len(answers)
                BY <3>2
            <4> QED
                BY <4>1, <4>2, <3>1
        <3> HIDE DEF n
        <3>5. SubSeq(t, n + 1, Len(t)) \o SubSeq(pipeline', Len(t) + 1, Len(pipeline'))
                = SubSeq(pipeline', n + 1, Len(pipeline'))
            BY <3>3, <1>6, <1>7, ExtendedRest
        <3>6. requests' = SubSeq(pipeline', n + 1, Len(pipeline'))
            BY <3>4, <3>5, <2>2, <1>7
        <3>7. ASSUME NEW i \in 1..n
              PROVE  answers'[i] \in 1..Len(committed) /\ committed[answers'[i]] = pipeline'[i].write
            <4>1. i + 1 \in 1..Len(answers) /\ i \in 1..Len(t) /\ i \in 1..Len(pipeline) - 1
                BY <3>2, <3>3, <1>4 DEF n
            <4>2. answers'[i] = answers[i + 1] /\ pipeline'[i] = pipeline[i + 1]
                BY <4>1, <3>2, <1>4, <1>7
            <4> QED
                BY <4>1, <4>2, <3>1
        <3>8. n <= Len(pipeline')
            BY <3>3, <1>6, <1>7, <1>9
        <3>9. stream' = "ready" /\ committed' = committed
            BY <2>2, <1>7
        <3> QED
            BY <3>2, <3>6, <3>7, <3>8, <3>9 DEF AnswersInv
    <2> QED
        BY <2>1, <2>2
<1>11. QueuesInv'
    <2> SUFFICES ASSUME NEW u \in Users
                 PROVE  /\ Rising(queues'[u])
                        /\ \A i \in 1..Len(queues'[u]) : /\ queues'[u][i].id < nextBatchId
                                                         /\ queues'[u][i].write <= Len(written)
                                                         /\ written[queues'[u][i].write].user = u
        BY <1>1 DEF QueuesInv
    <2>1. /\ Rising(queues[u])
          /\ \A i \in 1..Len(queues[u]) : /\ queues[u][i].id < nextBatchId
                                          /\ queues[u][i].write <= Len(written)
                                          /\ written[queues[u][i].write].user = u
        BY DEF IInv, QueuesInv
    <2>2. CASE u # currentUser
        BY <2>1, <2>2, <1>8
    <2>3. CASE u = currentUser
        <3>1. queues'[u] = rest /\ queues[u] = Queue
            BY <2>3, <1>8 DEF Queue
        <3>2. \A i \in 1..Len(rest) : rest[i] = Queue[i + 1] /\ i + 1 \in 1..Len(Queue)
            BY <1>5, <1>6
        <3> QED
            BY <3>1, <3>2, <2>1, <1>6
    <2> QED
        BY <2>2, <2>3
<1>12. PipelineTypeOK'
    <2>1. queues' \in [Users -> Seq(Batches)]
        BY <1>1, <1>2, <1>6
    <2>2. callbacks' \in [Users -> SUBSET Nat]
        <3>1. CASE UNCHANGED callbacks
            BY <3>1, <1>2
        <3>2. CASE callbacks' = [callbacks EXCEPT ![currentUser] = @ \ {Head(pipeline).id}]
            <4>1. callbacks[currentUser] \ {Head(pipeline).id} \in SUBSET Nat
                BY <1>2
            <4> QED
                BY <3>2, <4>1, <1>2
        <3> QED
            BY <3>1, <3>2, <1>1 DEF NotifyUser
    <2>3. outcome' \in [Writes -> Outcomes]
        BY <1>1, <1>2 DEF NotifyUser, Outcomes
    <2>4. requests' \in Seq(Batches)
        <3>1. CASE s = "ready"
            <4>1. SubSeq(pipeline', Len(t) + 1, Len(pipeline')) \in Seq(Batches)
                BY <1>6, <1>7, RestFacts
            <4>2. requests \o SubSeq(pipeline', Len(t) + 1, Len(pipeline')) \in Seq(Batches)
                BY <4>1, <1>2, ConcatProperties
            <4> QED
                BY <3>1, <4>2, <1>7
        <3>2. CASE s = "initial"
            BY <3>2, <1>7
        <3> QED
            BY <3>1, <3>2
    <2>5. answers' \in Seq(Nat)
        <3>1. CASE s = "ready"
            BY <3>1, <1>2, HeadTailProperties
        <3>2. CASE s = "initial"
            BY <3>2
        <3> QED
            BY <3>1, <3>2
    <2>6. /\ written' \in Seq([user : Users \cup {Other}, key : Keys, valid : BOOLEAN])
          /\ Len(written') <= MaxWrites
          /\ currentUser' \in Users /\ nextBatchId' \in Nat \ {0}
          /\ committed' \in Seq(Writes) /\ faults' \in 0..MaxFaults
        BY <1>1 DEF IInv, PipelineTypeOK
    <2> QED
        BY <2>1, <2>2, <2>3, <2>4, <2>5, <2>6, <1>7 DEF PipelineTypeOK
<1>13. IsFront(pipeline', Queue') /\ IdleInv'
    BY <1>7, <1>8 DEF IdleInv
<1> QED
    BY <1>10, <1>11, <1>12, <1>13 DEF IInv, IsFront, Room

\* The queue of user u takes over on streams that start from nothing.
LEMMA RefillStep ==
    ASSUME IInv, NEW u \in Users, NEW s \in StreamStates \ {"open", "ready"},
           currentUser' = u,
           FillWritePipeline(<<>>, queues[u], s, <<>>),
           answers' = <<>>,
           nextBatchId' \in {nextBatchId, NextIdAfter(queues)},
           callbacks' \in [Users -> SUBSET Nat],
           outcome' \in [Writes -> Outcomes],
           faults' \in 0..MaxFaults,
           UNCHANGED <<written, queues, committed>>
    PROVE  IInv'
<1>1. \A v \in Users :
         /\ Rising(queues[v])
         /\ \A i \in 1..Len(queues[v]) : /\ queues[v][i].id < nextBatchId
                                         /\ queues[v][i].write <= Len(written)
                                         /\ written[queues[v][i].write].user = v
    BY DEF IInv, QueuesInv
<1>2. queues[u] \in Seq(Batches) /\ Rising(queues[u]) /\ IsFront(<<>>, queues[u])
    BY <1>1, EmptyIsFront DEF Rising
<1> DEFINE none == <<>>
<1>3. none \in Seq(Batches) /\ Len(none) = 0 /\ (idle => none = <<>>)
      /\ IsFront(none, queues[u]) /\ FillWritePipeline(none, queues[u], s, none)
    BY <1>2
<1> HIDE DEF none
<1>4. /\ IsFront(pipeline', queues[u]) /\ pipeline' \in Seq(Batches)
      /\ stream' \in StreamStates /\ stream' # "ready"
      /\ requests' = none
      /\ idle' \in BOOLEAN
      /\ idle' => stream' = "ready" /\ pipeline' = <<>>
    <2>1. s \in StreamStates /\ s # "ready" /\ s # "open"
        OBVIOUS
    <2> QED
        BY <1>2, <1>3, <2>1, FillFacts
<1>5. /\ nextBatchId' \in Nat \ {0}
      /\ \A v \in Users : \A i \in 1..Len(queues[v]) : queues[v][i].id < nextBatchId'
    <2>1. nextBatchId \in Nat \ {0}
        BY DEF IInv, PipelineTypeOK
    <2>2. CASE nextBatchId' = nextBatchId
        BY <1>1, <2>1, <2>2
    <2>3. CASE nextBatchId' = NextIdAfter(queues)
        <3>1. /\ NextIdAfter(queues) \in Nat \ {0}
              /\ \A v \in Users : \A i \in 1..Len(queues[v]) :
                    queues[v][i].id < NextIdAfter(queues)
            BY <1>1, <2>1, NextIdFacts
        <3> QED
            BY <2>3, <3>1
    <2> QED
        BY <2>2, <2>3
<1>6. QueuesInv'
    BY <1>1, <1>5 DEF QueuesInv
<1>7. AnswersInv' /\ IdleInv'
    BY <1>4 DEF AnswersInv, IdleInv, none
<1>8. PipelineTypeOK'
    BY <1>3, <1>4, <1>5 DEF IInv, PipelineTypeOK, none
<1>9. Queue' = queues[u]
    BY DEF Queue
<1> QED
    BY <1>4, <1>6, <1>7, <1>8, <1>9 DEF IInv, IsFront, Room

\* A step of the stream or the server that leaves queues and pipeline alone.
LEMMA StreamOnlyStep ==
    ASSUME IInv, UNCHANGED <<written, clientVars, pipeline>>,
           stream' \in StreamStates, idle' \in BOOLEAN,
           requests' \in Seq(Batches), answers' \in Seq(Nat),
           committed' \in Seq(Writes), faults' \in 0..MaxFaults,
           IdleInv', AnswersInv'
    PROVE  IInv'
<1>1. PipelineTypeOK'
    BY DEF IInv, PipelineTypeOK, clientVars
<1>2. QueuesInv'
    BY DEF IInv, QueuesInv, clientVars
<1>3. Queue' = Queue /\ pipeline' = pipeline
    BY DEF Queue, clientVars
<1>4. IsFront(pipeline, Queue)'
    BY <1>3 DEF IInv, IsFront, Room
<1> QED
    BY <1>1, <1>2, <1>4 DEF IInv

LEMMA CommitStep == IInv /\ Commit => IInv'
<1> SUFFICES ASSUME IInv, Commit PROVE IInv'
    OBVIOUS
<1>1. /\ requests # <<>> /\ requests' = Tail(requests)
      /\ committed' = Append(committed, Head(requests).write)
      /\ answers' = Append(answers, Len(committed) + 1)
      /\ UNCHANGED <<written, clientVars, pipeline, stream, idle, faults>>
    BY DEF Commit
<1>2. /\ requests \in Seq(Batches) /\ answers \in Seq(Nat) /\ committed \in Seq(Writes)
      /\ pipeline \in Seq(Batches) /\ stream \in StreamStates /\ idle \in BOOLEAN
      /\ faults \in 0..MaxFaults
      /\ Len(answers) \in Nat /\ Len(committed) \in Nat /\ Len(pipeline) \in Nat
    BY DEF IInv, PipelineTypeOK
<1> DEFINE n == Len(answers)
           m == n + 1
<1>3. /\ stream = "ready" /\ n <= Len(pipeline)
      /\ requests = SubSeq(pipeline, m, Len(pipeline))
      /\ \A i \in 1..n : answers[i] \in 1..Len(committed) /\ committed[answers[i]] = pipeline[i].write
    BY <1>1 DEF IInv, AnswersInv
<1>4. m \in Nat \ {0} /\ n \in Nat
    BY <1>2
<1> HIDE DEF m
<1>5. /\ Len(requests) = IF m <= Len(pipeline) THEN Len(pipeline) - m + 1 ELSE 0
      /\ \A i \in 1..Len(pipeline) - m + 1 : requests[i] = pipeline[m + i - 1]
    BY <1>2, <1>3, <1>4, RestFacts
<1>6. /\ Len(requests) \in Nat \ {0} /\ Head(requests) = requests[1]
      /\ Tail(requests) \in Seq(Batches) /\ Len(Tail(requests)) = Len(requests) - 1
      /\ \A i \in 1..Len(Tail(requests)) : Tail(requests)[i] = requests[i + 1]
    BY <1>1, <1>2, EmptySeq, HeadTailProperties
<1>7. m <= Len(pipeline) /\ Len(requests) = Len(pipeline) - m + 1
    BY <1>5, <1>6
<1>8. Head(requests) = pipeline[m]
    <2>1. 1 \in 1..Len(pipeline) - m + 1 /\ m + 1 - 1 = m
        BY <1>2, <1>4, <1>7
    <2> QED
        BY <2>1, <1>5, <1>6
<1>9. Head(requests).write \in Writes
    <2>1. requests[1] \in Batches
        BY <1>2, <1>6, ElementOfSeq
    <2> QED
        BY <2>1, <1>6 DEF Batches
<1>10. /\ committed' \in Seq(Writes) /\ Len(committed') = Len(committed) + 1
       /\ \A i \in 1..Len(committed) : committed'[i] = committed[i]
       /\ committed'[Len(committed) + 1] = pipeline[m].write
    BY <1>1, <1>2, <1>8, <1>9, AppendProperties
<1>11. /\ answers' \in Seq(Nat) /\ Len(answers') = m
       /\ \A i \in 1..n : answers'[i] = answers[i]
       /\ answers'[m] = Len(committed) + 1
    BY <1>1, <1>2, AppendProperties DEF m
<1>12. Tail(requests) = SubSeq(pipeline, m + 1, Len(pipeline))
    <2> DEFINE r == SubSeq(pipeline, m + 1, Len(pipeline))
               t == Tail(requests)
               k == m + 1
    <2>1. k \in Nat \ {0} /\ k = m + 1
        BY <1>4
    <2> HIDE DEF k
    <2>2. /\ SubSeq(pipeline, k, Len(pipeline)) \in Seq(Batches)
          /\ Len(SubSeq(pipeline, k, Len(pipeline)))
                = IF k <= Len(pipeline) THEN Len(pipeline) - k + 1 ELSE 0
          /\ \A i \in 1..Len(pipeline) - k + 1 :
                SubSeq(pipeline, k, Len(pipeline))[i] = pipeline[k + i - 1]
        BY <1>2, <2>1, RestFacts
    <2>3. r = SubSeq(pipeline, k, Len(pipeline))
        BY DEF k
    <2> HIDE DEF r
    <2>4. Len(r) = Len(t) /\ Len(t) = Len(pipeline) - m
        <3>1. Len(t) = Len(pipeline) - m
            BY <1>2, <1>4, <1>6, <1>7
        <3>2. Len(r) = IF k <= Len(pipeline) THEN Len(pipeline) - k + 1 ELSE 0
            BY <2>2, <2>3
        <3>3. m \in Nat /\ m <= Len(pipeline) /\ Len(pipeline) \in Nat
            BY <1>2, <1>4, <1>7
        <3> HIDE DEF t
        <3> QED
            BY <3>1, <3>2, <3>3, <2>1
    <2>5. ASSUME NEW i \in 1..Len(t) PROVE t[i] = r[i]
        <3>1. /\ i \in 1..Len(pipeline) - k + 1 /\ i + 1 \in 1..Len(pipeline) - m + 1
              /\ k + i - 1 = m + (i + 1) - 1
            BY <2>1, <2>4, <1>2, <1>4, <1>7
        <3>2. r[i] = pipeline[k + i - 1] /\ t[i] = requests[i + 1]
            BY <3>1, <2>2, <2>3, <1>6
        <3>3. requests[i + 1] = pipeline[m + (i + 1) - 1]
            BY <3>1, <1>5
        <3> QED
            BY <3>1, <3>2, <3>3
    <2>6. t \in Seq(Batches) /\ r \in Seq(Batches)
        BY <2>2, <2>3, <1>6
    <2> HIDE DEF t
    <2>7. t = r
        BY <2>4, <2>5, <2>6, SeqEqual
    <2> QED
        BY <2>7 DEF t, r
<1>13. ASSUME NEW i \in 1..m
       PROVE  answers'[i] \in 1..Len(committed') /\ committed'[answers'[i]] = pipeline[i].write
    <2>1. CASE i = m
        <3>1. answers'[i] = Len(committed) + 1 /\ committed'[Len(committed) + 1] = pipeline[i].write
            BY <2>1, <1>10, <1>11
        <3> QED
            BY <3>1, <1>2, <1>10
    <2>2. CASE i \in 1..n
        <3>1. /\ answers'[i] = answers[i] /\ answers[i] \in 1..Len(committed)
              /\ committed[answers[i]] = pipeline[i].write
            BY <2>2, <1>3, <1>11
        <3>2. answers[i] \in 1..Len(committed') /\ committed'[answers[i]] = committed[answers[i]]
            BY <3>1, <1>2, <1>10
        <3> QED
            BY <3>1, <3>2
    <2>3. i = m \/ i \in 1..n
        BY <1>4 DEF m
    <2> QED
        BY <2>1, <2>2, <2>3
<1>14. AnswersInv'
    <2>1. stream' = "ready" /\ pipeline' = pipeline
        BY <1>1, <1>3
    <2> QED
        BY <2>1, <1>1, <1>7, <1>11, <1>12, <1>13 DEF AnswersInv
<1>15. IdleInv'
    BY <1>1 DEF IInv, IdleInv
<1>16. UNCHANGED <<written, clientVars, pipeline>>
    BY <1>1
<1> QED
    BY <1>1, <1>2, <1>6, <1>10, <1>11, <1>14, <1>15, <1>16, StreamOnlyStep

LEMMA CommitOtherStep ==
    ASSUME IInv, NEW key \in Keys, CommitOther(key) PROVE IInv'
<1> DEFINE Entries == [user : Users \cup {Other}, key : Keys, valid : BOOLEAN]
           entry == [user |-> Other, key |-> key, valid |-> TRUE]
           w == Len(written) + 1
<1>1. /\ w - 1 < MaxWrites /\ written' = Append(written, entry)
      /\ committed' = Append(committed, w)
      /\ UNCHANGED <<clientVars, streamVars, faults>>
    BY DEF CommitOther
<1>2. /\ written \in Seq(Entries) /\ Len(written) \in Nat /\ Len(written) < MaxWrites
      /\ committed \in Seq(Writes) /\ entry \in Entries /\ Len(committed) \in Nat
    BY DEF IInv, PipelineTypeOK, CommitOther
<1>3. w \in Writes /\ w <= MaxWrites
    BY <1>2, PipelineAssumption DEF Writes
<1> HIDE DEF w, entry
<1>4. /\ written' \in Seq(Entries) /\ Len(written') = Len(written) + 1
      /\ \A i \in 1..Len(written) : written'[i] = written[i]
    BY <1>1, <1>2, AppendProperties
<1>5. /\ committed' \in Seq(Writes) /\ Len(committed') = Len(committed) + 1
      /\ \A i \in 1..Len(committed) : committed'[i] = committed[i]
    BY <1>1, <1>2, <1>3, AppendProperties
<1>6. PipelineTypeOK'
    BY <1>1, <1>3, <1>4, <1>5 DEF IInv, PipelineTypeOK, clientVars, streamVars, w, Entries
<1>7. QueuesInv'
    <2> SUFFICES ASSUME NEW u \in Users
                 PROVE  /\ Rising(queues[u])
                        /\ \A i \in 1..Len(queues[u]) : /\ queues[u][i].id < nextBatchId
                                                        /\ queues[u][i].write <= Len(written')
                                                        /\ written'[queues[u][i].write].user = u
        BY <1>1 DEF QueuesInv, clientVars
    <2>1. /\ Rising(queues[u])
          /\ \A i \in 1..Len(queues[u]) : /\ queues[u][i].id < nextBatchId
                                          /\ queues[u][i].write <= Len(written)
                                          /\ written[queues[u][i].write].user = u
                                          /\ queues[u][i].write \in 1..MaxWrites
        BY QueueFacts DEF IInv, QueuesInv
    <2> QED
        BY <2>1, <1>2, <1>4
<1>8. AnswersInv'
    <2>1. \A i \in 1..Len(committed) : i \in 1..Len(committed')
        BY <1>2, <1>5
    <2> QED
        BY <2>1, <1>1, <1>5 DEF IInv, AnswersInv, streamVars
<1>9. IdleInv'
    BY <1>1 DEF IInv, IdleInv, streamVars
<1>10. pipeline' = pipeline /\ Queue' = Queue
    BY <1>1 DEF Queue, clientVars, streamVars
<1>11. IsFront(pipeline, Queue)'
    BY <1>10 DEF IInv, IsFront, Room
<1> QED
    BY <1>6, <1>7, <1>8, <1>9, <1>11 DEF IInv

\* Every step keeps the invariant.
LEMMA Invariant == IInv /\ [PipelineNext]_pipelineVars => IInv'
<1> SUFFICES ASSUME IInv, [PipelineNext]_pipelineVars PROVE IInv'
    OBVIOUS
<1>0. /\ stream \in StreamStates /\ idle \in BOOLEAN /\ pipeline \in Seq(Batches)
      /\ requests \in Seq(Batches) /\ answers \in Seq(Nat) /\ committed \in Seq(Writes)
      /\ faults \in 0..MaxFaults /\ Len(pipeline) \in Nat
      /\ callbacks \in [Users -> SUBSET Nat] /\ outcome \in [Writes -> Outcomes]
      /\ currentUser \in Users
    BY DEF IInv, PipelineTypeOK
<1>1. ASSUME NEW key \in Keys, NEW valid \in BOOLEAN, WriteMutations(key, valid) PROVE IInv'
    BY <1>1, WriteMutationsStep
<1>2. ASSUME NEW key \in Keys, CommitOther(key) PROVE IInv'
    BY <1>2, CommitOtherStep
<1>3. ASSUME NEW u \in Users, HandleCredentialChange(u) PROVE IInv'
    <2> DEFINE s == IF stream = "error" THEN stream ELSE "initial"
    <2>1. /\ currentUser' = u /\ FillWritePipeline(<<>>, queues[u], s, <<>>)
          /\ answers' = <<>> /\ UNCHANGED <<written, queues, committed>>
          /\ nextBatchId' \in {nextBatchId, NextIdAfter(queues)}
          /\ callbacks' = callbacks /\ outcome' = outcome
        BY <1>3 DEF HandleCredentialChange
    <2>2. s \in StreamStates \ {"open", "ready"}
        BY <1>0 DEF StreamStates
    <2>3. faults' \in 0..MaxFaults
        BY <1>0, <1>3, PipelineAssumption DEF HandleCredentialChange
    <2> HIDE DEF s
    <2> QED
        BY <1>0, <2>1, <2>2, <2>3, RefillStep
<1>4. ASSUME Relaunch PROVE IInv'
    <2>1. /\ currentUser' = currentUser
          /\ FillWritePipeline(<<>>, queues[currentUser], "initial", <<>>)
          /\ answers' = <<>> /\ UNCHANGED <<written, queues, committed>>
          /\ nextBatchId' \in {nextBatchId, NextIdAfter(queues)}
          /\ callbacks' \in [Users -> SUBSET Nat]
        BY <1>4 DEF Relaunch, Queue
    <2>2. outcome' \in [Writes -> Outcomes]
        BY <1>0, <1>4 DEF Relaunch, Outcomes
    <2>3. faults' \in 0..MaxFaults /\ "initial" \in StreamStates \ {"open", "ready"}
        BY <1>0, <1>4, PipelineAssumption DEF Relaunch, StreamStates
    <2> QED
        BY <1>0, <2>1, <2>2, <2>3, RefillStep
<1>5. ASSUME BackoffElapses PROVE IInv'
    <2>1. IdleInv' /\ AnswersInv'
        BY <1>5 DEF BackoffElapses, IInv, IdleInv, AnswersInv
    <2> QED
        BY <1>0, <1>5, <2>1, StreamOnlyStep DEF BackoffElapses, StreamStates
<1>6. ASSUME OnStreamStart PROVE IInv'
    <2>1. IdleInv' /\ AnswersInv'
        BY <1>6 DEF OnStreamStart, IInv, IdleInv, AnswersInv
    <2> QED
        BY <1>0, <1>6, <2>1, StreamOnlyStep DEF OnStreamStart, StreamStates
<1>7. ASSUME OnWriteStreamHandshakeComplete PROVE IInv'
    <2>1. requests = <<>> /\ answers = <<>>
        BY <1>7 DEF OnWriteStreamHandshakeComplete, IInv, AnswersInv
    <2>2. SubSeq(pipeline, 1, Len(pipeline)) = pipeline
        BY <1>0, SubSeqFull
    <2>3. AnswersInv'
        BY <1>0, <1>7, <2>1, <2>2 DEF OnWriteStreamHandshakeComplete, AnswersInv
    <2>4. IdleInv'
        BY <1>7 DEF OnWriteStreamHandshakeComplete, IInv, IdleInv
    <2>5. idle' \in BOOLEAN
        BY <1>7, Zenon DEF OnWriteStreamHandshakeComplete
    <2> QED
        BY <1>0, <1>7, <2>3, <2>4, <2>5, StreamOnlyStep
           DEF OnWriteStreamHandshakeComplete, StreamStates
<1>8. ASSUME OnWriteStreamMutationResult PROVE IInv'
    <2>1. stream = "ready" /\ Len(answers) <= Len(pipeline) /\ Len(answers) \in Nat
        BY <1>0, <1>8 DEF OnWriteStreamMutationResult, IInv, AnswersInv
    <2>2. pipeline # <<>>
        BY <1>0, <1>8, <2>1, EmptySeq DEF OnWriteStreamMutationResult
    <2> QED
        BY <1>8, <2>1, <2>2, SettleStep DEF OnWriteStreamMutationResult
<1>9. ASSUME HandleWriteError PROVE IInv'
    <2>1. stream = "ready" /\ requests = SubSeq(pipeline, Len(answers) + 1, Len(pipeline))
        BY <1>9 DEF HandleWriteError, IInv, AnswersInv
    <2>2. pipeline # <<>>
        <3>1. answers = <<>> /\ requests # <<>>
            BY <1>9 DEF HandleWriteError
        <3>2. CASE pipeline = <<>>
            <4>1. requests = SubSeq(pipeline, 1, 0)
                BY <2>1, <3>1, <3>2
            <4> QED
                BY <4>1, <3>1, SubSeqEmpty
        <3> QED
            BY <3>2
    <2> QED
        BY <1>9, <2>2, SettleStep DEF HandleWriteError
<1>10. ASSUME Commit PROVE IInv'
    BY <1>10, CommitStep
<1>11. ASSUME OnWriteStreamClose PROVE IInv'
    <2>1. stream' \in StreamStates /\ stream' # "ready" /\ idle' \in BOOLEAN
        BY <1>11 DEF OnWriteStreamClose, StreamStates
    <2>2. IdleInv' /\ AnswersInv'
        BY <1>11, <2>1 DEF OnWriteStreamClose, IdleInv, AnswersInv
    <2>3. /\ UNCHANGED <<written, clientVars, pipeline>> /\ requests' = <<>> /\ answers' = <<>>
          /\ faults' \in 0..MaxFaults /\ committed' = committed
        BY <1>0, <1>11, PipelineAssumption DEF OnWriteStreamClose
    <2> QED
        BY <1>0, <2>1, <2>2, <2>3, StreamOnlyStep
<1>12. ASSUME IdleTimeout PROVE IInv'
    <2>1. stream' \in StreamStates /\ stream' # "ready" /\ idle' \in BOOLEAN
        BY <1>12 DEF IdleTimeout, StreamStates
    <2>2. IdleInv' /\ AnswersInv'
        BY <1>12, <2>1 DEF IdleTimeout, IdleInv, AnswersInv
    <2>3. /\ UNCHANGED <<written, clientVars, pipeline>> /\ requests' = <<>> /\ answers' = <<>>
          /\ faults' = faults /\ committed' = committed
        BY <1>12 DEF IdleTimeout
    <2> QED
        BY <1>0, <2>1, <2>2, <2>3, StreamOnlyStep
<1>13. CASE UNCHANGED pipelineVars
    <2>1. UNCHANGED <<written, clientVars, pipeline, stream, idle, requests, answers,
                      committed, faults>>
        BY <1>13 DEF pipelineVars, streamVars
    <2>2. IdleInv' /\ AnswersInv'
        BY <2>1 DEF IInv, IdleInv, AnswersInv
    <2> QED
        BY <1>0, <2>1, <2>2, StreamOnlyStep
<1> QED
    BY <1>1, <1>2, <1>3, <1>4, <1>5, <1>6, <1>7, <1>8, <1>9, <1>10, <1>11, <1>12, <1>13
       DEF PipelineNext, StreamStep

LEMMA Inductive == PipelineSpec => []IInv
    BY Initially, Invariant, PTL DEF PipelineSpec
-----------------------------------------------------------------------------
(* What follows. *)

LEMMA Promises ==
    IInv => PipelineIsQueueFront /\ AnswersMatchPipeline /\ IdleStreamIsNotNeeded
<1> SUFFICES ASSUME IInv
             PROVE  PipelineIsQueueFront /\ AnswersMatchPipeline /\ IdleStreamIsNotNeeded
    OBVIOUS
<1>1. PipelineIsQueueFront
    <2>1. IsFront(pipeline, Queue) /\ Queue \in Seq(Batches)
        BY DEF IInv, PipelineTypeOK, Queue
    <2>2. Len(pipeline) <= Len(Queue)
        BY <2>1, FrontFacts
    <2> QED
        BY <2>1, <2>2 DEF PipelineIsQueueFront, IsFront
<1>2. AnswersMatchPipeline
    <2>1. DOMAIN answers = 1..Len(answers) /\ Len(answers) \in Nat /\ Len(pipeline) \in Nat
        BY DEF IInv, PipelineTypeOK
    <2> QED
        BY <2>1 DEF IInv, AnswersInv, AnswersMatchPipeline
<1>3. IdleStreamIsNotNeeded
    BY DEF IInv, IdleInv, IdleStreamIsNotNeeded
<1> QED
    BY <1>1, <1>2, <1>3

\* The state of the pipeline stays within its types.
THEOREM PipelineTypeCorrect == PipelineSpec => []PipelineTypeOK
<1>1. IInv => PipelineTypeOK
    BY DEF IInv
<1> QED
    BY <1>1, Inductive, PTL

\* What is in flight is always the front of the current customer's queue on
\* disk, whatever became of streams, users and the app (FillWritePipeline,
\* OnWriteStreamMutationResult, HandleCredentialChange).
THEOREM FrontOfQueue == PipelineSpec => []PipelineIsQueueFront
    BY Promises, Inductive, PTL

\* Positions relate answers to batches: on a ready stream the answers on their
\* way are of the first batches of the pipeline and the others are being asked,
\* so OnWriteStreamMutationResult never takes an answer for another batch's.
THEOREM AnswersMatch == PipelineSpec => []AnswersMatchPipeline
    BY Promises, Inductive, PTL

\* The idle timer never stops a stream something waits for: the HARD_ASSERT of
\* OnWriteStreamClose holds.
THEOREM IdleIsNotNeeded == PipelineSpec => []IdleStreamIsNotNeeded
    BY Promises, Inductive, PTL

-----------------------------------------------------------------------------
(* The pipeline implements ordered writes. *)

(* What is committed was made and is valid. *)
LogInv ==
    \A v \in 1..Len(committed) : /\ committed[v] \in 1..Len(written)
                                 /\ written[committed[v]].valid

(* A batch has a callback exactly if its write is waiting to be answered. *)
CallbacksInv ==
    \A u \in Users : \A i \in 1..Len(queues[u]) :
        queues[u][i].id \in callbacks[u] <=> outcome[queues[u][i].write] = "waiting"

(* After the last answer on its way nothing of the customer is committed. *)
LastAnswerInv ==
    answers # <<>> =>
        \A later \in 1..Len(committed) :
            later > answers[Len(answers)] => written[committed[later]].user # currentUser

OrderInv == IInv /\ LogInv /\ CallbacksInv /\ LastAnswerInv

\* The writes of a queue, which are what is pending for its user.
WritesOf(q) == [i \in DOMAIN q |-> q[i].write]

LEMMA WritesOfFacts ==
    ASSUME NEW q \in Seq(Batches)
    PROVE  /\ WritesOf(q) \in Seq(Writes) /\ Len(WritesOf(q)) = Len(q)
           /\ DOMAIN WritesOf(q) = 1..Len(q)
           /\ \A i \in 1..Len(q) : WritesOf(q)[i] = q[i].write /\ q[i].write \in Writes
<1>1. DOMAIN q = 1..Len(q) /\ Len(q) \in Nat
    OBVIOUS
<1>2. \A i \in 1..Len(q) : q[i] \in Batches
    BY ElementOfSeq
<1>3. \A i \in 1..Len(q) : q[i].write \in Writes
    BY <1>2 DEF Batches
<1>4. WritesOf(q) = [i \in 1..Len(q) |-> q[i].write]
    BY <1>1 DEF WritesOf
<1>5. WritesOf(q) \in [1..Len(q) -> Writes]
    BY <1>3, <1>4
<1>6. WritesOf(q) \in Seq(Writes) /\ Len(WritesOf(q)) = Len(q)
    BY <1>1, <1>5
<1> QED
    BY <1>3, <1>4, <1>6

LEMMA WritesOfAppend ==
    ASSUME NEW q \in Seq(Batches), NEW batch \in Batches
    PROVE  WritesOf(Append(q, batch)) = Append(WritesOf(q), batch.write)
<1> DEFINE a == Append(q, batch)
           w == WritesOf(q)
<1>1. /\ a \in Seq(Batches) /\ Len(a) = Len(q) + 1 /\ Len(q) \in Nat
      /\ \A i \in 1..Len(q) : a[i] = q[i]
      /\ a[Len(q) + 1] = batch
    BY AppendProperties
<1>2. batch.write \in Writes
    BY DEF Batches
<1>3. w \in Seq(Writes) /\ Len(w) = Len(q) /\ \A i \in 1..Len(q) : w[i] = q[i].write
    BY WritesOfFacts
<1> HIDE DEF a, w
<1>4. /\ WritesOf(a) \in Seq(Writes) /\ Len(WritesOf(a)) = Len(q) + 1
      /\ \A i \in 1..Len(q) + 1 : WritesOf(a)[i] = a[i].write
    BY <1>1, WritesOfFacts
<1>5. /\ Append(w, batch.write) \in Seq(Writes)
      /\ Len(Append(w, batch.write)) = Len(q) + 1
      /\ \A i \in 1..Len(q) : Append(w, batch.write)[i] = q[i].write
      /\ Append(w, batch.write)[Len(q) + 1] = batch.write
    BY <1>2, <1>3, AppendProperties
<1>6. ASSUME NEW i \in 1..Len(q) + 1 PROVE WritesOf(a)[i] = Append(w, batch.write)[i]
    <2>1. i \in 1..Len(q) \/ i = Len(q) + 1
        BY <1>1
    <2> QED
        BY <2>1, <1>1, <1>4, <1>5
<1>7. WritesOf(a) = Append(w, batch.write)
    BY <1>4, <1>5, <1>6, SeqEqual
<1> QED
    BY <1>7 DEF a, w

LEMMA WritesOfTail ==
    ASSUME NEW q \in Seq(Batches), q # <<>>
    PROVE  /\ WritesOf(q) # <<>> /\ Head(WritesOf(q)) = q[1].write
           /\ WritesOf(Tail(q)) = Tail(WritesOf(q))
<1> DEFINE t == Tail(q)
           w == WritesOf(q)
<1>1. /\ t \in Seq(Batches) /\ Len(t) = Len(q) - 1 /\ Len(q) \in Nat /\ Len(q) # 0
      /\ \A i \in 1..Len(t) : t[i] = q[i + 1]
    BY HeadTailProperties, EmptySeq
<1>2. w \in Seq(Writes) /\ Len(w) = Len(q) /\ \A i \in 1..Len(q) : w[i] = q[i].write
    BY WritesOfFacts
<1> HIDE DEF t, w
<1>3. w # <<>> /\ Head(w) = q[1].write
    <2>1. w # <<>>
        BY <1>1, <1>2, EmptySeq
    <2>2. Head(w) = w[1] /\ 1 \in 1..Len(q)
        BY <1>1, <1>2, <2>1, HeadTailProperties
    <2> QED
        BY <2>1, <2>2, <1>2
<1>4. /\ Tail(w) \in Seq(Writes) /\ Len(Tail(w)) = Len(q) - 1
      /\ \A i \in 1..Len(Tail(w)) : Tail(w)[i] = w[i + 1]
    BY <1>2, <1>3, HeadTailProperties
<1>5. /\ WritesOf(t) \in Seq(Writes) /\ Len(WritesOf(t)) = Len(q) - 1
      /\ \A i \in 1..Len(q) - 1 : WritesOf(t)[i] = t[i].write
    BY <1>1, WritesOfFacts
<1>6. ASSUME NEW i \in 1..Len(q) - 1 PROVE WritesOf(t)[i] = Tail(w)[i]
    <2>1. i + 1 \in 1..Len(q)
        BY <1>1
    <2> QED
        BY <2>1, <1>1, <1>2, <1>4, <1>5
<1>7. WritesOf(t) = Tail(w)
    BY <1>4, <1>5, <1>6, SeqEqual
<1> QED
    BY <1>3, <1>7 DEF t, w
-----------------------------------------------------------------------------
(* The invariant holds. *)

LEMMA OrderInitially == PipelineInit => OrderInv
<1> SUFFICES ASSUME PipelineInit PROVE OrderInv
    OBVIOUS
<1>1. IInv
    BY Initially
<1>2. LogInv /\ LastAnswerInv
    BY DEF PipelineInit, LogInv, LastAnswerInv
<1>3. CallbacksInv
    BY DEF PipelineInit, CallbacksInv
<1> QED
    BY <1>1, <1>2, <1>3 DEF OrderInv

LEMMA Facts ==
    ASSUME IInv
    PROVE  /\ written \in Seq([user : Users \cup {Other}, key : Keys, valid : BOOLEAN])
           /\ Len(written) \in Nat
           /\ currentUser \in Users /\ queues \in [Users -> Seq(Batches)]
           /\ callbacks \in [Users -> SUBSET Nat] /\ outcome \in [Writes -> Outcomes]
           /\ pipeline \in Seq(Batches) /\ Len(pipeline) \in Nat
           /\ answers \in Seq(Nat) /\ Len(answers) \in Nat
           /\ committed \in Seq(Writes) /\ Len(committed) \in Nat
           /\ Queue \in Seq(Batches) /\ Len(Queue) \in Nat
           /\ Len(pipeline) <= Len(Queue)
           /\ \A i \in 1..Len(pipeline) : pipeline[i] = Queue[i]
<1>1. Queue \in Seq(Batches)
    BY DEF IInv, PipelineTypeOK, Queue
<1>2. Len(pipeline) <= Len(Queue) /\ \A i \in 1..Len(pipeline) : pipeline[i] = Queue[i]
    BY <1>1, FrontFacts DEF IInv
<1> QED
    BY <1>1, <1>2 DEF IInv, PipelineTypeOK

LEMMA BatchFacts ==
    ASSUME IInv, NEW u \in Users, NEW i \in 1..Len(queues[u])
    PROVE  /\ queues[u][i].id \in Nat /\ queues[u][i].id < nextBatchId
           /\ queues[u][i].write \in Writes /\ queues[u][i].write \in 1..Len(written)
           /\ written[queues[u][i].write].user = u
           /\ \A j \in 1..Len(queues[u]) :
                 j # i => /\ queues[u][j].id # queues[u][i].id
                          /\ queues[u][j].write # queues[u][i].write
<1>1. Rising(queues[u])
    BY DEF IInv, QueuesInv
<1>2. /\ Len(queues[u]) \in Nat
      /\ \A j \in 1..Len(queues[u]) : queues[u][j].id \in Nat /\ queues[u][j].write \in 1..MaxWrites
    BY <1>1, QueueFacts
<1>3. ASSUME NEW j \in 1..Len(queues[u]), j # i
      PROVE  queues[u][j].id # queues[u][i].id /\ queues[u][j].write # queues[u][i].write
    <2>1. j < i \/ i < j
        BY <1>2, <1>3
    <2>2. /\ queues[u][j].id \in Nat /\ queues[u][i].id \in Nat
          /\ queues[u][j].write \in Nat /\ queues[u][i].write \in Nat
        BY <1>2
    <2>3. CASE j < i
        BY <2>2, <2>3, <1>1 DEF Rising
    <2>4. CASE i < j
        BY <2>2, <2>4, <1>1 DEF Rising
    <2> QED
        BY <2>1, <2>3, <2>4
<1>4. /\ queues[u][i].id < nextBatchId /\ queues[u][i].write <= Len(written)
      /\ written[queues[u][i].write].user = u
    BY DEF IInv, QueuesInv
<1>5. queues[u][i].write \in Writes /\ queues[u][i].write \in 1..Len(written)
    BY <1>2, <1>4, Facts DEF Writes
<1> QED
    BY <1>2, <1>3, <1>4, <1>5
-----------------------------------------------------------------------------
(* What a step does to what is pending. *)

LEMMA PendingFacts ==
    ASSUME IInv, NEW u \in Users
    PROVE  PendingWrites[u] = WritesOf(queues[u])
BY DEF PendingWrites, WritesOf

LEMMA PendingExcept ==
    ASSUME NEW u \in Users, NEW q, IInv,
           queues' = [queues EXCEPT ![u] = q]
    PROVE  PendingWrites' = [PendingWrites EXCEPT ![u] = WritesOf(q)]
<1>1. queues \in [Users -> Seq(Batches)]
    BY Facts
<1>2. PendingWrites = [v \in Users |-> WritesOf(queues[v])]
    BY DEF PendingWrites, WritesOf
<1>3. PendingWrites' = [v \in Users |-> WritesOf(queues'[v])]
    BY DEF PendingWrites, WritesOf
<1>4. \A v \in Users : queues'[v] = IF v = u THEN q ELSE queues[v]
    BY <1>1
<1> QED
    BY <1>2, <1>3, <1>4

LEMMA MakeStep ==
    ASSUME OrderInv, NEW key \in Keys, NEW valid \in BOOLEAN, WriteMutations(key, valid)
    PROVE  /\ LogInv' /\ CallbacksInv' /\ LastAnswerInv'
           /\ PendingWrites' = [PendingWrites EXCEPT ![currentUser] = Append(@, Len(written) + 1)]
<1> DEFINE w == Len(written) + 1
           entry == [user |-> currentUser, key |-> key, valid |-> valid]
           batch == [id |-> nextBatchId, write |-> w]
<1>1. IInv /\ LogInv /\ CallbacksInv /\ LastAnswerInv
    BY DEF OrderInv
<1>2. /\ Len(written) < MaxWrites
      /\ written' = Append(written, entry)
      /\ queues' = [queues EXCEPT ![currentUser] = Append(Queue, batch)]
      /\ callbacks' = [callbacks EXCEPT ![currentUser] = @ \cup {batch.id}]
      /\ outcome' = [outcome EXCEPT ![w] = "waiting"]
      /\ currentUser' = currentUser /\ answers' = answers /\ committed' = committed
    BY DEF WriteMutations
<1>3. /\ currentUser \in Users /\ queues \in [Users -> Seq(Batches)]
      /\ written \in Seq([user : Users \cup {Other}, key : Keys, valid : BOOLEAN])
      /\ Len(written) \in Nat /\ Queue \in Seq(Batches) /\ Len(Queue) \in Nat
      /\ callbacks \in [Users -> SUBSET Nat] /\ outcome \in [Writes -> Outcomes]
      /\ answers \in Seq(Nat) /\ Len(answers) \in Nat
      /\ committed \in Seq(Writes) /\ Len(committed) \in Nat
      /\ Queue = queues[currentUser]
    BY <1>1, Facts DEF Queue
<1>4. nextBatchId \in Nat
    BY <1>1 DEF IInv, PipelineTypeOK
<1>5. w \in Writes /\ batch \in Batches
    BY <1>2, <1>3, <1>4, PipelineAssumption DEF Writes, Batches
<1>6. entry \in [user : Users \cup {Other}, key : Keys, valid : BOOLEAN]
    BY <1>3
<1>7. batch.id = nextBatchId /\ batch.write = w
    OBVIOUS
<1>w. w = Len(written) + 1
    OBVIOUS
<1> HIDE DEF entry, batch, w
<1>8. \A i \in 1..Len(written) : written'[i] = written[i]
    BY <1>2, <1>3, <1>6, AppendProperties
<1>9. Len(written') = Len(written) + 1
    BY <1>2, <1>3, <1>6, AppendProperties
<1>10. LogInv'
    BY <1>1, <1>2, <1>3, <1>8, <1>9 DEF LogInv
<1>11. LastAnswerInv'
    BY <1>1, <1>2, <1>3, <1>8 DEF LastAnswerInv, LogInv
<1>12. CallbacksInv'
    <2> SUFFICES ASSUME NEW u \in Users, NEW i \in 1..Len(queues'[u])
                 PROVE  queues'[u][i].id \in callbacks'[u]
                            <=> outcome'[queues'[u][i].write] = "waiting"
        BY DEF CallbacksInv
    <2>1. ASSUME NEW v \in Users, NEW j \in 1..Len(queues[v])
          PROVE  /\ queues[v][j].id # nextBatchId /\ queues[v][j].write # w
                 /\ queues[v][j].write \in Writes
                 /\ queues[v][j].id \in callbacks[v] <=> outcome[queues[v][j].write] = "waiting"
        <3>1. /\ queues[v][j].id \in Nat /\ queues[v][j].id < nextBatchId
              /\ queues[v][j].write \in Writes /\ queues[v][j].write \in 1..Len(written)
            BY <1>1, BatchFacts
        <3>2. queues[v][j].id \in callbacks[v] <=> outcome[queues[v][j].write] = "waiting"
            BY <1>1 DEF CallbacksInv
        <3> QED
            BY <3>1, <3>2, <1>3, <1>4, <1>w
    <2>2. CASE u # currentUser
        <3>1. queues'[u] = queues[u] /\ callbacks'[u] = callbacks[u]
            BY <2>2, <1>2, <1>3
        <3>2. i \in 1..Len(queues[u])
            BY <3>1
        <3>3. outcome'[queues[u][i].write] = outcome[queues[u][i].write]
            BY <3>2, <2>1, <1>2, <1>3
        <3> QED
            BY <3>1, <3>2, <3>3, <2>1
    <2>3. CASE u = currentUser
        <3>1. queues'[u] = Append(Queue, batch) /\ queues[u] = Queue
            BY <2>3, <1>2, <1>3
        <3>2. callbacks'[u] = callbacks[u] \cup {nextBatchId}
            BY <2>3, <1>2, <1>3, <1>7
        <3>3. /\ Len(Append(Queue, batch)) = Len(Queue) + 1
              /\ \A j \in 1..Len(Queue) : Append(Queue, batch)[j] = Queue[j]
              /\ Append(Queue, batch)[Len(Queue) + 1] = batch
            BY <1>3, <1>5, AppendProperties
        <3>4. i \in 1..Len(Queue) \/ i = Len(Queue) + 1
            <4> DEFINE n == Len(Append(Queue, batch))
            <4>1. i \in 1..n /\ n = Len(Queue) + 1 /\ Len(Queue) \in Nat
                BY <3>1, <3>3, <1>3
            <4> HIDE DEF n
            <4> QED
                BY <4>1
        <3>5. CASE i = Len(Queue) + 1
            <4>1. queues'[u][i] = batch
                BY <3>1, <3>3, <3>5
            <4>2. outcome'[w] = "waiting"
                BY <1>2, <1>3, <1>5
            <4> QED
                BY <4>1, <4>2, <3>2, <1>7
        <3>6. CASE i \in 1..Len(Queue)
            <4>1. queues'[u][i] = queues[u][i] /\ i \in 1..Len(queues[u])
                BY <3>1, <3>3, <3>6
            <4>2. outcome'[queues[u][i].write] = outcome[queues[u][i].write]
                BY <4>1, <2>1, <1>2, <1>3
            <4>3. queues[u][i].id \in callbacks'[u] <=> queues[u][i].id \in callbacks[u]
                BY <4>1, <2>1, <3>2
            <4> QED
                BY <4>1, <4>2, <4>3, <2>1
        <3> QED
            BY <3>4, <3>5, <3>6
    <2> QED
        BY <2>2, <2>3
<1>13. PendingWrites' = [PendingWrites EXCEPT ![currentUser] = Append(@, w)]
    <2>1. PendingWrites' = [PendingWrites EXCEPT ![currentUser] = WritesOf(Append(Queue, batch))]
        BY <1>1, <1>2, <1>3, PendingExcept
    <2>2. WritesOf(Append(Queue, batch)) = Append(WritesOf(Queue), w)
        BY <1>3, <1>5, <1>7, WritesOfAppend
    <2>3. PendingWrites[currentUser] = WritesOf(Queue)
        BY <1>1, <1>3, PendingFacts
    <2> QED
        BY <2>1, <2>2, <2>3
<1> QED
    BY <1>10, <1>11, <1>12, <1>13, <1>w

LEMMA SettledStep ==
    ASSUME OrderInv, pipeline # <<>>, NEW answer, answer # "waiting", NEW s, NEW reqs,
           Settle(answer, s, reqs)
    PROVE  /\ CallbacksInv'
           /\ outcome' = [outcome EXCEPT ![Queue[1].write] = IF @ = "waiting" THEN answer ELSE @]
           /\ PendingWrites' = [PendingWrites EXCEPT ![currentUser] = Tail(@)]
           /\ PendingWrites[currentUser] # <<>>
           /\ Head(PendingWrites[currentUser]) = Queue[1].write
<1> DEFINE b == Queue[1]
<1>1. IInv /\ CallbacksInv
    BY DEF OrderInv
<1>2. /\ currentUser \in Users /\ queues \in [Users -> Seq(Batches)]
      /\ Queue \in Seq(Batches) /\ Len(Queue) \in Nat
      /\ callbacks \in [Users -> SUBSET Nat] /\ outcome \in [Writes -> Outcomes]
      /\ Queue = queues[currentUser]
    BY <1>1, Facts DEF Queue
<1>3. /\ Queue # <<>> /\ Head(pipeline) = b
      /\ queues' = [queues EXCEPT ![currentUser] = Tail(Queue)]
    BY <1>1, SettledQueue
<1>4. 1 \in 1..Len(Queue) /\ 1 \in 1..Len(queues[currentUser])
    BY <1>2, <1>3, EmptySeq
<1>5. /\ b.id \in Nat /\ b.write \in Writes /\ written[b.write].user = currentUser
      /\ \A j \in 1..Len(Queue) : j # 1 => Queue[j].id # b.id /\ Queue[j].write # b.write
      /\ b.id \in callbacks[currentUser] <=> outcome[b.write] = "waiting"
    <2>1. /\ queues[currentUser][1].id \in Nat /\ queues[currentUser][1].write \in Writes
          /\ written[queues[currentUser][1].write].user = currentUser
          /\ \A j \in 1..Len(queues[currentUser]) :
                j # 1 => /\ queues[currentUser][j].id # queues[currentUser][1].id
                         /\ queues[currentUser][j].write # queues[currentUser][1].write
        BY <1>1, <1>2, <1>4, BatchFacts
    <2>2. queues[currentUser][1].id \in callbacks[currentUser]
            <=> outcome[queues[currentUser][1].write] = "waiting"
        BY <1>1, <1>2, <1>4 DEF CallbacksInv
    <2> QED
        BY <2>1, <2>2, <1>2
<1> HIDE DEF b
<1>6. IF b.id \in callbacks[currentUser]
        THEN /\ outcome' = [outcome EXCEPT ![b.write] = answer]
             /\ callbacks' = [callbacks EXCEPT ![currentUser] = @ \ {b.id}]
        ELSE outcome' = outcome /\ callbacks' = callbacks
    BY <1>3 DEF Settle, NotifyUser
<1>7. outcome' = [outcome EXCEPT ![b.write] = IF @ = "waiting" THEN answer ELSE @]
    <2>1. CASE b.id \in callbacks[currentUser]
        BY <2>1, <1>2, <1>5, <1>6
    <2>2. CASE b.id \notin callbacks[currentUser]
        BY <2>2, <1>2, <1>5, <1>6
    <2> QED
        BY <2>1, <2>2
<1>8. \A x \in Nat : x # b.id => \A u \in Users : x \in callbacks'[u] <=> x \in callbacks[u]
    BY <1>2, <1>6
<1>9. \A u \in Users : u # currentUser => callbacks'[u] = callbacks[u]
    BY <1>2, <1>6
<1>10. \A x \in Writes : x # b.write => outcome'[x] = outcome[x]
    BY <1>2, <1>7
<1>11. CallbacksInv'
    <2> SUFFICES ASSUME NEW u \in Users, NEW i \in 1..Len(queues'[u])
                 PROVE  queues'[u][i].id \in callbacks'[u]
                            <=> outcome'[queues'[u][i].write] = "waiting"
        BY DEF CallbacksInv
    <2>1. ASSUME NEW j \in 1..Len(queues[u]), queues'[u][i] = queues[u][j],
                 u = currentUser => j # 1
          PROVE  queues[u][j].id \in callbacks'[u]
                    <=> outcome'[queues[u][j].write] = "waiting"
        <3>1. /\ queues[u][j].id \in Nat /\ queues[u][j].write \in Writes
              /\ written[queues[u][j].write].user = u
            BY <1>1, BatchFacts
        <3>2. queues[u][j].id \in callbacks[u] <=> outcome[queues[u][j].write] = "waiting"
            BY <1>1 DEF CallbacksInv
        <3>3. CASE u # currentUser
            <4>1. queues[u][j].write # b.write
                BY <3>1, <3>3, <1>5
            <4> QED
                BY <4>1, <3>1, <3>2, <3>3, <1>9, <1>10
        <3>4. CASE u = currentUser
            <4>1. queues[u][j].id # b.id /\ queues[u][j].write # b.write
                BY <2>1, <3>4, <1>2, <1>5
            <4> QED
                BY <4>1, <3>1, <3>2, <1>8, <1>10
        <3> QED
            BY <3>3, <3>4
    <2>2. CASE u # currentUser
        <3>1. queues'[u] = queues[u]
            BY <2>2, <1>2, <1>3
        <3> QED
            BY <3>1, <2>1, <2>2
    <2>3. CASE u = currentUser
        <3>1. queues'[u] = Tail(Queue) /\ queues[u] = Queue
            BY <2>3, <1>2, <1>3
        <3>2. /\ Len(Tail(Queue)) = Len(Queue) - 1
              /\ \A j \in 1..Len(Tail(Queue)) : Tail(Queue)[j] = Queue[j + 1]
            BY <1>2, <1>3, HeadTailProperties
        <3>3. i \in 1..Len(Tail(Queue))
            BY <3>1
        <3>4. i + 1 \in 1..Len(Queue) /\ i + 1 # 1
            BY <3>2, <3>3, <1>2
        <3>5. queues'[u][i] = queues[u][i + 1] /\ i + 1 \in 1..Len(queues[u])
            BY <3>1, <3>2, <3>3, <3>4
        <3> QED
            BY <3>4, <3>5, <2>1
    <2> QED
        BY <2>2, <2>3
<1>12. /\ WritesOf(Queue) # <<>> /\ Head(WritesOf(Queue)) = b.write
       /\ WritesOf(Tail(Queue)) = Tail(WritesOf(Queue))
    BY <1>2, <1>3, WritesOfTail DEF b
<1>13. PendingWrites[currentUser] = WritesOf(Queue)
    BY <1>1, <1>2, PendingFacts
<1>14. PendingWrites' = [PendingWrites EXCEPT ![currentUser] = Tail(@)]
    <2>1. PendingWrites' = [PendingWrites EXCEPT ![currentUser] = WritesOf(Tail(Queue))]
        BY <1>1, <1>2, <1>3, PendingExcept
    <2> QED
        BY <2>1, <1>12, <1>13
<1> QED
    BY <1>7, <1>11, <1>12, <1>13, <1>14 DEF b
-----------------------------------------------------------------------------
(* What steps of the pipeline are to the apps. *)

OrderStep == [Ordered!Next]_Ordered!vars
KeepsOrder == LogInv' /\ CallbacksInv' /\ LastAnswerInv' /\ OrderStep

LEMMA WriteMutationsOrder ==
    ASSUME OrderInv, NEW key \in Keys, NEW valid \in BOOLEAN, WriteMutations(key, valid)
    PROVE  KeepsOrder
<1>1. /\ Len(written) < MaxWrites
      /\ written' = Append(written, [user |-> currentUser, key |-> key, valid |-> valid])
      /\ outcome' = [outcome EXCEPT ![Len(written) + 1] = "waiting"]
      /\ committed' = committed
    BY DEF WriteMutations
<1>2. currentUser \in Users /\ Len(written) \in Nat
    BY Facts DEF OrderInv
<1>3. Len(written) + 1 \in Writes
    BY <1>1, <1>2, PipelineAssumption DEF Writes
<1>4. PendingWrites' = [PendingWrites EXCEPT ![currentUser] = Append(@, Len(written) + 1)]
    BY MakeStep
<1>5. Ordered!Make(currentUser, key, valid)
    BY <1>1, <1>3, <1>4 DEF Ordered!Make, Ordered!New
<1>6. OrderStep
    BY <1>2, <1>5 DEF OrderStep, Ordered!Next
<1> QED
    BY <1>6, MakeStep DEF KeepsOrder

LEMMA CommitOtherOrder ==
    ASSUME OrderInv, NEW key \in Keys, CommitOther(key)
    PROVE  KeepsOrder
<1> DEFINE Entries == [user : Users \cup {Other}, key : Keys, valid : BOOLEAN]
           entry == [user |-> Other, key |-> key, valid |-> TRUE]
           w == Len(written) + 1
<1>1. /\ Len(written) < MaxWrites
      /\ written' = Append(written, entry) /\ committed' = Append(committed, w)
      /\ UNCHANGED <<clientVars, streamVars>>
    BY DEF CommitOther
<1>2. IInv /\ LogInv /\ CallbacksInv /\ LastAnswerInv
    BY DEF OrderInv
<1>3. /\ written \in Seq(Entries) /\ Len(written) \in Nat /\ entry \in Entries
      /\ committed \in Seq(Writes) /\ Len(committed) \in Nat
      /\ currentUser \in Users /\ answers \in Seq(Nat) /\ Len(answers) \in Nat
    BY <1>2, Facts
<1>4. w \in Writes /\ w = Len(written) + 1
    BY <1>1, <1>3, PipelineAssumption DEF Writes
<1>5. entry.user = Other /\ entry.valid
    OBVIOUS
<1>6. /\ currentUser' = currentUser /\ answers' = answers /\ queues' = queues
      /\ callbacks' = callbacks /\ outcome' = outcome
    BY <1>1 DEF clientVars, streamVars
<1> HIDE DEF w, entry, Entries
<1>7. /\ Len(written') = Len(written) + 1 /\ written'[Len(written) + 1] = entry
      /\ \A i \in 1..Len(written) : written'[i] = written[i]
    BY <1>1, <1>3, AppendProperties
<1>8. /\ Len(committed') = Len(committed) + 1 /\ committed'[Len(committed) + 1] = w
      /\ \A i \in 1..Len(committed) : committed'[i] = committed[i]
    BY <1>1, <1>3, <1>4, AppendProperties
<1>9. ASSUME NEW v \in 1..Len(committed')
      PROVE  \/ v = Len(committed) + 1
             \/ v \in 1..Len(committed) /\ committed'[v] = committed[v]
    BY <1>3, <1>8
<1>10. LogInv'
    <2> SUFFICES ASSUME NEW v \in 1..Len(committed')
                 PROVE  committed'[v] \in 1..Len(written') /\ written'[committed'[v]].valid
        BY DEF LogInv
    <2>1. CASE v = Len(committed) + 1
        BY <2>1, <1>3, <1>4, <1>5, <1>7, <1>8
    <2>2. CASE v \in 1..Len(committed) /\ committed'[v] = committed[v]
        <3>1. committed[v] \in 1..Len(written) /\ written[committed[v]].valid
            BY <2>2, <1>2 DEF LogInv
        <3> QED
            BY <3>1, <2>2, <1>3, <1>7
    <2> QED
        BY <2>1, <2>2, <1>9
<1>11. LastAnswerInv'
    <2> SUFFICES ASSUME answers # <<>>, NEW later \in 1..Len(committed'),
                        later > answers[Len(answers)]
                 PROVE  written'[committed'[later]].user # currentUser
        BY <1>6 DEF LastAnswerInv
    <2>1. CASE later = Len(committed) + 1
        BY <2>1, <1>3, <1>4, <1>5, <1>7, <1>8, PipelineAssumption
    <2>2. CASE later \in 1..Len(committed) /\ committed'[later] = committed[later]
        <3>1. committed[later] \in 1..Len(written) /\ written[committed[later]].user # currentUser
            BY <2>2, <1>2 DEF LogInv, LastAnswerInv
        <3> QED
            BY <3>1, <2>2, <1>7
    <2> QED
        BY <2>1, <2>2, <1>9
<1>12. CallbacksInv'
    BY <1>2, <1>6 DEF CallbacksInv
<1>13. PendingWrites' = PendingWrites
    BY <1>6 DEF PendingWrites
<1>14. Ordered!MakeElsewhere(key)
    BY <1>1, <1>4, <1>6, <1>13 DEF Ordered!MakeElsewhere, Ordered!New, entry
<1>15. OrderStep
    BY <1>14 DEF OrderStep, Ordered!Next
<1> QED
    BY <1>10, <1>11, <1>12, <1>15 DEF KeepsOrder

\* Steps that leave writes, queues, log and outcomes alone and do not add answers.
LEMMA StutterOrder ==
    ASSUME OrderInv, UNCHANGED <<written, queues, callbacks, outcome, committed>>,
           answers' = <<>> \/ (answers' = answers /\ currentUser' = currentUser)
    PROVE  KeepsOrder
<1>1. LogInv' /\ CallbacksInv'
    BY DEF OrderInv, LogInv, CallbacksInv
<1>2. LastAnswerInv'
    BY DEF OrderInv, LastAnswerInv
<1>3. PendingWrites' = PendingWrites
    BY DEF PendingWrites
<1>4. OrderStep
    BY <1>3 DEF OrderStep, Ordered!vars
<1> QED
    BY <1>1, <1>2, <1>4 DEF KeepsOrder

LEMMA RelaunchOrder ==
    ASSUME OrderInv, Relaunch
    PROVE  KeepsOrder
<1>1. /\ callbacks' = [u \in Users |-> {}]
      /\ outcome' = [w \in Writes |-> IF outcome[w] = "waiting" THEN "lost" ELSE outcome[w]]
      /\ answers' = <<>> /\ UNCHANGED <<written, queues, committed>>
    BY DEF Relaunch
<1>2. LogInv' /\ LastAnswerInv'
    BY <1>1 DEF OrderInv, LogInv, LastAnswerInv
<1>3. CallbacksInv'
    <2> SUFFICES ASSUME NEW u \in Users, NEW i \in 1..Len(queues[u])
                 PROVE  /\ queues[u][i].id \notin callbacks'[u]
                        /\ outcome'[queues[u][i].write] # "waiting"
        BY <1>1 DEF CallbacksInv
    <2>1. queues[u][i].write \in Writes
        BY BatchFacts DEF OrderInv
    <2> QED
        BY <2>1, <1>1
<1>4. PendingWrites' = PendingWrites
    BY <1>1 DEF PendingWrites
<1>5. Ordered!Forget
    BY <1>1, <1>4 DEF Ordered!Forget
<1>6. OrderStep
    BY <1>5 DEF OrderStep, Ordered!Next
<1> QED
    BY <1>2, <1>3, <1>6 DEF KeepsOrder

\* The answers on their way are of the first pending writes of the customer, and
\* that of the last of them is the last of his to have reached the server.
LEMMA AnswersArePending ==
    ASSUME OrderInv, answers # <<>>
    PROVE  /\ stream = "ready"
           /\ Len(answers) \in 1..Len(pipeline) /\ Len(answers) \in DOMAIN PendingWrites[currentUser]
           /\ \A i \in 1..Len(answers) :
                 /\ answers[i] \in DOMAIN committed
                 /\ committed[answers[i]] = PendingWrites[currentUser][i]
                 /\ written[PendingWrites[currentUser][i]].valid
           /\ Ordered!IsLast(currentUser, PendingWrites[currentUser][Len(answers)])
<1> DEFINE n == Len(answers)
           p == PendingWrites[currentUser]
<1>1. IInv /\ LogInv /\ LastAnswerInv
    BY DEF OrderInv
<1>2. /\ currentUser \in Users /\ Queue = queues[currentUser]
      /\ Queue \in Seq(Batches) /\ Len(Queue) \in Nat /\ Len(pipeline) \in Nat
      /\ Len(pipeline) <= Len(Queue)
      /\ \A i \in 1..Len(pipeline) : pipeline[i] = Queue[i]
      /\ answers \in Seq(Nat) /\ n \in Nat
      /\ committed \in Seq(Writes) /\ Len(committed) \in Nat
    BY <1>1, Facts DEF Queue
<1>3. /\ stream = "ready" /\ n <= Len(pipeline)
      /\ \A i \in 1..n : answers[i] \in 1..Len(committed) /\ committed[answers[i]] = pipeline[i].write
    BY <1>1 DEF IInv, AnswersInv
<1>4. /\ DOMAIN p = 1..Len(Queue)
      /\ \A i \in 1..Len(Queue) : p[i] = Queue[i].write
    <2>1. p = WritesOf(Queue)
        BY <1>1, <1>2, PendingFacts
    <2> QED
        BY <2>1, <1>2, WritesOfFacts
<1>5. n # 0
    BY <1>2, EmptySeq
<1> HIDE DEF p
<1>6. DOMAIN committed = 1..Len(committed)
    BY <1>2
<1>7. ASSUME NEW i \in 1..n
      PROVE  /\ answers[i] \in DOMAIN committed /\ committed[answers[i]] = p[i]
             /\ written[p[i]].valid
    <2>1. i \in 1..Len(pipeline) /\ i \in 1..Len(Queue)
        BY <1>2, <1>3
    <2>2. answers[i] \in 1..Len(committed) /\ committed[answers[i]] = p[i]
        <3>1. answers[i] \in 1..Len(committed) /\ committed[answers[i]] = pipeline[i].write
            BY <1>3
        <3>2. pipeline[i] = Queue[i] /\ p[i] = Queue[i].write
            BY <2>1, <1>2, <1>4
        <3> QED
            BY <3>1, <3>2
    <2> QED
        BY <2>2, <1>1, <1>6 DEF LogInv
<1> HIDE DEF n
<1>8. n \in 1..n /\ n \in 1..Len(pipeline) /\ n \in DOMAIN p
    BY <1>2, <1>3, <1>4, <1>5
<1>9. Ordered!IsLast(currentUser, p[n])
    <2>1. answers[n] \in DOMAIN committed /\ committed[answers[n]] = p[n]
        BY <1>7, <1>8
    <2>2. \A later \in DOMAIN committed :
             later > answers[n] => written[committed[later]].user # currentUser
        BY <1>1, <1>6 DEF LastAnswerInv, n
    <2> QED
        BY <2>1, <2>2 DEF Ordered!IsLast
<1> QED
    BY <1>3, <1>7, <1>8, <1>9 DEF n, p

LEMMA ResultOrder ==
    ASSUME OrderInv, OnWriteStreamMutationResult
    PROVE  KeepsOrder
<1>1. /\ answers # <<>> /\ answers' = Tail(answers)
      /\ Settle("ok", stream, requests)
      /\ UNCHANGED <<written, committed>>
    BY DEF OnWriteStreamMutationResult
<1>2. /\ IInv /\ currentUser \in Users /\ currentUser' = currentUser
      /\ answers \in Seq(Nat) /\ Len(answers) \in Nat
    BY <1>1, Facts DEF OrderInv, Settle
<1>3. pipeline # <<>>
    <2>1. Len(answers) \in 1..Len(pipeline)
        BY <1>1, AnswersArePending
    <2>2. CASE pipeline = <<>>
        BY <2>1, <2>2
    <2> QED
        BY <2>2
<1>4. /\ CallbacksInv'
      /\ outcome' = [outcome EXCEPT ![Queue[1].write] = IF @ = "waiting" THEN "ok" ELSE @]
      /\ PendingWrites' = [PendingWrites EXCEPT ![currentUser] = Tail(@)]
      /\ PendingWrites[currentUser] # <<>>
      /\ Head(PendingWrites[currentUser]) = Queue[1].write
    <2>1. "ok" # "waiting"
        OBVIOUS
    <2> QED
        BY <1>1, <1>3, <2>1, SettledStep
<1>5. LogInv'
    BY <1>1 DEF OrderInv, LogInv
<1>6. LastAnswerInv'
    <2>1. CASE answers' = <<>>
        BY <2>1 DEF LastAnswerInv
    <2>2. CASE answers' # <<>>
        <3>1. answers' \in Seq(Nat) /\ Len(answers') = Len(answers) - 1 /\ Len(answers') # 0
            BY <1>1, <1>2, <2>2, HeadTailProperties, EmptySeq
        <3>2. answers'[Len(answers')] = answers[Len(answers)]
            <4>1. \A i \in 1..Len(Tail(answers)) : Tail(answers)[i] = answers[i + 1]
                BY <1>1, <1>2, HeadTailProperties
            <4>2. Len(answers') \in 1..Len(answers') /\ Len(answers') + 1 = Len(answers)
                BY <1>2, <3>1
            <4> QED
                BY <4>1, <4>2, <1>1
        <3> QED
            BY <3>2, <1>1, <1>2 DEF OrderInv, LastAnswerInv
    <2> QED
        BY <2>1, <2>2
<1>7. \E i \in DOMAIN committed : committed[i] = Head(PendingWrites[currentUser])
    <2>1. 1 \in 1..Len(answers)
        BY <1>1, <1>2, EmptySeq
    <2>2. /\ answers[1] \in DOMAIN committed
          /\ committed[answers[1]] = PendingWrites[currentUser][1]
        BY <1>1, <2>1, AnswersArePending
    <2>3. Head(PendingWrites[currentUser]) = PendingWrites[currentUser][1]
        OBVIOUS
    <2> QED
        BY <2>2, <2>3
<1>8. \E i \in DOMAIN PendingWrites[currentUser] :
         Ordered!IsLast(currentUser, PendingWrites[currentUser][i])
    BY <1>1, AnswersArePending
<1>9. Ordered!Succeed(currentUser)
    BY <1>1, <1>4, <1>7, <1>8 DEF Ordered!Succeed, Ordered!Answered
<1>10. OrderStep
    BY <1>2, <1>9 DEF OrderStep, Ordered!Next
<1> QED
    BY <1>4, <1>5, <1>6, <1>10 DEF KeepsOrder

\* What the server is asked next is the first pending write without an answer.
LEMMA NextRequest ==
    ASSUME OrderInv, requests # <<>>
    PROVE  /\ pipeline # <<>>
           /\ Len(answers) + 1 \in 1..Len(pipeline)
           /\ Len(answers) + 1 \in DOMAIN PendingWrites[currentUser]
           /\ Head(requests).write = PendingWrites[currentUser][Len(answers) + 1]
           /\ Head(requests).write \in Writes /\ Head(requests).write \in 1..Len(written)
<1> DEFINE m == Len(answers) + 1
<1>1. IInv
    BY DEF OrderInv
<1>2. /\ currentUser \in Users /\ Queue = queues[currentUser]
      /\ Queue \in Seq(Batches) /\ Len(Queue) \in Nat
      /\ pipeline \in Seq(Batches) /\ Len(pipeline) \in Nat
      /\ Len(pipeline) <= Len(Queue)
      /\ \A i \in 1..Len(pipeline) : pipeline[i] = Queue[i]
      /\ Len(answers) \in Nat
    BY <1>1, Facts DEF Queue
<1>3. requests = SubSeq(pipeline, m, Len(pipeline)) /\ requests \in Seq(Batches)
    BY <1>1 DEF IInv, AnswersInv, PipelineTypeOK
<1>4. m \in Nat \ {0}
    BY <1>2
<1>m. m = Len(answers) + 1
    OBVIOUS
<1> HIDE DEF m
<1>5. /\ Len(requests) = IF m <= Len(pipeline) THEN Len(pipeline) - m + 1 ELSE 0
      /\ \A i \in 1..Len(pipeline) - m + 1 : requests[i] = pipeline[m + i - 1]
    BY <1>2, <1>3, <1>4, RestFacts
<1>6. Len(requests) # 0 /\ Head(requests) = requests[1]
    BY <1>3, EmptySeq, HeadTailProperties
<1>7. m <= Len(pipeline)
    BY <1>5, <1>6
<1>8. m \in 1..Len(pipeline) /\ m \in 1..Len(Queue)
    BY <1>2, <1>4, <1>7
<1>9. Head(requests) = Queue[m]
    <2>1. 1 \in 1..Len(pipeline) - m + 1 /\ m + 1 - 1 = m
        BY <1>2, <1>4, <1>7
    <2> QED
        BY <2>1, <1>2, <1>5, <1>6, <1>8
<1>10. PendingWrites[currentUser][m] = Queue[m].write /\ m \in DOMAIN PendingWrites[currentUser]
    <2>1. PendingWrites[currentUser] = WritesOf(Queue)
        BY <1>1, <1>2, PendingFacts
    <2> QED
        BY <2>1, <1>2, <1>8, WritesOfFacts
<1>11. Queue[m].write \in Writes /\ Queue[m].write \in 1..Len(written)
    BY <1>1, <1>2, <1>8, BatchFacts
<1>12. pipeline # <<>>
    BY <1>2, <1>8, EmptySeq
<1> QED
    BY <1>m, <1>8, <1>9, <1>10, <1>11, <1>12

LEMMA ErrorOrder ==
    ASSUME OrderInv, HandleWriteError
    PROVE  KeepsOrder
<1>1. /\ requests # <<>> /\ answers = <<>>
      /\ ~written[Head(requests).write].valid
      /\ Settle("failed", "initial", <<>>)
      /\ UNCHANGED <<written, answers, committed>>
    BY DEF HandleWriteError
<1>2. currentUser \in Users /\ committed \in Seq(Writes)
    BY Facts DEF OrderInv
<1>3. pipeline # <<>> /\ Head(requests).write = PendingWrites[currentUser][1]
    <2>1. Len(answers) + 1 = 1
        BY <1>1
    <2> QED
        BY <1>1, <2>1, NextRequest
<1>4. /\ CallbacksInv'
      /\ outcome' = [outcome EXCEPT ![Queue[1].write] = IF @ = "waiting" THEN "failed" ELSE @]
      /\ PendingWrites' = [PendingWrites EXCEPT ![currentUser] = Tail(@)]
      /\ PendingWrites[currentUser] # <<>>
      /\ Head(PendingWrites[currentUser]) = Queue[1].write
    <2>1. "failed" # "waiting"
        OBVIOUS
    <2> DEFINE none == <<>>
    <2>2. Settle("failed", "initial", none)
        BY <1>1
    <2> HIDE DEF none
    <2> QED
        BY <1>3, <2>1, <2>2, SettledStep
<1>5. LogInv' /\ LastAnswerInv'
    BY <1>1 DEF OrderInv, LogInv, LastAnswerInv
<1>6. Head(PendingWrites[currentUser]) = PendingWrites[currentUser][1]
    OBVIOUS
<1>7. /\ ~written[Head(PendingWrites[currentUser])].valid
      /\ \A i \in DOMAIN committed : committed[i] # Head(PendingWrites[currentUser])
    <2>1. ~written[Head(PendingWrites[currentUser])].valid
        BY <1>1, <1>3, <1>6
    <2>2. \A i \in DOMAIN committed : written[committed[i]].valid
        BY <1>2 DEF OrderInv, LogInv
    <2> QED
        BY <2>1, <2>2
<1>8. Ordered!Fail(currentUser)
    BY <1>1, <1>4, <1>7 DEF Ordered!Fail, Ordered!Answered
<1>9. OrderStep
    BY <1>2, <1>8 DEF OrderStep, Ordered!Next
<1> QED
    BY <1>4, <1>5, <1>9 DEF KeepsOrder

LEMMA CommitOrder ==
    ASSUME OrderInv, Commit
    PROVE  KeepsOrder
<1> DEFINE w == Head(requests).write
           i == Len(answers) + 1
           p == PendingWrites[currentUser]
<1>1. /\ requests # <<>> /\ written[w].valid
      /\ committed' = Append(committed, w)
      /\ answers' = Append(answers, Len(committed) + 1)
      /\ UNCHANGED <<written, clientVars>>
    BY DEF Commit
<1>2. IInv /\ LogInv /\ CallbacksInv /\ LastAnswerInv
    BY DEF OrderInv
<1>3. /\ committed \in Seq(Writes) /\ Len(committed) \in Nat
      /\ answers \in Seq(Nat) /\ Len(answers) \in Nat /\ currentUser \in Users
    BY <1>2, Facts
<1>4. /\ i \in DOMAIN p /\ w = p[i]
      /\ w \in Writes /\ w \in 1..Len(written)
    BY <1>1, NextRequest
<1>5. i = Len(answers) + 1
    OBVIOUS
<1>6. /\ currentUser' = currentUser /\ queues' = queues
      /\ callbacks' = callbacks /\ outcome' = outcome /\ written' = written
    BY <1>1 DEF clientVars
<1> HIDE DEF w, i, p
<1>7. /\ Len(committed') = Len(committed) + 1 /\ committed'[Len(committed) + 1] = w
      /\ \A v \in 1..Len(committed) : committed'[v] = committed[v]
    BY <1>1, <1>3, <1>4, AppendProperties
<1>8. /\ Len(answers') = i /\ answers'[i] = Len(committed) + 1
    BY <1>1, <1>3, <1>5, AppendProperties
<1>9. LogInv'
    BY <1>1, <1>2, <1>3, <1>4, <1>6, <1>7 DEF LogInv
<1>10. LastAnswerInv'
    BY <1>3, <1>7, <1>8 DEF LastAnswerInv
<1>11. CallbacksInv'
    BY <1>2, <1>6 DEF CallbacksInv
<1>12. PendingWrites' = PendingWrites
    BY <1>6 DEF PendingWrites
<1>13. \A j \in 1..i : written[p[j]].valid
    <2>1. ASSUME NEW j \in 1..i PROVE written[p[j]].valid
        <3>1. CASE j = i
            BY <3>1, <1>1, <1>4
        <3>2. CASE j # i
            <4>1. j \in 1..Len(answers) /\ answers # <<>>
                BY <3>2, <1>3, <1>5
            <4> QED
                BY <4>1, AnswersArePending DEF p
        <3> QED
            BY <3>1, <3>2
    <2> QED
        BY <2>1
<1>14. i = 1 \/ Ordered!IsLast(currentUser, p[i - 1])
    <2>1. CASE answers = <<>>
        BY <2>1, <1>5
    <2>2. CASE answers # <<>>
        <3>1. Ordered!IsLast(currentUser, p[Len(answers)])
            BY <2>2, AnswersArePending DEF p
        <3>2. i - 1 = Len(answers)
            BY <1>3, <1>5
        <3> QED
            BY <3>1, <3>2
    <2> QED
        BY <2>1, <2>2
<1>15. Ordered!Reach(currentUser, i)
    BY <1>1, <1>4, <1>6, <1>12, <1>13, <1>14 DEF Ordered!Reach, p
<1>16. OrderStep
    BY <1>3, <1>4, <1>15 DEF OrderStep, Ordered!Next, p
<1> QED
    BY <1>9, <1>10, <1>11, <1>16 DEF KeepsOrder

LEMMA OrderKept ==
    OrderInv /\ [PipelineNext]_pipelineVars => OrderInv' /\ OrderStep
<1> SUFFICES ASSUME OrderInv, [PipelineNext]_pipelineVars PROVE OrderInv' /\ OrderStep
    OBVIOUS
<1>1. IInv'
    BY Invariant DEF OrderInv
<1>2. ASSUME NEW u \in Users, HandleCredentialChange(u) PROVE KeepsOrder
    BY <1>2, StutterOrder DEF HandleCredentialChange
<1>3. ASSUME BackoffElapses PROVE KeepsOrder
    BY <1>3, StutterOrder DEF BackoffElapses, clientVars
<1>4. ASSUME OnStreamStart PROVE KeepsOrder
    BY <1>4, StutterOrder DEF OnStreamStart, clientVars
<1>5. ASSUME OnWriteStreamHandshakeComplete PROVE KeepsOrder
    BY <1>5, StutterOrder DEF OnWriteStreamHandshakeComplete, clientVars
<1>6. ASSUME OnWriteStreamClose PROVE KeepsOrder
    BY <1>6, StutterOrder DEF OnWriteStreamClose, clientVars
<1>7. ASSUME IdleTimeout PROVE KeepsOrder
    BY <1>7, StutterOrder DEF IdleTimeout, clientVars
<1>8. ASSUME UNCHANGED pipelineVars PROVE KeepsOrder
    BY <1>8, StutterOrder DEF pipelineVars, clientVars, streamVars
<1>9. KeepsOrder
    BY <1>2, <1>3, <1>4, <1>5, <1>6, <1>7, <1>8, WriteMutationsOrder, CommitOtherOrder,
       RelaunchOrder, ResultOrder, ErrorOrder, CommitOrder
       DEF PipelineNext, StreamStep
<1> QED
    BY <1>1, <1>9 DEF KeepsOrder, OrderInv

LEMMA OrderedFromTheStart == PipelineInit => Ordered!Init
<1> SUFFICES ASSUME PipelineInit PROVE Ordered!Init
    OBVIOUS
<1>1. \A u \in Users : WritesOf(queues[u]) = <<>>
    BY DEF PipelineInit, WritesOf
<1>2. PendingWrites = [u \in Users |-> <<>>]
    BY <1>1 DEF PendingWrites, WritesOf
<1> QED
    BY <1>2 DEF PipelineInit, Ordered!Init

\* Streams, retries, kills and changes of the customer are invisible to the apps
\* but for what OrderedWrites allows: writes reach the server in the order they
\* were made, again only while unanswered, and are answered in order, once and
\* truthfully (FillWritePipeline, OnWriteStreamHandshakeComplete,
\* OnWriteStreamMutationResult, HandleWriteError, HandleCredentialChange).
THEOREM WritesAreOrdered == PipelineSpec => ImplementsOrderedWrites
<1>1. OrderInv /\ [PipelineNext]_pipelineVars => OrderInv' /\ [Ordered!Next]_Ordered!vars
    BY OrderKept DEF OrderStep
<1> QED
    BY OrderInitially, OrderedFromTheStart, <1>1, PTL DEF PipelineSpec, ImplementsOrderedWrites, Ordered!Spec

-----------------------------------------------------------------------------
(* The client.  The view and its listener. *)

Kinds == {"none", "added", "modified", "removed", "metadata"}

\* The block knows of every document of the view, or of none before its first
\* event.
ToldAll(v) == \A k \in Keys : v.shown[k] = IF v.raised THEN v.docs[k].write ELSE 0

LEMMA DocumentFacts ==
    /\ NoDocument \in Documents /\ NoDocument.write = 0 /\ NoDocument.state = "none"
    /\ \A version \in Nat, write \in Nat, state \in DocumentStates :
          /\ Document(version, write, state) \in Documents
          /\ Document(version, write, state).version = version
          /\ Document(version, write, state).write = write
          /\ Document(version, write, state).state = state
    BY DEF NoDocument, Document, Documents, DocumentStates

LEMMA ViewFields ==
    ASSUME NEW v \in Views
    PROVE  /\ v.listening \in BOOLEAN /\ v.current \in BOOLEAN /\ v.raised \in BOOLEAN
           /\ v.docs \in [Keys -> Documents] /\ v.mutated \in SUBSET Keys
           /\ v.sync \in {"none", "local", "synced"} /\ v.shown \in [Keys -> Nat]
    BY DEF Views

LEMMA NoViewFacts ==
    /\ NoView \in Views /\ ~NoView.listening /\ ~NoView.current /\ ~NoView.raised
    /\ NewView \in Views /\ NewView.listening /\ ~NewView.raised
    /\ ToldAll(NoView) /\ ToldAll(NewView)
<1>1. /\ NoView \in Views /\ ~NoView.listening /\ ~NoView.current /\ ~NoView.raised
      /\ \A k \in Keys : NoView.shown[k] = 0
    BY DocumentFacts DEF NoView, Views
<1>2. /\ NewView \in Views /\ NewView.listening /\ ~NewView.raised
      /\ \A k \in Keys : NewView.shown[k] = 0
    BY DocumentFacts DEF NewView, NoView, Views
<1> QED
    BY <1>1, <1>2 DEF ToldAll

LEMMA RaiseInitialFacts ==
    ASSUME NEW v \in Views, \A k \in Keys : v.shown[k] = 0
    PROVE  /\ RaiseInitialEvent(v) \in Views /\ ToldAll(RaiseInitialEvent(v))
           /\ RaiseInitialEvent(v).docs = v.docs
           /\ (RaiseInitialEvent(v).listening <=> v.listening)
<1> DEFINE w == RaiseInitialEvent(v)
           shown == Told(v.shown, v.docs, InitialChanges(v.docs))
<1>1. shown = [k \in Keys |-> IF v.docs[k] = NoDocument THEN v.shown[k] ELSE v.docs[k].write]
    BY DEF Told, InitialChanges
<1>2. \A k \in Keys : shown[k] = v.docs[k].write
    BY <1>1, DocumentFacts
<1>3. \A k \in Keys : v.docs[k].write \in Nat
    BY ViewFields DEF Documents
<1>4. shown \in [Keys -> Nat]
    BY <1>1, <1>3, ViewFields
<1>5. w = [v EXCEPT !.raised = TRUE, !.shown = shown]
    BY DEF RaiseInitialEvent
<1> HIDE DEF shown, w
<1>6. w \in Views /\ w.raised /\ w.shown = shown /\ w.docs = v.docs /\ (w.listening <=> v.listening)
    BY <1>4, <1>5 DEF Views
<1> QED
    BY <1>2, <1>6 DEF ToldAll, w

\* An event keeps the block in step if it names every document that changed.
LEMMA SnapshotFacts ==
    ASSUME NEW v \in Views, NEW changes \in [Keys -> Kinds], NEW state,
           v.raised => \A k \in Keys :
               /\ changes[k] \in {"none", "metadata"} => v.shown[k] = v.docs[k].write
               /\ changes[k] = "removed" => v.docs[k].write = 0,
           ~v.raised => \A k \in Keys : v.shown[k] = 0
    PROVE  /\ OnViewSnapshot(v, changes, state) \in Views
           /\ ToldAll(OnViewSnapshot(v, changes, state))
           /\ OnViewSnapshot(v, changes, state).docs = v.docs
           /\ (OnViewSnapshot(v, changes, state).listening <=> v.listening)
<1> DEFINE w == OnViewSnapshot(v, changes, state)
<1>1. CASE ~v.raised /\ ShouldRaiseInitialEvent(v, state)
    <2>1. w = RaiseInitialEvent(v)
        BY <1>1 DEF OnViewSnapshot
    <2> QED
        BY <1>1, <2>1, RaiseInitialFacts
<1>2. CASE v.raised
    <2> DEFINE shown == Told(v.shown, v.docs, changes)
    <2>1. w = [v EXCEPT !.shown = shown]
        BY <1>2 DEF OnViewSnapshot
    <2>2. ASSUME NEW k \in Keys PROVE shown[k] = v.docs[k].write
        BY <1>2 DEF Told, Kinds
    <2>3. \A k \in Keys : v.docs[k].write \in Nat
        BY ViewFields DEF Documents
    <2>4. shown \in [Keys -> Nat]
        <3>1. \A k \in Keys : shown[k] \in Nat
            BY <2>2, <2>3
        <3>2. shown = [k \in Keys |-> shown[k]]
            BY DEF Told
        <3> HIDE DEF shown
        <3> QED
            BY <3>1, <3>2
    <2> HIDE DEF shown, w
    <2>5. w \in Views /\ w.raised = v.raised /\ w.shown = shown /\ w.docs = v.docs
          /\ (w.listening <=> v.listening)
        BY <2>1, <2>4 DEF Views
    <2> QED
        BY <1>2, <2>2, <2>5 DEF ToldAll, w
<1>3. CASE ~v.raised /\ ~ShouldRaiseInitialEvent(v, state)
    <2>1. w = v
        BY <1>3 DEF OnViewSnapshot
    <2> QED
        BY <1>3, <2>1 DEF ToldAll
<1>4. v.raised \in BOOLEAN
    BY ViewFields
<1> QED
    BY <1>1, <1>2, <1>3, <1>4

LEMMA ApplyFacts ==
    ASSUME NEW v \in Views, ToldAll(v),
           NEW changes \in [Keys -> Kinds], NEW new \in [Keys -> Documents],
           NEW current \in BOOLEAN, NEW state,
           \A k \in Keys :
              /\ changes[k] = "metadata" => new[k].write = v.docs[k].write
              /\ changes[k] = "removed" => new[k].write = 0
    PROVE  LET w == ApplyChanges(v, changes, new, current, state)
           IN  /\ w \in Views /\ ToldAll(w) /\ (w.listening <=> v.listening)
               /\ \A k \in Keys : w.docs[k] = IF changes[k] # "none" THEN new[k] ELSE v.docs[k]
<1> DEFINE w == ApplyChanges(v, changes, new, current, state)
           applied == {k \in Keys : changes[k] # "none"}
           sync == IF current THEN "synced" ELSE "local"
           docs == [k \in Keys |-> IF k \in applied THEN new[k] ELSE v.docs[k]]
           mutated == {k \in Keys : IF k \in applied THEN new[k].state = "local"
                                    ELSE k \in v.mutated}
           next == [v EXCEPT !.docs = docs, !.mutated = mutated, !.current = current,
                             !.sync = sync]
<1>1. w = IF applied # {} \/ sync # v.sync THEN OnViewSnapshot(next, changes, state) ELSE next
    BY DEF ApplyChanges
<1>2. docs \in [Keys -> Documents] /\ mutated \in SUBSET Keys
      /\ sync \in {"none", "local", "synced"}
    BY ViewFields
<1>3. \A k \in Keys : docs[k] = IF changes[k] # "none" THEN new[k] ELSE v.docs[k]
    OBVIOUS
<1>4. applied = {} => \A k \in Keys : docs[k] = v.docs[k]
    OBVIOUS
<1> HIDE DEF docs, mutated, sync, applied
<1>5. next \in Views /\ next.docs = docs /\ next.raised = v.raised /\ next.shown = v.shown
      /\ (next.listening <=> v.listening)
    BY <1>2 DEF Views
<1> HIDE DEF next, w
<1>6. \A k \in Keys : v.shown[k] = IF v.raised THEN v.docs[k].write ELSE 0
    BY DEF ToldAll
<1>7. CASE applied # {} \/ sync # v.sync
    <2>1. next.raised => \A k \in Keys :
               /\ changes[k] \in {"none", "metadata"} => next.shown[k] = next.docs[k].write
               /\ changes[k] = "removed" => next.docs[k].write = 0
        BY <1>3, <1>5, <1>6
    <2>2. ~next.raised => \A k \in Keys : next.shown[k] = 0
        BY <1>5, <1>6
    <2>3. w = OnViewSnapshot(next, changes, state)
        BY <1>1, <1>7
    <2>4. w \in Views /\ ToldAll(w) /\ w.docs = next.docs /\ (w.listening <=> next.listening)
        BY <2>1, <2>2, <2>3, <1>5, SnapshotFacts
    <2> QED
        BY <2>4, <1>3, <1>5 DEF w
<1>8. CASE ~(applied # {} \/ sync # v.sync)
    <2>1. w = next
        BY <1>1, <1>8
    <2>2. ToldAll(w)
        BY <2>1, <1>4, <1>5, <1>6, <1>8 DEF ToldAll
    <2> QED
        BY <2>1, <2>2, <1>3, <1>5 DEF w
<1> QED
    BY <1>7, <1>8

LEMMA ChangeFacts ==
    ASSUME NEW v \in Views, NEW k \in Keys, NEW new \in Documents
    PROVE  LET change == ChangeOf(v, k, new)
           IN  /\ change \in Kinds
               /\ change = "metadata" => new.write = v.docs[k].write
               /\ change = "removed" => new.write = 0
               /\ change = "none" /\ new.state = "local" => new.write = v.docs[k].write
<1> DEFINE change == ChangeOf(v, k, new)
           old == v.docs[k]
           Right == /\ change \in Kinds
                    /\ change = "metadata" => new.write = v.docs[k].write
                    /\ change = "removed" => new.write = 0
                    /\ change = "none" /\ new.state = "local" => new.write = v.docs[k].write
<1> SUFFICES Right
    OBVIOUS
<1>1. NoDocument.state = "none" /\ NoDocument.write = 0
    BY DocumentFacts
<1>2. CASE old = NoDocument
    BY <1>1, <1>2 DEF ChangeOf, Kinds
<1>3. CASE old # NoDocument /\ new = NoDocument
    BY <1>1, <1>3 DEF ChangeOf, Kinds
<1>4. CASE old # NoDocument /\ new # NoDocument /\ old.write # new.write
    BY <1>1, <1>4 DEF ChangeOf, Kinds, ShouldWaitForSyncedDocument
<1>5. CASE old # NoDocument /\ new # NoDocument /\ old.write = new.write
    BY <1>1, <1>5 DEF ChangeOf, Kinds
<1> HIDE DEF Right, old
<1> QED
    BY <1>2, <1>3, <1>4, <1>5, Zenon

LEMMA EmitFacts ==
    ASSUME NEW v \in Views, ToldAll(v), NEW keys, NEW new \in [Keys -> Documents],
           NEW current \in BOOLEAN, NEW state
    PROVE  LET w == EmitNewSnapshots(v, keys, new, current, state)
           IN  /\ w \in Views /\ ToldAll(w) /\ (w.listening <=> v.listening)
               /\ ~v.listening => w = v
               /\ v.listening =>
                     \A k \in Keys :
                        /\ w.docs[k] \in {v.docs[k], new[k]}
                        /\ k \notin keys => w.docs[k] = v.docs[k]
                        /\ k \in keys /\ new[k].state = "local" => w.docs[k].write = new[k].write
<1> DEFINE w == EmitNewSnapshots(v, keys, new, current, state)
           changes == [k \in Keys |-> IF k \in keys THEN ChangeOf(v, k, new[k]) ELSE "none"]
<1>1. CASE ~v.listening
    BY <1>1 DEF EmitNewSnapshots
<1>2. CASE v.listening
    <2>1. w = ApplyChanges(v, changes, new, current, state)
        BY <1>2 DEF EmitNewSnapshots
    <2>2. \A k \in Keys :
             /\ changes[k] \in Kinds
             /\ changes[k] = "metadata" => new[k].write = v.docs[k].write
             /\ changes[k] = "removed" => new[k].write = 0
             /\ k \notin keys => changes[k] = "none"
             /\ k \in keys /\ changes[k] = "none" /\ new[k].state = "local"
                  => new[k].write = v.docs[k].write
        BY ChangeFacts DEF Kinds
    <2>3. changes \in [Keys -> Kinds]
        BY <2>2
    <2> HIDE DEF changes, w
    <2>4. /\ w \in Views /\ ToldAll(w) /\ (w.listening <=> v.listening)
          /\ \A k \in Keys : w.docs[k] = IF changes[k] # "none" THEN new[k] ELSE v.docs[k]
        BY <2>1, <2>2, <2>3, ApplyFacts
    <2> QED
        BY <1>2, <2>2, <2>4 DEF w
<1> QED
    BY <1>1, <1>2

LEMMA OnlineFacts ==
    ASSUME NEW v \in Views, ToldAll(v), ~v.listening => v = NoView, NEW before, NEW state
    PROVE  LET w == HandleOnlineStateChange(v, before, state)
           IN  /\ w \in Views /\ ToldAll(w) /\ (w.listening <=> v.listening)
               /\ ~w.listening => w = NoView
               /\ w.docs = v.docs
<1> DEFINE w == HandleOnlineStateChange(v, before, state)
           quiet == [k \in Keys |-> "none"]
           seen == IF v.current /\ state = "Offline"
                     THEN ApplyChanges(v, quiet, v.docs, FALSE, before) ELSE v
<1>1. quiet \in [Keys -> Kinds] /\ \A k \in Keys : quiet[k] = "none"
    BY DEF Kinds
<1>2. v.docs \in [Keys -> Documents]
    BY ViewFields
<1> HIDE DEF quiet
<1>3. /\ seen \in Views /\ ToldAll(seen) /\ (seen.listening <=> v.listening)
      /\ \A k \in Keys : seen.docs[k] = v.docs[k]
    <2>1. CASE v.current /\ state = "Offline"
        <3> DEFINE off == FALSE
                   s == ApplyChanges(v, quiet, v.docs, off, before)
        <3>1. off \in BOOLEAN /\ seen = s
            BY <2>1
        <3> HIDE DEF off, seen
        <3>2. /\ s \in Views /\ ToldAll(s) /\ (s.listening <=> v.listening)
              /\ \A k \in Keys : s.docs[k] = IF quiet[k] # "none" THEN v.docs[k] ELSE v.docs[k]
            BY <3>1, <1>1, <1>2, ApplyFacts
        <3> QED
            BY <3>1, <3>2
    <2>2. CASE ~(v.current /\ state = "Offline")
        BY <2>2
    <2> QED
        BY <2>1, <2>2
<1>4. ~v.listening => seen = NoView
    BY NoViewFacts
<1>5. seen.docs = v.docs
    <2> HIDE DEF seen
    <2>1. seen.docs \in [Keys -> Documents]
        BY <1>3, ViewFields
    <2> QED
        BY <2>1, <1>2, <1>3
<1>6. w = IF /\ v.listening /\ ~seen.raised /\ seen.sync # "none"
             /\ ShouldRaiseInitialEvent(seen, state)
            THEN RaiseInitialEvent(seen) ELSE seen
    BY DEF HandleOnlineStateChange, quiet
<1> HIDE DEF seen, w
<1>7. CASE w = RaiseInitialEvent(seen) /\ v.listening /\ ~seen.raised
    <2>1. \A k \in Keys : seen.shown[k] = 0
        BY <1>3, <1>7 DEF ToldAll
    <2> QED
        BY <2>1, <1>3, <1>5, <1>7, RaiseInitialFacts DEF w
<1>8. CASE w = seen
    BY <1>3, <1>4, <1>5, <1>8 DEF w
<1> QED
    BY <1>6, <1>7, <1>8
-----------------------------------------------------------------------------
(* Pending writes. *)

\* Batch i of queue q is the last on document k, by the list of writes log.
LastFor(q, log, k, i) ==
    /\ i \in 1..Len(q) /\ log[q[i].write].key = k
    /\ \A j \in 1..Len(q) : log[q[j].write].key = k => j <= i

\* A listener's view has the last pending write of each document.
HasPending(v, q, log) ==
    v.listening => \A k \in Keys : \A i \in 1..Len(q) :
                      LastFor(q, log, k, i) => v.docs[k].write = q[i].write

ViewOK(v, q, log) ==
    v \in Views /\ ToldAll(v) /\ (~v.listening => v = NoView) /\ HasPending(v, q, log)

LEMMA GreatestIs ==
    ASSUME NEW S, S \subseteq Nat, NEW m \in S, \A n \in S : n <= m
    PROVE  LastOf(S) = m
<1> DEFINE Last(i) == \A n \in S : n <= i
<1>1. LastOf(S) = CHOOSE i \in S : Last(i)
    BY DEF LastOf
<1>2. Last(m)
    OBVIOUS
<1>3. ASSUME NEW i \in S, Last(i) PROVE i = m
    <2>1. m <= i /\ i <= m /\ i \in Nat /\ m \in Nat
        BY <1>3
    <2> QED
        BY <2>1
<1> HIDE DEF Last
<1>4. (CHOOSE i \in S : Last(i)) \in {i \in S : Last(i)}
    BY <1>2, Zenon
<1> QED
    BY <1>1, <1>3, <1>4, Zenon

LEMMA LastOfFacts ==
    ASSUME NEW S, S \subseteq Nat, S # {}, NEW b \in Nat, \A n \in S : n <= b
    PROVE  LastOf(S) \in S /\ \A n \in S : n <= LastOf(S)
<1>1. PICK m \in S : \A n \in S : n <= m
    BY HasGreatest
<1>2. LastOf(S) = m
    BY <1>1, GreatestIs
<1> QED
    BY <1>1, <1>2

LEMMA BatchWrite ==
    ASSUME NEW q \in Seq(Batches), NEW i \in 1..Len(q)
    PROVE  q[i] \in Batches /\ q[i].write \in Writes /\ q[i].write \in Nat
<1>1. q[i] \in Batches
    BY ElementOfSeq
<1> QED
    BY <1>1 DEF Batches, Writes

LEMMA PendingOnFacts ==
    ASSUME NEW q \in Seq(Batches), NEW k
    PROVE  /\ PendingOn(k, q) = <<>> \/ \E w \in Writes : PendingOn(k, q) = <<w>>
           /\ \A i \in 1..Len(q) : LastFor(q, written', k, i) => PendingOn(k, q) = <<q[i].write>>
<1> DEFINE on == {i \in DOMAIN q : written'[q[i].write].key = k}
<1>1. PendingOn(k, q) = IF on = {} THEN <<>> ELSE <<q[LastOf(on)].write>>
    BY DEF PendingOn
<1>2. DOMAIN q = 1..Len(q) /\ Len(q) \in Nat
    OBVIOUS
<1>3. on \subseteq Nat /\ \A n \in on : n <= Len(q) /\ n \in 1..Len(q)
    BY <1>2
<1>4. \A i \in 1..Len(q) : LastFor(q, written', k, i) => i \in on /\ \A n \in on : n <= i
    BY <1>2 DEF LastFor
<1> HIDE DEF on
<1>5. on # {} => LastOf(on) \in 1..Len(q)
    BY <1>2, <1>3, LastOfFacts
<1>6. on # {} => q[LastOf(on)].write \in Writes
    BY <1>5, BatchWrite
<1>7. ASSUME NEW i \in 1..Len(q), LastFor(q, written', k, i)
      PROVE  PendingOn(k, q) = <<q[i].write>>
    <2>1. LastOf(on) = i /\ on # {}
        BY <1>3, <1>4, <1>7, GreatestIs
    <2> QED
        BY <2>1, <1>1
<1> QED
    BY <1>1, <1>6, <1>7

LEMMA LocalFacts ==
    ASSUME NEW docs \in [Keys -> Documents], Queue' \in Seq(Batches)
    PROVE  /\ LocalDocuments(docs) \in [Keys -> Documents]
           /\ \A k \in Keys : \A i \in 1..Len(Queue') :
                 LastFor(Queue', written', k, i) =>
                    /\ LocalDocuments(docs)[k].state = "local"
                    /\ LocalDocuments(docs)[k].write = Queue'[i].write
<1> DEFINE local(k) == LocalDocument(docs[k], PendingOn(k, Queue'))
<1>1. LocalDocuments(docs) = [k \in Keys |-> local(k)]
    BY DEF LocalDocuments, Queue
<1>2. ASSUME NEW k \in Keys, NEW w \in Writes, PendingOn(k, Queue') = <<w>>
      PROVE  local(k) = Document(docs[k].version, w, "local")
    BY <1>2 DEF LocalDocument
<1>3. Writes \subseteq Nat /\ \A k \in Keys : docs[k].version \in Nat
    BY DEF Writes, Documents
<1>4. ASSUME NEW k \in Keys, NEW w \in Writes, PendingOn(k, Queue') = <<w>>
      PROVE  local(k) \in Documents /\ local(k).state = "local" /\ local(k).write = w
    <2>1. docs[k].version \in Nat /\ w \in Nat /\ "local" \in DocumentStates
        BY <1>3 DEF DocumentStates
    <2>2. local(k) = Document(docs[k].version, w, "local")
        BY <1>2, <1>4
    <2> HIDE DEF local
    <2> QED
        BY <2>1, <2>2, DocumentFacts
<1>5. ASSUME NEW k \in Keys PROVE local(k) \in Documents
    <2>1. CASE PendingOn(k, Queue') = <<>>
        BY <2>1 DEF LocalDocument
    <2>2. CASE \E w \in Writes : PendingOn(k, Queue') = <<w>>
        BY <2>2, <1>4
    <2> QED
        BY <2>1, <2>2, PendingOnFacts
<1>6. ASSUME NEW k \in Keys, NEW i \in 1..Len(Queue'), LastFor(Queue', written', k, i)
      PROVE  local(k).state = "local" /\ local(k).write = Queue'[i].write
    <2>1. PendingOn(k, Queue') = <<Queue'[i].write>>
        BY <1>6, PendingOnFacts
    <2>2. Queue'[i].write \in Writes
        BY BatchWrite
    <2> QED
        BY <1>4, <2>1, <2>2
<1> HIDE DEF local
<1> QED
    BY <1>1, <1>5, <1>6

\* Whatever documents are looked at, the view is right afterwards if those not
\* looked at were.
LEMMA EmitKeeps ==
    ASSUME NEW v \in Views, ToldAll(v), ~v.listening => v = NoView,
           NEW keys, NEW docs \in [Keys -> Documents], NEW current \in BOOLEAN, NEW state,
           Queue' \in Seq(Batches),
           v.listening => \A k \in Keys \ keys : \A i \in 1..Len(Queue') :
              LastFor(Queue', written', k, i) => v.docs[k].write = Queue'[i].write
    PROVE  LET w == EmitNewSnapshots(v, keys, LocalDocuments(docs), current, state)
           IN  ViewOK(w, Queue', written') /\ (w.listening <=> v.listening)
<1> DEFINE new == LocalDocuments(docs)
           w == EmitNewSnapshots(v, keys, new, current, state)
<1>1. /\ new \in [Keys -> Documents]
      /\ \A k \in Keys : \A i \in 1..Len(Queue') :
            LastFor(Queue', written', k, i) =>
               new[k].state = "local" /\ new[k].write = Queue'[i].write
    BY LocalFacts
<1>0. w = EmitNewSnapshots(v, keys, new, current, state)
    OBVIOUS
<1> HIDE DEF new, w
<1>2. /\ w \in Views /\ ToldAll(w) /\ (w.listening <=> v.listening)
      /\ ~v.listening => w = v
      /\ v.listening => \A k \in Keys :
            /\ k \notin keys => w.docs[k] = v.docs[k]
            /\ k \in keys /\ new[k].state = "local" => w.docs[k].write = new[k].write
    <2>1. new \in [Keys -> Documents]
        BY <1>1
    <2>2. w \in Views /\ ToldAll(w) /\ (w.listening <=> v.listening)
        BY <1>0, <2>1, EmitFacts
    <2>3. ASSUME v.listening, NEW k \in Keys
          PROVE  /\ k \notin keys => w.docs[k] = v.docs[k]
                 /\ k \in keys /\ new[k].state = "local" => w.docs[k].write = new[k].write
        BY <2>3, <1>0, <2>1, EmitFacts
    <2>4. ~v.listening => w = v
        BY <1>0 DEF EmitNewSnapshots
    <2> QED
        BY <2>2, <2>3, <2>4
<1>3. HasPending(w, Queue', written')
    BY <1>1, <1>2 DEF HasPending
<1> QED
    BY <1>2, <1>3 DEF ViewOK, w, new

\* The online state changes nothing about the documents.
LEMMA BroadcastKeeps ==
    ASSUME NEW v, NEW q, NEW log, ViewOK(v, q, log), NEW new,
           SetAndBroadcast(new, v)
    PROVE  /\ ViewOK(view', q, log) /\ (view'.listening <=> v.listening)
           /\ view'.docs = v.docs
<1>1. CASE new = online
    <2>1. view' = v
        BY <1>1 DEF SetAndBroadcast
    <2> QED
        BY <2>1
<1>2. CASE new # online
    <2>1. view' = HandleOnlineStateChange(v, online, new)
        BY <1>2 DEF SetAndBroadcast
    <2>2. /\ view' \in Views /\ ToldAll(view)' /\ (view'.listening <=> v.listening)
          /\ ~view'.listening => view' = NoView
          /\ view'.docs = v.docs
        BY <2>1, OnlineFacts DEF ViewOK, ToldAll
    <2> QED
        BY <2>2 DEF ViewOK, HasPending, ToldAll
<1> QED
    BY <1>1, <1>2
-----------------------------------------------------------------------------
(* The invariant: the pipeline's, and with it that no snapshot on its way is *)
(* of more than was committed, and that the view is right.                   *)

StreamsTyped ==
    /\ cache \in [Keys -> Documents] /\ resume \in Nat
    /\ watch \in StreamStates \ {"ready"} /\ watchIdle \in BOOLEAN
    /\ target \in {"none", "requested", "acked", "current"} /\ sent \in Nat
    /\ events \in Seq([kind : {"message", "snapshot"}, from : Nat, to : Nat])
    /\ online \in {"Unknown", "Online", "Offline"}
    /\ failures \in Nat /\ timer \in BOOLEAN
    /\ listens \in 0..MaxListens

EventsInv == \A i \in 1..Len(events) : events[i].to <= Len(committed)

ClientInv ==
    /\ IInv
    /\ StreamsTyped
    /\ EventsInv
    /\ ViewOK(view, Queue, written)

LEMMA ClientTypes == ClientInv => TypeOK
    BY DEF ClientInv, IInv, StreamsTyped, ViewOK, TypeOK

LEMMA ClientInitially == Init => ClientInv
<1> SUFFICES ASSUME Init PROVE ClientInv
    OBVIOUS
<1>1. IInv
    BY Initially DEF Init
<1>2. StreamsTyped
    <2>1. cache \in [Keys -> Documents]
        BY DocumentFacts DEF Init
    <2>2. watchIdle = FALSE /\ timer = FALSE /\ events = <<>>
        BY DEF Init
    <2>3. watchIdle \in BOOLEAN /\ timer \in BOOLEAN
        BY <2>2
    <2>4. events \in Seq([kind : {"message", "snapshot"}, from : Nat, to : Nat])
        BY <2>2
    <2> QED
        BY <2>1, <2>3, <2>4, ClientAssumption DEF Init, StreamsTyped, StreamStates
<1>3. EventsInv
    BY DEF Init, EventsInv
<1>4. ViewOK(view, Queue, written)
    BY NoViewFacts DEF Init, ViewOK, HasPending
<1> QED
    BY <1>1, <1>2, <1>3, <1>4 DEF ClientInv

LEMMA PipelineFacts ==
    ASSUME IInv
    PROVE  /\ currentUser \in Users /\ queues \in [Users -> Seq(Batches)]
           /\ Queue \in Seq(Batches) /\ Len(Queue) \in Nat /\ Rising(Queue)
           /\ committed \in Seq(Writes) /\ Len(committed) \in Nat
           /\ Len(written) \in Nat
           /\ \A i \in 1..Len(Queue) : Queue[i].write \in 1..Len(written)
<1>1. /\ currentUser \in Users /\ queues \in [Users -> Seq(Batches)]
      /\ committed \in Seq(Writes) /\ Len(committed) \in Nat /\ Len(written) \in Nat
    BY DEF IInv, PipelineTypeOK
<1>2. /\ Rising(Queue)
      /\ \A i \in 1..Len(Queue) : Queue[i].write <= Len(written)
    BY <1>1 DEF IInv, QueuesInv, Queue
<1>3. \A i \in 1..Len(Queue) : Queue[i].write \in 1..MaxWrites
    BY <1>2, QueueFacts
<1> QED
    BY <1>1, <1>2, <1>3, QueueFacts DEF Queue

LEMMA TypedFacts ==
    ASSUME ClientInv
    PROVE  /\ view \in Views /\ ToldAll(view) /\ (~view.listening => view = NoView)
           /\ view.listening \in BOOLEAN /\ view.current \in BOOLEAN
           /\ cache \in [Keys -> Documents] /\ resume \in Nat
           /\ watch \in StreamStates \ {"ready"} /\ watchIdle \in BOOLEAN
           /\ target \in {"none", "requested", "acked", "current"} /\ sent \in Nat
           /\ events \in Seq([kind : {"message", "snapshot"}, from : Nat, to : Nat])
           /\ online \in {"Unknown", "Online", "Offline"}
           /\ failures \in Nat /\ timer \in BOOLEAN
           /\ listens \in 0..MaxListens
    BY ViewFields DEF ClientInv, ViewOK, StreamsTyped

\* A step that leaves queues, writes and the log alone.
LEMMA PipelineUnchanged ==
    ASSUME ClientInv, UNCHANGED pipelineVars
    PROVE  /\ IInv' /\ Queue' = Queue /\ written' = written /\ committed' = committed
           /\ Queue' \in Seq(Batches)
<1>1. IInv'
    BY Invariant DEF ClientInv
<1>2. Queue' = Queue /\ written' = written /\ committed' = committed
    BY DEF pipelineVars, clientVars, Queue
<1> QED
    BY <1>1, <1>2, PipelineFacts DEF ClientInv
LEMMA EventFacts ==
    ASSUME ClientInv, NEW i \in 1..Len(events)
    PROVE  /\ events[i].from \in Nat /\ events[i].to \in Nat
           /\ events[i].to <= Len(committed)
<1> DEFINE Events == [kind : {"message", "snapshot"}, from : Nat, to : Nat]
<1>1. events \in Seq(Events)
    BY TypedFacts
<1> HIDE DEF Events
<1>2. events[i] \in Events
    BY <1>1, ElementOfSeq
<1> QED
    BY <1>2 DEF Events, ClientInv, EventsInv

LEMMA NextQueue ==
    ASSUME IInv'
    PROVE  Queue' \in Seq(Batches)
    BY DEF IInv, PipelineTypeOK, Queue
-----------------------------------------------------------------------------
(* Writes. *)

LEMMA MakingAWrite ==
    ASSUME ClientInv, NEW key \in Keys, NEW valid \in BOOLEAN, Write(key, valid)
    PROVE  ClientInv'
<1> DEFINE batch == [id |-> nextBatchId, write |-> Len(written) + 1]
           entry == [user |-> currentUser, key |-> key, valid |-> valid]
           n == Len(Queue)
<1>1. IInv'
    BY Invariant DEF ClientInv, Write, PipelineNext
<1>2. /\ currentUser' = currentUser /\ committed' = committed
      /\ queues' = [queues EXCEPT ![currentUser] = Append(Queue, batch)]
      /\ written' = Append(written, entry)
    BY DEF Write, WriteMutations
<1>3. /\ Queue \in Seq(Batches) /\ n \in Nat /\ Len(written) \in Nat
      /\ \A i \in 1..n : Queue[i].write \in 1..Len(written)
      /\ currentUser \in Users /\ queues \in [Users -> Seq(Batches)]
    BY PipelineFacts DEF ClientInv
<1>4. Queue' = Append(Queue, batch)
    BY <1>2, <1>3 DEF Queue
<1>5. /\ Queue' \in Seq(Batches) /\ Len(Queue') = n + 1
      /\ \A i \in 1..n : Queue'[i] = Queue[i]
      /\ Queue'[n + 1].write = Len(written) + 1
    <2>1. Queue' \in Seq(Batches)
        BY <1>1, NextQueue
    <2> HIDE DEF batch
    <2>2. /\ Len(Queue') = n + 1 /\ \A i \in 1..n : Queue'[i] = Queue[i]
          /\ Queue'[n + 1] = batch
        BY <1>3, <1>4
    <2> QED
        BY <2>1, <2>2 DEF batch
<1>6. /\ \A i \in 1..Len(written) : written'[i] = written[i]
      /\ written'[Len(written) + 1].key = key
    <2>1. written \in Seq([user : Users \cup {Other}, key : Keys, valid : BOOLEAN])
        BY DEF ClientInv, IInv, PipelineTypeOK
    <2>2. entry.key = key
        OBVIOUS
    <2> HIDE DEF entry
    <2>3. /\ \A i \in 1..Len(written) : written'[i] = written[i]
          /\ written'[Len(written) + 1] = entry
        BY <1>2, <2>1
    <2> QED
        BY <2>2, <2>3
<1> HIDE DEF batch, entry, n
<1>7. ASSUME view.listening, NEW k \in Keys \ {key}, NEW i \in 1..Len(Queue'),
             LastFor(Queue', written', k, i)
      PROVE  view.docs[k].write = Queue'[i].write
    <2>1. i \in 1..n
        BY <1>3, <1>5, <1>6, <1>7 DEF LastFor
    <2>2. \A j \in 1..n : /\ j \in 1..Len(Queue') /\ Queue'[j] = Queue[j]
                          /\ written'[Queue'[j].write] = written[Queue[j].write]
        BY <1>3, <1>5, <1>6
    <2>3. LastFor(Queue, written, k, i)
        BY <2>1, <2>2, <1>7 DEF LastFor, n
    <2> QED
        BY <2>1, <2>2, <2>3, <1>7 DEF ClientInv, ViewOK, HasPending, n
<1>8. /\ view' = EmitNewSnapshots(view, {key}, LocalDocuments(cache'), view.current, online)
      /\ UNCHANGED <<cache, resume, watchVars, onlineVars, listens>>
    BY DEF Write, Emit
<1>9. ViewOK(view', Queue', written')
    BY <1>5, <1>7, <1>8, TypedFacts, EmitKeeps
<1>10. StreamsTyped' /\ EventsInv'
    BY <1>2, <1>8 DEF ClientInv, StreamsTyped, EventsInv, watchVars, onlineVars
<1> QED
    BY <1>1, <1>9, <1>10 DEF ClientInv, ViewOK, HasPending, ToldAll

\* An answer to the pipeline's head: the queue loses its first batch and the
\* document is looked at again.
LEMMA SettledWrite ==
    ASSUME ClientInv, IInv', pipeline # <<>>,
           NEW told, NEW s, NEW handed, Settle(told, s, handed),
           written' = written, committed' = committed,
           cache' \in [Keys -> Documents], NEW key,
           view' = EmitNewSnapshots(view, {key}, LocalDocuments(cache'), view.current, online),
           UNCHANGED <<resume, watchVars, onlineVars, listens>>
    PROVE  ClientInv'
<1>1. /\ Queue \in Seq(Batches) /\ Len(Queue) \in Nat /\ Rising(Queue)
      /\ currentUser \in Users /\ queues \in [Users -> Seq(Batches)]
    BY PipelineFacts DEF ClientInv
<1>2. Queue # <<>> /\ Queue' = Tail(Queue)
    BY SettledQueue DEF ClientInv
<1>4. /\ Len(Queue') = Len(Queue) - 1
      /\ \A i \in 1..Len(Queue) - 1 : Queue'[i] = Queue[i + 1]
    BY <1>1, <1>2, TailFacts
<1>5. Queue' \in Seq(Batches)
    BY NextQueue
<1>6. ASSUME view.listening, NEW k \in Keys \ {key}, NEW i \in 1..Len(Queue'),
             LastFor(Queue', written', k, i)
      PROVE  view.docs[k].write = Queue'[i].write
    <2>1. i + 1 \in 1..Len(Queue) /\ Queue'[i] = Queue[i + 1]
        BY <1>1, <1>4
    <2>2. ASSUME NEW j \in 1..Len(Queue), written[Queue[j].write].key = k PROVE j <= i + 1
        <3>1. CASE j = 1
            BY <3>1, <1>1, <2>1
        <3>2. CASE j # 1
            <4>1. j - 1 \in 1..Len(Queue') /\ Queue'[j - 1] = Queue[j]
                BY <3>2, <1>1, <1>4
            <4>2. j - 1 <= i
                BY <4>1, <2>2, <1>6 DEF LastFor
            <4> QED
                BY <4>2, <1>1, <2>1
        <3> QED
            BY <3>1, <3>2
    <2>3. LastFor(Queue, written, k, i + 1)
        BY <2>1, <2>2, <1>6 DEF LastFor
    <2> QED
        BY <2>1, <2>3, <1>6 DEF ClientInv, ViewOK, HasPending
<1>7. ViewOK(view', Queue', written')
    BY <1>5, <1>6, TypedFacts, EmitKeeps
<1>8. StreamsTyped' /\ EventsInv'
    BY DEF ClientInv, StreamsTyped, EventsInv, watchVars, onlineVars
<1> QED
    BY <1>7, <1>8 DEF ClientInv, ViewOK, HasPending, ToldAll

LEMMA AWriteIsAcknowledged == ClientInv /\ HandleSuccessfulWrite => ClientInv'
<1> SUFFICES ASSUME ClientInv, HandleSuccessfulWrite PROVE ClientInv'
    OBVIOUS
<1> DEFINE write == Head(pipeline).write
           key == written[write].key
<1>1. IInv'
    BY Invariant DEF ClientInv, HandleSuccessfulWrite, PipelineNext, StreamStep
<1>2. /\ answers # <<>> /\ Settle("ok", stream, requests)
      /\ written' = written /\ committed' = committed
      /\ cache' = [cache EXCEPT ![key] = Acknowledged(@, Head(answers), write)]
      /\ view' = EmitNewSnapshots(view, {key}, LocalDocuments(cache'), view.current, online)
      /\ UNCHANGED <<resume, watchVars, onlineVars, listens>>
    BY DEF HandleSuccessfulWrite, OnWriteStreamMutationResult, Emit
<1>3. pipeline # <<>> /\ Head(answers) \in Nat /\ write \in Nat
    <2>1. /\ answers \in Seq(Nat) /\ pipeline \in Seq(Batches)
          /\ Len(answers) <= Len(pipeline)
        BY <1>2 DEF ClientInv, IInv, PipelineTypeOK, AnswersInv
    <2>2. pipeline # <<>> /\ Head(answers) \in Nat
        BY <2>1, <1>2, EmptySeq
    <2>3. Head(pipeline) \in Batches
        BY <2>1, <2>2
    <2> QED
        BY <2>2, <2>3 DEF Batches, Writes
<1>4. cache' \in [Keys -> Documents]
    <2>1. cache \in [Keys -> Documents]
        BY TypedFacts
    <2> HIDE DEF write, key
    <2>2. ASSUME NEW k \in Keys PROVE Acknowledged(cache[k], Head(answers), write) \in Documents
        <3>1. Document(Head(answers), write, "committed") \in Documents
            BY <1>3, DocumentFacts DEF DocumentStates
        <3> QED
            BY <2>1, <3>1 DEF Acknowledged
    <2> QED
        BY <1>2, <2>1, <2>2
<1> HIDE DEF write, key
<1> QED
    BY <1>1, <1>2, <1>3, <1>4, SettledWrite

LEMMA AWriteIsRefused == ClientInv /\ HandleRejectedWrite => ClientInv'
<1> SUFFICES ASSUME ClientInv, HandleRejectedWrite PROVE ClientInv'
    OBVIOUS
<1> DEFINE key == written[Head(pipeline).write].key
<1>1. IInv'
    BY Invariant DEF ClientInv, HandleRejectedWrite, PipelineNext, StreamStep
<1>2. /\ requests # <<>> /\ answers = <<>> /\ Settle("failed", "initial", <<>>)
      /\ written' = written /\ committed' = committed /\ cache' = cache
      /\ view' = EmitNewSnapshots(view, {key}, LocalDocuments(cache'), view.current, online)
      /\ UNCHANGED <<resume, watchVars, onlineVars, listens>>
    BY DEF HandleRejectedWrite, HandleWriteError, Emit
<1>3. pipeline # <<>>
    <2>1. CASE pipeline = <<>>
        <3>1. requests = SubSeq(pipeline, 1, 0)
            BY <1>2, <2>1 DEF ClientInv, IInv, AnswersInv
        <3> QED
            BY <3>1, <1>2, SubSeqEmpty
    <2> QED
        BY <2>1
<1>4. cache' \in [Keys -> Documents]
    BY <1>2, TypedFacts
<1> HIDE DEF key
<1> QED
    BY <1>1, <1>2, <1>3, <1>4, SettledWrite

\* The pipeline's other steps: queues stay, writes and the log may grow.
LEMMA PipelineMoves == ClientInv /\ PipelineOnly => ClientInv'
<1> SUFFICES ASSUME ClientInv, PipelineOnly PROVE ClientInv'
    OBVIOUS
<1>1. IInv'
    BY Invariant DEF ClientInv, PipelineOnly, PipelineNext, StreamStep
<1>2. UNCHANGED <<docVars, watchVars, onlineVars, listens>>
    BY DEF PipelineOnly
<1>3. Queue' = Queue
    BY DEF PipelineOnly, BackoffElapses, OnStreamStart, OnWriteStreamHandshakeComplete,
           Commit, OnWriteStreamClose, IdleTimeout, CommitOther, Queue, clientVars
<1>4. /\ \A i \in 1..Len(written) : written'[i] = written[i]
      /\ Len(committed') \in Nat /\ Len(committed) <= Len(committed')
    <2>1. /\ written \in Seq([user : Users \cup {Other}, key : Keys, valid : BOOLEAN])
          /\ committed \in Seq(Writes)
        BY DEF ClientInv, IInv, PipelineTypeOK
    <2>2. CASE written' = written /\ committed' = committed
        BY <2>1, <2>2
    <2>3. CASE Commit
        <3>1. written' = written /\ committed' = Append(committed, Head(requests).write)
            BY <2>3 DEF Commit
        <3> QED
            BY <2>1, <3>1
    <2>4. ASSUME NEW key \in Keys, CommitOther(key)
          PROVE  /\ \A i \in 1..Len(written) : written'[i] = written[i]
                 /\ Len(committed') \in Nat /\ Len(committed) <= Len(committed')
        <3> DEFINE entry == [user |-> Other, key |-> key, valid |-> TRUE]
        <3>1. /\ written' = Append(written, entry)
              /\ committed' = Append(committed, Len(written) + 1)
            BY <2>4 DEF CommitOther
        <3> HIDE DEF entry
        <3> QED
            BY <2>1, <3>1
    <2> QED
        BY <2>2, <2>3, <2>4
           DEF PipelineOnly, BackoffElapses, OnStreamStart, OnWriteStreamHandshakeComplete,
               OnWriteStreamClose, IdleTimeout
<1>5. StreamsTyped' /\ view' = view /\ events' = events
    BY <1>2 DEF ClientInv, StreamsTyped, docVars, watchVars, onlineVars
<1>6. EventsInv'
    <2>1. \A i \in 1..Len(events) : events[i].to \in Nat
        BY EventFacts
    <2>2. Len(committed) \in Nat
        BY PipelineFacts DEF ClientInv
    <2> QED
        BY <2>1, <2>2, <1>4, <1>5 DEF ClientInv, EventsInv
<1>7. HasPending(view, Queue, written')
    <2>1. \A i \in 1..Len(Queue) : written'[Queue[i].write] = written[Queue[i].write]
        BY <1>4, PipelineFacts DEF ClientInv
    <2> QED
        BY <2>1 DEF ClientInv, ViewOK, HasPending, LastFor
<1>8. ViewOK(view', Queue', written')
    BY <1>3, <1>5, <1>7 DEF ClientInv, ViewOK
<1> QED
    BY <1>1, <1>5, <1>6, <1>8 DEF ClientInv, ViewOK, HasPending, ToldAll
-----------------------------------------------------------------------------
(* The listener, the watch stream and the online state. *)

\* A step that is no business of the pipeline keeps the invariant if the view it
\* broadcasts is right.
LEMMA WatchOnly ==
    ASSUME ClientInv, UNCHANGED pipelineVars, StreamsTyped',
           \A i \in 1..Len(events') : events'[i].to <= Len(committed),
           ViewOK(view', Queue, written)
    PROVE  ClientInv'
<1>1. IInv' /\ Queue' = Queue /\ written' = written /\ committed' = committed
    BY PipelineUnchanged
<1>2. EventsInv'
    BY <1>1 DEF EventsInv
<1>3. ViewOK(view', Queue', written')
    BY <1>1
<1> QED
    BY <1>1, <1>2, <1>3 DEF ClientInv, ViewOK, HasPending, ToldAll

LEMMA NoViewOK == \A q, log : ViewOK(NoView, q, log)
    BY NoViewFacts DEF ViewOK, HasPending

LEMMA Listening == ClientInv /\ Listen => ClientInv'
<1> SUFFICES ASSUME ClientInv, Listen PROVE ClientInv'
    OBVIOUS
<1> DEFINE shown == FALSE
           made == EmitNewSnapshots(NewView, Keys, LocalDocuments(cache), shown, online)
<1>1. /\ ~view.listening /\ listens < MaxListens /\ listens' = listens + 1
      /\ UNCHANGED <<pipelineVars, cache, resume, events>>
      /\ watch' = StartedFrom(watch)
      /\ IF watch = "open"
           THEN target' = "requested" /\ sent' = resume /\ watchIdle' = FALSE
           ELSE UNCHANGED <<target, sent, watchIdle>>
      /\ IF watch \in {"initial", "error"}
           THEN HandleWatchStreamStart(made)
           ELSE view' = made /\ UNCHANGED onlineVars
    BY DEF Listen
<1>2. shown \in BOOLEAN
    OBVIOUS
<1> HIDE DEF shown, made
<1>3. /\ Queue' = Queue /\ written' = written /\ Queue' \in Seq(Batches)
    BY <1>1, PipelineUnchanged
<1>4. ViewOK(made, Queue, written)
    <2>1. made = EmitNewSnapshots(NewView, Keys, LocalDocuments(cache), shown, online)
        BY DEF made
    <2>2. ViewOK(made, Queue', written')
        BY <1>2, <1>3, <2>1, NoViewFacts, TypedFacts, EmitKeeps
    <2> QED
        BY <2>2, <1>3
<1>5. /\ ViewOK(view', Queue, written)
      /\ online' \in {"Unknown", "Online", "Offline"} /\ failures' \in Nat
      /\ timer' \in BOOLEAN
    <2>1. CASE watch \in {"initial", "error"} /\ failures = 0
        <3>1. SetAndBroadcast("Unknown", made) /\ timer' = TRUE /\ failures' = failures
            BY <1>1, <2>1 DEF HandleWatchStreamStart
        <3>2. online' = "Unknown" /\ timer' \in BOOLEAN
            BY <3>1 DEF SetAndBroadcast
        <3> QED
            BY <1>4, <3>1, <3>2, BroadcastKeeps, TypedFacts
    <2>2. CASE ~(watch \in {"initial", "error"} /\ failures = 0)
        <3>1. view' = made /\ UNCHANGED onlineVars
            BY <1>1, <2>2 DEF HandleWatchStreamStart, onlineVars
        <3> QED
            BY <1>4, <3>1, TypedFacts DEF onlineVars
    <2> QED
        BY <2>1, <2>2
<1>6. StreamsTyped'
    <2>1. watch' \in StreamStates \ {"ready"}
        BY <1>1, TypedFacts, StartedFromFacts
    <2>2. watchIdle' \in BOOLEAN
        BY <1>1, TypedFacts, Zenon
    <2>3. listens' \in 0..MaxListens
        BY <1>1, TypedFacts, ClientAssumption
    <2>4. target' \in {"none", "requested", "acked", "current"} /\ sent' \in Nat
        BY <1>1, TypedFacts
    <2> QED
        BY <1>1, <1>5, <2>1, <2>2, <2>3, <2>4, TypedFacts DEF StreamsTyped
<1> QED
    BY <1>1, <1>5, <1>6, WatchOnly DEF ClientInv, EventsInv

LEMMA UpdateKeeps ==
    ASSUME ClientInv, NEW new \in {"Unknown", "Online", "Offline"}, NEW v,
           ViewOK(v, Queue, written), UpdateState(new, v)
    PROVE  /\ ViewOK(view', Queue, written)
           /\ online' \in {"Unknown", "Online", "Offline"} /\ failures' \in Nat
           /\ timer' \in BOOLEAN
<1>1. timer' = FALSE /\ failures' = 0 /\ SetAndBroadcast(new, v)
    BY DEF UpdateState
<1>2. timer' \in BOOLEAN
    BY <1>1
<1>3. online' = new
    BY <1>1 DEF SetAndBroadcast
<1> QED
    BY <1>1, <1>2, <1>3, BroadcastKeeps

LEMMA NoMoreListening == ClientInv /\ StopListening => ClientInv'
<1> SUFFICES ASSUME ClientInv, StopListening PROVE ClientInv'
    OBVIOUS
<1> DEFINE Events == [kind : {"message", "snapshot"}, from : Nat, to : Nat]
<1>1. /\ target' = "none" /\ events' = [i \in DOMAIN events |-> Nothing]
      /\ UNCHANGED <<pipelineVars, cache, resume, watch, sent, listens>>
      /\ IF watch = "open"
           THEN watchIdle' = TRUE /\ view' = NoView /\ UNCHANGED onlineVars
           ELSE UNCHANGED watchIdle /\ UpdateState("Unknown", NoView)
    BY DEF StopListening
<1>2. events \in Seq(Events)
    BY TypedFacts
<1>3. Nothing \in Events /\ Nothing.to = 0
    BY DEF Nothing
<1> HIDE DEF Events
<1>4. events' \in Seq(Events) /\ \A i \in 1..Len(events') : events'[i].to = 0
    <2>1. Len(events) \in Nat /\ DOMAIN events = 1..Len(events)
        BY <1>2
    <2>2. events' \in Seq(Events)
        BY <1>1, <1>3, <2>1
    <2>3. Len(events') = Len(events) /\ \A i \in 1..Len(events) : events'[i] = Nothing
        BY <1>1, <2>1
    <2> QED
        BY <2>2, <2>3, <1>3
<1>5. \A i \in 1..Len(events') : events'[i].to <= Len(committed)
    BY <1>4, PipelineFacts DEF ClientInv
<1>6. /\ ViewOK(view', Queue, written)
      /\ online' \in {"Unknown", "Online", "Offline"} /\ failures' \in Nat
      /\ timer' \in BOOLEAN
    <2>1. CASE watch = "open"
        BY <1>1, <2>1, NoViewOK, TypedFacts DEF onlineVars
    <2>2. CASE watch # "open"
        <3>1. UpdateState("Unknown", NoView) /\ ViewOK(NoView, Queue, written)
            BY <1>1, <2>2, NoViewOK
        <3> QED
            BY <3>1, UpdateKeeps
    <2> QED
        BY <2>1, <2>2
<1>7. StreamsTyped'
    <2>1. watchIdle' \in BOOLEAN
        <3>1. watchIdle' = TRUE \/ watchIdle' = watchIdle
            BY <1>1
        <3> QED
            BY <3>1, TypedFacts
    <2> QED
        BY <1>1, <1>4, <1>6, <2>1, TypedFacts DEF StreamsTyped, Events
<1> QED
    BY <1>1, <1>5, <1>6, <1>7, WatchOnly

LEMMA WatchCloses == ClientInv /\ OnWatchStreamClose => ClientInv'
<1> SUFFICES ASSUME ClientInv, OnWatchStreamClose PROVE ClientInv'
    OBVIOUS
<1>1. /\ faults < MaxFaults /\ faults' = faults + 1
      /\ watch' = IF view.listening THEN "backoff" ELSE "error"
      /\ watchIdle' = FALSE /\ target' = "none" /\ events' = <<>>
      /\ UNCHANGED <<written, clientVars, streamVars, committed,
                     cache, resume, sent, listens>>
      /\ IF view.listening THEN HandleWatchStreamFailure ELSE UpdateState("Unknown", view)
    BY DEF OnWatchStreamClose
<1>2. IInv'
    <2>1. /\ stream \in StreamStates /\ idle \in BOOLEAN /\ requests \in Seq(Batches)
          /\ answers \in Seq(Nat) /\ committed \in Seq(Writes) /\ faults \in 0..MaxFaults
        BY DEF ClientInv, IInv, PipelineTypeOK
    <2>2. /\ stream' = stream /\ idle' = idle /\ requests' = requests /\ answers' = answers
          /\ pipeline' = pipeline /\ committed' = committed
        BY <1>1 DEF streamVars
    <2>3. faults' \in 0..MaxFaults
        BY <1>1, <2>1, PipelineAssumption
    <2>4. IdleInv' /\ AnswersInv'
        BY <2>2 DEF ClientInv, IInv, IdleInv, AnswersInv
    <2> QED
        BY <1>1, <2>1, <2>2, <2>3, <2>4, StreamOnlyStep DEF ClientInv
<1>3. /\ ViewOK(view', Queue, written)
      /\ online' \in {"Unknown", "Online", "Offline"} /\ failures' \in Nat
      /\ timer' \in BOOLEAN
    <2>0. ViewOK(view, Queue, written)
        BY DEF ClientInv
    <2>1. CASE view.listening /\ online = "Online"
        <3>1. timer' = TRUE /\ failures' = failures /\ SetAndBroadcast("Unknown", view)
            BY <1>1, <2>1 DEF HandleWatchStreamFailure
        <3>2. online' = "Unknown" /\ timer' \in BOOLEAN
            BY <3>1 DEF SetAndBroadcast
        <3> QED
            BY <2>0, <3>1, <3>2, BroadcastKeeps, TypedFacts
    <2>2. CASE view.listening /\ online # "Online"
        <3>1. timer' = FALSE /\ failures' = failures + 1 /\ SetAndBroadcast("Offline", view)
            BY <1>1, <2>2 DEF HandleWatchStreamFailure
        <3>2. online' = "Offline" /\ timer' \in BOOLEAN
            BY <3>1 DEF SetAndBroadcast
        <3> QED
            BY <2>0, <3>1, <3>2, BroadcastKeeps, TypedFacts
    <2>3. CASE ~view.listening
        <3>1. UpdateState("Unknown", view)
            BY <1>1, <2>3
        <3> QED
            BY <2>0, <3>1, UpdateKeeps
    <2> QED
        BY <2>1, <2>2, <2>3
<1>4. watchIdle' \in BOOLEAN /\ watch' \in StreamStates \ {"ready"}
    BY <1>1 DEF StreamStates
<1>5. StreamsTyped'
    BY <1>1, <1>3, <1>4, TypedFacts DEF StreamsTyped
<1>6. Queue' = Queue /\ written' = written /\ EventsInv'
    BY <1>1 DEF Queue, clientVars, EventsInv
<1>7. ViewOK(view', Queue', written')
    BY <1>3, <1>6
<1> QED
    BY <1>2, <1>5, <1>6, <1>7 DEF ClientInv, ViewOK, HasPending, ToldAll

LEMMA WatchIdles == ClientInv /\ WatchIdleTimeout => ClientInv'
<1> SUFFICES ASSUME ClientInv, WatchIdleTimeout PROVE ClientInv'
    OBVIOUS
<1>1. /\ watch' = IF view.listening THEN "starting" ELSE "initial"
      /\ watchIdle' = FALSE /\ target' = "none" /\ events' = <<>>
      /\ UNCHANGED <<pipelineVars, cache, resume, sent, listens>>
      /\ UpdateState("Unknown", view)
    BY DEF WatchIdleTimeout
<1>2. /\ ViewOK(view', Queue, written)
      /\ online' \in {"Unknown", "Online", "Offline"} /\ failures' \in Nat
      /\ timer' \in BOOLEAN
    BY <1>1, UpdateKeeps DEF ClientInv
<1>3. watchIdle' \in BOOLEAN /\ watch' \in StreamStates \ {"ready"}
    BY <1>1 DEF StreamStates
<1>4. StreamsTyped'
    BY <1>1, <1>2, <1>3, TypedFacts DEF StreamsTyped
<1>5. \A i \in 1..Len(events') : events'[i].to <= Len(committed)
    BY <1>1
<1> QED
    BY <1>1, <1>2, <1>4, <1>5, WatchOnly

LEMMA OnlineTimesOut == ClientInv /\ OnlineStateTimeout => ClientInv'
<1> SUFFICES ASSUME ClientInv, OnlineStateTimeout PROVE ClientInv'
    OBVIOUS
<1>1. /\ timer' = FALSE /\ SetAndBroadcast("Offline", view)
      /\ UNCHANGED <<pipelineVars, cache, resume, watchVars, failures, listens>>
    BY DEF OnlineStateTimeout
<1>2. ViewOK(view', Queue, written)
    BY <1>1, BroadcastKeeps DEF ClientInv
<1>3. online' = "Offline" /\ timer' \in BOOLEAN
    BY <1>1 DEF SetAndBroadcast
<1>4. StreamsTyped'
    BY <1>1, <1>3, TypedFacts DEF StreamsTyped, watchVars
<1>5. \A i \in 1..Len(events') : events'[i].to <= Len(committed)
    BY <1>1 DEF ClientInv, EventsInv, watchVars
<1> QED
    BY <1>1, <1>2, <1>4, <1>5, WatchOnly

\* The stream's own steps and the server's, which reach no document.
LEMMA WatchMoves ==
    ASSUME ClientInv,
           WatchBackoffElapses \/ OnWatchStreamOpen \/ WatchAcknowledges \/ WatchSends
    PROVE  ClientInv'
<1> DEFINE Events == [kind : {"message", "snapshot"}, from : Nat, to : Nat]
<1>1. UNCHANGED <<pipelineVars, docVars, watchIdle, onlineVars, listens>>
    BY DEF WatchBackoffElapses, OnWatchStreamOpen, WatchAcknowledges, WatchSends
<1>2. /\ watch' \in StreamStates \ {"ready"}
      /\ target' \in {"none", "requested", "acked", "current"} /\ sent' \in Nat
    BY TypedFacts, PipelineFacts
       DEF WatchBackoffElapses, OnWatchStreamOpen, WatchAcknowledges, WatchSends,
           StreamStates, ClientInv
<1>3. events \in Seq(Events) /\ \A i \in 1..Len(events) : events[i].to <= Len(committed)
    BY TypedFacts DEF ClientInv, EventsInv
<1> HIDE DEF Events
<1>4. events' \in Seq(Events) /\ \A i \in 1..Len(events') : events'[i].to <= Len(committed)
    <2>1. CASE events' = events
        BY <2>1, <1>3
    <2>2. CASE \E event \in Events : event.to <= Len(committed) /\ events' = Append(events, event)
        <3>1. PICK event \in Events : event.to <= Len(committed) /\ events' = Append(events, event)
            BY <2>2
        <3>2. /\ events' \in Seq(Events) /\ Len(events') = Len(events) + 1
              /\ \A i \in 1..Len(events) : events'[i] = events[i]
              /\ events'[Len(events) + 1] = event /\ Len(events) \in Nat
            BY <3>1, <1>3, AppendProperties
        <3> QED
            BY <3>1, <3>2, <1>3
    <2>3. ASSUME WatchAcknowledges
          PROVE  \E event \in Events : event.to <= Len(committed) /\ events' = Append(events, event)
        <3>1. Nothing \in Events /\ Nothing.to <= Len(committed)
            BY PipelineFacts DEF Nothing, Events, ClientInv
        <3> QED
            BY <2>3, <3>1 DEF WatchAcknowledges
    <2>4. ASSUME WatchSends
          PROVE  \E event \in Events : event.to <= Len(committed) /\ events' = Append(events, event)
        <3> DEFINE event == [kind |-> "snapshot", from |-> sent, to |-> Len(committed)]
        <3>1. event \in Events /\ event.to <= Len(committed)
            BY TypedFacts, PipelineFacts DEF Events, ClientInv
        <3>2. events' = Append(events, event)
            BY <2>4 DEF WatchSends
        <3> HIDE DEF event
        <3> QED
            BY <3>1, <3>2
    <2>5. WatchBackoffElapses \/ OnWatchStreamOpen => events' = events
        BY DEF WatchBackoffElapses, OnWatchStreamOpen
    <2> QED
        BY <2>1, <2>2, <2>3, <2>4, <2>5
<1>5. StreamsTyped'
    BY <1>1, <1>2, <1>4, TypedFacts DEF StreamsTyped, docVars, onlineVars, Events
<1>6. ViewOK(view', Queue, written)
    BY <1>1 DEF ClientInv, docVars
<1> QED
    BY <1>1, <1>4, <1>5, <1>6, WatchOnly

LEMMA WrittenBefore ==
    ASSUME ClientInv, NEW key, NEW version \in Nat, version <= Len(committed)
    PROVE  VersionAt(key, version) \in Nat /\ WriteAt(key, version) \in Nat
<1> DEFINE on == {v \in 1..version : written[committed[v]].key = key}
<1>1. on \subseteq Nat /\ \A n \in on : n <= version
    OBVIOUS
<1>2. VersionAt(key, version) = IF on = {} THEN 0 ELSE LastOf(on)
    BY DEF VersionAt
<1> HIDE DEF on
<1>3. VersionAt(key, version) \in {0} \cup on
    BY <1>1, <1>2, LastOfFacts
<1>4. VersionAt(key, version) \in 0..version
    BY <1>3 DEF on
<1>5. committed \in Seq(Writes) /\ Len(committed) \in Nat
    BY PipelineFacts DEF ClientInv
<1>6. \A i \in 1..Len(committed) : committed[i] \in Nat
    <2>1. \A i \in 1..Len(committed) : committed[i] \in Writes
        BY <1>5, ElementOfSeq
    <2> QED
        BY <2>1 DEF Writes
<1> QED
    BY <1>4, <1>5, <1>6 DEF WriteAt

\* Watch's snapshots renew the cache with what was committed.
LEMMA WatchChanges == ClientInv /\ OnWatchStreamChange => ClientInv'
<1> SUFFICES ASSUME ClientInv, OnWatchStreamChange PROVE ClientInv'
    OBVIOUS
<1> DEFINE event == Head(events)
           Events == [kind : {"message", "snapshot"}, from : Nat, to : Nat]
           keys == {k \in Keys : VersionAt(k, event.to) > event.from}
           news == {k \in keys : IsNews(cache[k], VersionAt(k, event.to))}
           now == HandleOnlineStateChange(view, online, "Online")
           on == TRUE
<1>1. /\ events # <<>> /\ events' = Tail(events)
      /\ online' = "Online" /\ timer' = FALSE /\ failures' = 0
      /\ UNCHANGED <<pipelineVars, watch, watchIdle, target, sent, listens>>
    BY DEF OnWatchStreamChange
<1>2. \/ /\ resume' = event.to
         /\ cache' = [k \in Keys |-> IF k \in keys
                                       THEN Updated(cache[k], VersionAt(k, event.to),
                                                    WriteAt(k, event.to))
                                       ELSE cache[k]]
         /\ view' = EmitNewSnapshots(now, news, LocalDocuments(cache'), on, "Online")
      \/ view' = now /\ cache' = cache /\ resume' = resume
    BY DEF OnWatchStreamChange
<1>3. events \in Seq(Events)
    BY TypedFacts
<1> HIDE DEF Events
<1>4. /\ events' \in Seq(Events) /\ Len(events') = Len(events) - 1 /\ Len(events) \in Nat
      /\ \A i \in 1..Len(events') : events'[i] = events[i + 1]
      /\ event = events[1] /\ 1 \in 1..Len(events)
    <2>1. /\ Tail(events) \in Seq(Events) /\ Len(Tail(events)) = Len(events) - 1
          /\ \A i \in 1..Len(Tail(events)) : Tail(events)[i] = events[i + 1]
          /\ Head(events) = events[1]
        BY <1>1, <1>3, HeadTailProperties, EmptySeq
    <2>2. Len(events) \in Nat /\ Len(events) # 0
        BY <1>1, <1>3, EmptySeq
    <2> QED
        BY <1>1, <2>1, <2>2
<1>5. event.to \in Nat /\ event.to <= Len(committed)
    BY <1>4, EventFacts
<1>6. \A i \in 1..Len(events') : events'[i].to <= Len(committed)
    <2>1. \A i \in 1..Len(events') : i + 1 \in 1..Len(events)
        BY <1>4
    <2> QED
        BY <2>1, <1>4, EventFacts
<1> HIDE DEF event
<1>7. \A k \in Keys : VersionAt(k, event.to) \in Nat /\ WriteAt(k, event.to) \in Nat
    BY <1>5, WrittenBefore
<1>8. cache' \in [Keys -> Documents]
    <2>1. cache \in [Keys -> Documents]
        BY TypedFacts
    <2>2. ASSUME NEW k \in Keys
          PROVE  Updated(cache[k], VersionAt(k, event.to), WriteAt(k, event.to)) \in Documents
        <3>1. Document(VersionAt(k, event.to), WriteAt(k, event.to), "synced") \in Documents
            BY <1>7, DocumentFacts DEF DocumentStates
        <3> QED
            BY <2>1, <3>1 DEF Updated
    <2> HIDE DEF keys, now
    <2> QED
        BY <1>2, <2>1, <2>2
<1>9. /\ now \in Views /\ ToldAll(now) /\ (now.listening <=> view.listening)
      /\ ~now.listening => now = NoView
      /\ now.docs = view.docs
    BY TypedFacts, OnlineFacts
<1>10. on \in BOOLEAN
    OBVIOUS
<1>11. /\ Queue' = Queue /\ written' = written /\ Queue' \in Seq(Batches)
    BY <1>1, PipelineUnchanged
<1> HIDE DEF keys, news, now, on
<1>12. ViewOK(now, Queue, written)
    BY <1>9 DEF ClientInv, ViewOK, HasPending
<1>13. ViewOK(view', Queue, written)
    <2>1. CASE view' = now
        BY <2>1, <1>12
    <2>2. CASE view' = EmitNewSnapshots(now, news, LocalDocuments(cache'), on, "Online")
        <3>1. now.listening => \A k \in Keys \ news : \A i \in 1..Len(Queue') :
                 LastFor(Queue', written', k, i) => now.docs[k].write = Queue'[i].write
            BY <1>11, <1>12 DEF ViewOK, HasPending
        <3>2. ViewOK(view', Queue', written')
            BY <2>2, <3>1, <1>8, <1>9, <1>10, <1>11, EmitKeeps
        <3> QED
            BY <3>2, <1>11
    <2> QED
        BY <1>2, <2>1, <2>2
<1>14. StreamsTyped'
    <2>1. timer' \in BOOLEAN
        BY <1>1
    <2>2. resume' \in Nat
        BY <1>2, <1>5, TypedFacts
    <2> QED
        BY <1>1, <1>4, <1>8, <2>1, <2>2, TypedFacts DEF StreamsTyped, Events
<1> QED
    BY <1>1, <1>6, <1>13, <1>14, WatchOnly
-----------------------------------------------------------------------------
(* The customer and the app. *)

LEMMA CustomerChanges ==
    ASSUME ClientInv, NEW u \in Users, CredentialChange(u)
    PROVE  ClientInv'
<1> DEFINE closed == IF watch = "error" THEN "error" ELSE "initial"
           keys == IF u = currentUser THEN {} ELSE KeysIn(Queue) \cup KeysIn(queues[u])
           seen == EmitNewSnapshots(view, keys, LocalDocuments(cache), view.current, online)
<1>1. /\ HandleCredentialChange(u)
      /\ watch' = IF view.listening THEN StartedFrom(closed) ELSE closed
      /\ watchIdle' = FALSE /\ target' = "none" /\ events' = <<>>
      /\ timer' = view.listening /\ failures' = 0
      /\ SetAndBroadcast("Unknown", seen)
      /\ UNCHANGED <<cache, resume, sent, listens>>
    BY DEF CredentialChange
<1>2. IInv'
    BY <1>1, Invariant DEF ClientInv, PipelineNext
<1>3. /\ currentUser' = u /\ queues' = queues /\ written' = written
    BY <1>1 DEF HandleCredentialChange
<1>4. Queue' = queues[u] /\ Queue' \in Seq(Batches)
    BY <1>2, <1>3, NextQueue DEF Queue
<1>5. ASSUME view.listening, NEW k \in Keys \ keys, NEW i \in 1..Len(Queue'),
             LastFor(Queue', written', k, i)
      PROVE  view.docs[k].write = Queue'[i].write
    <2>1. CASE u = currentUser
        <3>1. Queue' = Queue
            BY <1>4, <2>1 DEF Queue
        <3> QED
            BY <1>3, <1>5, <3>1 DEF ClientInv, ViewOK, HasPending
    <2>2. CASE u # currentUser
        <3>1. k \notin KeysIn(queues[u])
            BY <1>5, <2>2
        <3>2. i \in DOMAIN queues[u] /\ written[queues[u][i].write].key = k
            BY <1>3, <1>4, <1>5 DEF LastFor
        <3> QED
            BY <3>1, <3>2 DEF KeysIn
    <2> QED
        BY <2>1, <2>2
<1>6. closed \in {"initial", "error"}
    OBVIOUS
<1>7. seen = EmitNewSnapshots(view, keys, LocalDocuments(cache), view.current, online)
    OBVIOUS
<1> HIDE DEF keys, seen, closed
<1>8. ViewOK(seen, Queue', written')
    BY <1>4, <1>5, <1>7, TypedFacts, EmitKeeps
<1>9. ViewOK(view', Queue', written')
    BY <1>1, <1>8, BroadcastKeeps
<1>10. online' = "Unknown"
    BY <1>1 DEF SetAndBroadcast
<1>11. watch' \in StreamStates \ {"ready"}
    BY <1>1, <1>6 DEF StartedFrom, StreamStates
<1>12. timer' \in BOOLEAN /\ watchIdle' \in BOOLEAN
    BY <1>1, TypedFacts, Zenon
<1>13. StreamsTyped'
    BY <1>1, <1>10, <1>11, <1>12, TypedFacts DEF StreamsTyped
<1>14. EventsInv'
    BY <1>1 DEF EventsInv
<1> QED
    BY <1>2, <1>9, <1>13, <1>14 DEF ClientInv, ViewOK, HasPending, ToldAll

LEMMA AppRestarts == ClientInv /\ Restart => ClientInv'
<1> SUFFICES ASSUME ClientInv, Restart PROVE ClientInv'
    OBVIOUS
<1>1. /\ Relaunch /\ view' = NoView
      /\ watch' = "initial" /\ watchIdle' = FALSE /\ target' = "none" /\ events' = <<>>
      /\ online' = "Unknown" /\ failures' = 0 /\ timer' = FALSE
      /\ UNCHANGED <<cache, resume, sent, listens>>
    BY DEF Restart
<1>2. IInv'
    BY <1>1, Invariant DEF ClientInv, PipelineNext
<1>3. timer' \in BOOLEAN /\ watchIdle' \in BOOLEAN
    BY <1>1
<1>4. StreamsTyped'
    BY <1>1, <1>3, TypedFacts DEF StreamsTyped, StreamStates
<1>5. EventsInv'
    BY <1>1 DEF EventsInv
<1>6. ViewOK(view', Queue', written')
    BY <1>1, NoViewOK
<1> QED
    BY <1>2, <1>4, <1>5, <1>6 DEF ClientInv, ViewOK, HasPending, ToldAll

LEMMA Idling == ClientInv /\ UNCHANGED vars => ClientInv'
<1> SUFFICES ASSUME ClientInv, UNCHANGED vars PROVE ClientInv'
    OBVIOUS
<1>1. /\ UNCHANGED pipelineVars
      /\ UNCHANGED <<cache, resume, view, watch, watchIdle, target, sent, events,
                     online, failures, timer, listens>>
    BY DEF vars, docVars, watchVars, onlineVars
<1>2. StreamsTyped' /\ ViewOK(view', Queue, written)
    BY <1>1 DEF ClientInv, StreamsTyped
<1>3. \A i \in 1..Len(events') : events'[i].to <= Len(committed)
    BY <1>1 DEF ClientInv, EventsInv
<1> QED
    BY <1>1, <1>2, <1>3, WatchOnly

\* Every step keeps the invariant.
LEMMA ClientInvariant == ClientInv /\ [Next]_vars => ClientInv'
    BY MakingAWrite, AWriteIsAcknowledged, AWriteIsRefused, PipelineMoves,
       Listening, NoMoreListening, WatchCloses, WatchIdles, OnlineTimesOut,
       WatchMoves, WatchChanges, CustomerChanges, AppRestarts, Idling
       DEF Next, WatchStep

LEMMA ClientInductive == Spec => []ClientInv
    BY ClientInitially, ClientInvariant, PTL DEF Spec
-----------------------------------------------------------------------------
(* No document goes back in time.  What is known of the log: an answer on its *)
(* way is the last the server said of its write, and what another device      *)
(* wrote is committed once.                                                   *)

\* In this log write w has no version after b.
NoLater(log, w, b) == \A v \in 1..Len(log) : log[v] = w => v <= b

AnswersAreLast ==
    \A i \in 1..Len(answers) : NoLater(committed, committed[answers[i]], answers[i])

OthersOnce ==
    \A v \in 1..Len(committed) :
        written[committed[v]].user = Other => NoLater(committed, committed[v], v)

IsPending(q, w) == \E i \in 1..Len(q) : q[i].write = w

\* What a step of the client means to the pipeline: one of its own steps, or a
\* fault of the other stream.
LogStep ==
    \/ [PipelineNext]_pipelineVars
    \/ UNCHANGED <<written, clientVars, streamVars, committed>>

LEMMA StepsOfTheLog == [Next]_vars => LogStep
<1>1. ASSUME NEW key \in Keys, NEW valid \in BOOLEAN, Write(key, valid) PROVE LogStep
    BY <1>1 DEF Write, LogStep, PipelineNext
<1>2. HandleSuccessfulWrite \/ HandleRejectedWrite => LogStep
    BY DEF HandleSuccessfulWrite, HandleRejectedWrite, LogStep, PipelineNext, StreamStep
<1>3. PipelineOnly => LogStep
    BY DEF PipelineOnly, LogStep, PipelineNext, StreamStep
<1>4. Listen \/ StopListening \/ WatchIdleTimeout \/ OnlineStateTimeout => LogStep
    BY DEF Listen, StopListening, WatchIdleTimeout, OnlineStateTimeout, LogStep
<1>5. OnWatchStreamClose => LogStep
    BY DEF OnWatchStreamClose, LogStep
<1>6. WatchStep => LogStep
    BY DEF WatchStep, WatchBackoffElapses, OnWatchStreamOpen, WatchAcknowledges, WatchSends,
           OnWatchStreamChange, LogStep
<1>7. ASSUME NEW u \in Users, CredentialChange(u) PROVE LogStep
    BY <1>7 DEF CredentialChange, LogStep, PipelineNext
<1>8. Restart => LogStep
    BY DEF Restart, LogStep, PipelineNext
<1>9. UNCHANGED vars => LogStep
    BY DEF vars, LogStep
<1> QED
    BY <1>1, <1>2, <1>3, <1>4, <1>5, <1>6, <1>7, <1>8, <1>9 DEF Next

\* Composed with the rest of the client, too, the pipeline keeps its order.
LEMMA OrderKeptByClient == OrderInv /\ IInv' /\ LogStep => OrderInv' /\ OrderStep
<1> SUFFICES ASSUME OrderInv, IInv', LogStep PROVE OrderInv' /\ OrderStep
    OBVIOUS
<1>1. CASE [PipelineNext]_pipelineVars
    BY <1>1, OrderKept
<1>2. CASE UNCHANGED <<written, clientVars, streamVars, committed>>
    <2>1. KeepsOrder
        BY <1>2, StutterOrder DEF clientVars, streamVars
    <2> QED
        BY <2>1 DEF KeepsOrder, OrderInv
<1> QED
    BY <1>1, <1>2 DEF LogStep

\* A write of a queue is of its user, and not of another device.
LEMMA PendingIsOwn ==
    ASSUME IInv, NEW i \in 1..Len(Queue)
    PROVE  /\ Queue[i].write \in 1..Len(written) /\ Queue[i].write \in Writes
           /\ written[Queue[i].write].user # Other
           /\ \A j \in 1..Len(Queue) : j # i => Queue[j].write # Queue[i].write
<1>1. currentUser \in Users /\ currentUser # Other
    BY Facts, PipelineAssumption
<1> QED
    BY <1>1, BatchFacts DEF Queue

\* What the server is asked next is pending, and none of what it has answered.
LEMMA NextCommit ==
    ASSUME OrderInv, Commit
    PROVE  /\ IsPending(Queue, Head(requests).write)
           /\ Head(requests).write \in Writes /\ Head(requests).write \in 1..Len(written)
           /\ written[Head(requests).write].user # Other
           /\ \A i \in 1..Len(answers) : committed[answers[i]] # Head(requests).write
<1> DEFINE w == Head(requests).write
           m == Len(answers) + 1
<1>0. IInv /\ requests # <<>>
    BY DEF OrderInv, Commit
<1>1. /\ currentUser \in Users /\ Queue = queues[currentUser]
      /\ Queue \in Seq(Batches) /\ Len(Queue) \in Nat /\ Len(answers) \in Nat
    BY <1>0, Facts DEF Queue
<1>2. /\ m \in DOMAIN PendingWrites[currentUser] /\ w = PendingWrites[currentUser][m]
      /\ w \in Writes /\ w \in 1..Len(written)
    BY <1>0, NextRequest
<1>3. /\ DOMAIN PendingWrites[currentUser] = 1..Len(Queue)
      /\ \A i \in 1..Len(Queue) : PendingWrites[currentUser][i] = Queue[i].write
    <2>1. PendingWrites[currentUser] = WritesOf(Queue)
        BY <1>0, <1>1, PendingFacts
    <2> QED
        BY <2>1, <1>1, WritesOfFacts
<1>m. m = Len(answers) + 1
    OBVIOUS
<1> HIDE DEF w, m
<1>4. m \in 1..Len(Queue) /\ w = Queue[m].write
    BY <1>2, <1>3
<1>5. written[w].user # Other /\ \A j \in 1..Len(Queue) : j # m => Queue[j].write # w
    BY <1>0, <1>4, PendingIsOwn
<1>6. ASSUME NEW i \in 1..Len(answers) PROVE committed[answers[i]] # w
    <2>1. answers # <<>>
        BY <1>1
    <2>2. Len(answers) \in 1..Len(Queue)
        BY <2>1, <1>3, AnswersArePending
    <2>3. i \in 1..Len(Queue) /\ i # m
        BY <2>2, <1>1, <1>m
    <2>4. committed[answers[i]] = PendingWrites[currentUser][i]
        BY <2>1, AnswersArePending
    <2> QED
        BY <2>3, <2>4, <1>3, <1>5
<1> QED
    BY <1>2, <1>4, <1>5, <1>6 DEF IsPending, w

\* The log and the list of writes only grow, and what is new in the log was
\* pending or is new itself.
LEMMA LogGrows ==
    ASSUME OrderInv, IInv', LogStep
    PROVE  /\ written \in Seq([user : Users \cup {Other}, key : Keys, valid : BOOLEAN])
           /\ committed \in Seq(Writes)
           /\ Len(written) \in Nat /\ Len(committed) \in Nat
           /\ Len(written') \in Nat /\ Len(committed') \in Nat
           /\ Len(written) <= Len(written') /\ Len(committed) <= Len(committed')
           /\ Len(committed') <= Len(committed) + 1
           /\ \A w \in 1..Len(written) : written'[w] = written[w]
           /\ \A v \in 1..Len(committed) :
                 committed'[v] = committed[v] /\ committed[v] \in 1..Len(written)
           /\ \A v \in 1..Len(committed') : v > Len(committed) =>
                 \/ committed'[v] = Len(written) + 1
                 \/ IsPending(Queue, committed'[v]) /\ committed'[v] \in 1..Len(written)
<1> DEFINE Entries == [user : Users \cup {Other}, key : Keys, valid : BOOLEAN]
           New(v) == \/ committed'[v] = Len(written) + 1
                     \/ IsPending(Queue, committed'[v]) /\ committed'[v] \in 1..Len(written)
           Grows == /\ Len(written) <= Len(written') /\ Len(committed) <= Len(committed')
                    /\ Len(committed') <= Len(committed) + 1
                    /\ \A w \in 1..Len(written) : written'[w] = written[w]
                    /\ \A v \in 1..Len(committed) : committed'[v] = committed[v]
                    /\ \A v \in 1..Len(committed') : v > Len(committed) => New(v)
<1>1. /\ written \in Seq(Entries) /\ committed \in Seq(Writes)
      /\ Len(written) \in Nat /\ Len(committed) \in Nat
      /\ Len(written') \in Nat /\ Len(committed') \in Nat /\ currentUser \in Users
    <2>1. written \in Seq(Entries) /\ committed \in Seq(Writes) /\ currentUser \in Users
        BY DEF OrderInv, IInv, PipelineTypeOK
    <2>2. written' \in Seq(Entries) /\ committed' \in Seq(Writes)
        BY DEF IInv, PipelineTypeOK
    <2> HIDE DEF Entries
    <2> QED
        BY <2>1, <2>2
<1>2. \A v \in 1..Len(committed) : committed[v] \in 1..Len(written)
    BY DEF OrderInv, LogInv
<1>3. ASSUME NEW e \in Entries, written' = Append(written, e)
      PROVE  /\ Len(written') = Len(written) + 1
             /\ \A w \in 1..Len(written) : written'[w] = written[w]
    <2> HIDE DEF Entries
    <2> QED
        BY <1>1, <1>3, AppendProperties
<1>4. ASSUME NEW w \in Writes, committed' = Append(committed, w)
      PROVE  /\ Len(committed') = Len(committed) + 1 /\ committed'[Len(committed) + 1] = w
             /\ \A v \in 1..Len(committed) : committed'[v] = committed[v]
             /\ \A v \in 1..Len(committed') : v > Len(committed) => committed'[v] = w
    <2>1. /\ Len(committed') = Len(committed) + 1 /\ committed'[Len(committed) + 1] = w
          /\ \A v \in 1..Len(committed) : committed'[v] = committed[v]
        BY <1>1, <1>4, AppendProperties
    <2>2. \A v \in 1..Len(committed') : v > Len(committed) => v = Len(committed) + 1
        BY <1>1, <2>1
    <2> QED
        BY <2>1, <2>2
<1>5. ASSUME NEW key \in Keys, NEW valid \in BOOLEAN, WriteMutations(key, valid)
      PROVE  Grows
    <2> DEFINE e == [user |-> currentUser, key |-> key, valid |-> valid]
    <2>1. written' = Append(written, e) /\ committed' = committed /\ e \in Entries
        BY <1>1, <1>5 DEF WriteMutations
    <2> HIDE DEF e, Entries
    <2> QED
        BY <2>1, <1>1, <1>3
<1>6. ASSUME NEW key \in Keys, CommitOther(key) PROVE Grows
    <2> DEFINE e == [user |-> Other, key |-> key, valid |-> TRUE]
    <2>1. /\ written' = Append(written, e) /\ e \in Entries /\ Len(written) < MaxWrites
          /\ committed' = Append(committed, Len(written) + 1)
        BY <1>6 DEF CommitOther
    <2>2. Len(written) + 1 \in Writes
        BY <2>1, <1>1, PipelineAssumption DEF Writes
    <2> HIDE DEF e, Entries
    <2>3. Len(written') = Len(written) + 1 /\ \A w \in 1..Len(written) : written'[w] = written[w]
        BY <2>1, <1>3
    <2> QED
        BY <2>1, <2>2, <2>3, <1>1, <1>4
<1>7. ASSUME Commit PROVE Grows
    <2>1. written' = written /\ committed' = Append(committed, Head(requests).write)
        BY <1>7 DEF Commit
    <2>2. /\ Head(requests).write \in Writes /\ Head(requests).write \in 1..Len(written)
          /\ IsPending(Queue, Head(requests).write)
        BY <1>7, NextCommit
    <2> QED
        BY <2>1, <2>2, <1>1, <1>4
<1>8. \/ written' = written /\ committed' = committed
      \/ \E key \in Keys, valid \in BOOLEAN : WriteMutations(key, valid)
      \/ \E key \in Keys : CommitOther(key)
      \/ Commit
    BY DEF LogStep, PipelineNext, StreamStep, pipelineVars, HandleCredentialChange, Relaunch,
           OnWriteStreamClose, IdleTimeout, BackoffElapses, OnStreamStart,
           OnWriteStreamHandshakeComplete, OnWriteStreamMutationResult, HandleWriteError
<1>9. Grows
    <2>1. CASE written' = written /\ committed' = committed
        BY <2>1, <1>1
    <2> HIDE DEF Grows
    <2> QED
        BY <2>1, <1>5, <1>6, <1>7, <1>8
<1> QED
    BY <1>1, <1>2, <1>9

\* A write that is not pending any more gets no later version.
LEMMA NoLaterKept ==
    ASSUME OrderInv, IInv', LogStep, NEW w \in 1..Len(written), ~IsPending(Queue, w),
           NEW b, NoLater(committed, w, b)
    PROVE  NoLater(committed', w, b)
<1>1. ASSUME NEW v \in 1..Len(committed'), committed'[v] = w PROVE v <= b
    <2>1. Len(written) \in Nat /\ Len(committed) \in Nat /\ Len(committed') \in Nat
        BY LogGrows
    <2>2. CASE v \in 1..Len(committed)
        BY <2>2, <1>1, LogGrows DEF NoLater
    <2>3. CASE v > Len(committed)
        <3>1. w = Len(written) + 1
            BY <2>3, <1>1, LogGrows
        <3> QED
            BY <3>1, <2>1
    <2> QED
        BY <2>1, <2>2, <2>3
<1> QED
    BY <1>1 DEF NoLater

LEMMA OthersOnceKept ==
    ASSUME OrderInv, IInv', LogStep, OthersOnce
    PROVE  OthersOnce'
<1> SUFFICES ASSUME NEW v \in 1..Len(committed'), written'[committed'[v]].user = Other
             PROVE  NoLater(committed', committed'[v], v)
    BY DEF OthersOnce
<1>1. /\ Len(written) \in Nat /\ Len(committed) \in Nat /\ Len(committed') \in Nat
      /\ Len(committed') <= Len(committed) + 1
    BY LogGrows
<1>2. CASE v \in 1..Len(committed)
    <2>1. /\ committed'[v] = committed[v] /\ committed[v] \in 1..Len(written)
          /\ written'[committed[v]] = written[committed[v]]
        BY <1>2, LogGrows
    <2>2. NoLater(committed, committed[v], v)
        BY <2>1, <1>2 DEF OthersOnce
    <2>3. ~IsPending(Queue, committed[v])
        BY <2>1, PendingIsOwn DEF IsPending, OrderInv
    <2> QED
        BY <2>1, <2>2, <2>3, NoLaterKept
<1>3. CASE v > Len(committed)
    <2>1. \A later \in 1..Len(committed') : committed'[later] = committed'[v] => later <= v
        <3>1. v = Len(committed')
            BY <1>1, <1>3
        <3> QED
            BY <3>1, <1>1
    <2> QED
        BY <2>1 DEF NoLater
<1> QED
    BY <1>1, <1>2, <1>3

LEMMA AnswersAreLastKept ==
    ASSUME OrderInv, IInv', LogStep, AnswersAreLast
    PROVE  AnswersAreLast'
<1>0. IInv /\ answers \in Seq(Nat) /\ Len(answers) \in Nat /\ committed \in Seq(Writes)
      /\ Len(committed) \in Nat /\ Len(written) \in Nat
    BY Facts DEF OrderInv
<1>1. CASE answers' = <<>>
    BY <1>1 DEF AnswersAreLast
<1>2. CASE answers' = answers /\ committed' = committed
    BY <1>2 DEF AnswersAreLast
<1>3. CASE OnWriteStreamMutationResult
    <2>1. answers # <<>> /\ answers' = Tail(answers) /\ committed' = committed
        BY <1>3 DEF OnWriteStreamMutationResult
    <2>2. /\ Len(answers') = Len(answers) - 1
          /\ \A i \in 1..Len(answers') : answers'[i] = answers[i + 1]
        BY <1>0, <2>1, HeadTailProperties
    <2>3. \A i \in 1..Len(answers') : i + 1 \in 1..Len(answers)
        BY <1>0, <2>2
    <2> QED
        BY <2>1, <2>2, <2>3 DEF AnswersAreLast
<1>4. ASSUME NEW i \in 1..Len(answers)
      PROVE  answers[i] \in 1..Len(committed) /\ NoLater(committed, committed[answers[i]], answers[i])
    <2>1. answers # <<>>
        BY <1>0
    <2>2. answers[i] \in 1..Len(committed)
        BY <1>0, <2>1 DEF IInv, AnswersInv
    <2> QED
        BY <2>2 DEF AnswersAreLast
<1>5. ASSUME NEW w \in Writes, committed' = Append(committed, w),
             \A i \in 1..Len(answers) : committed[answers[i]] # w,
             NEW i \in 1..Len(answers)
      PROVE  NoLater(committed', committed'[answers[i]], answers[i])
    <2>1. /\ Len(committed') = Len(committed) + 1 /\ committed'[Len(committed) + 1] = w
          /\ \A v \in 1..Len(committed) : committed'[v] = committed[v]
        BY <1>0, <1>5, AppendProperties
    <2>2. committed'[answers[i]] = committed[answers[i]] /\ committed[answers[i]] # w
        BY <1>4, <1>5, <2>1
    <2>3. \A v \in 1..Len(committed') : v \in 1..Len(committed) \/ v = Len(committed) + 1
        BY <1>0, <2>1
    <2> QED
        BY <1>4, <2>1, <2>2, <2>3 DEF NoLater
<1>6. ASSUME NEW key \in Keys, CommitOther(key) PROVE AnswersAreLast'
    <2>1. /\ committed' = Append(committed, Len(written) + 1) /\ answers' = answers
          /\ Len(written) < MaxWrites
        BY <1>6 DEF CommitOther, streamVars
    <2>2. Len(written) + 1 \in Writes
        BY <2>1, <1>0, PipelineAssumption DEF Writes
    <2>3. \A i \in 1..Len(answers) : committed[answers[i]] # Len(written) + 1
        <3>1. \A i \in 1..Len(answers) : committed[answers[i]] \in 1..Len(written)
            BY <1>4 DEF OrderInv, LogInv
        <3> QED
            BY <3>1, <1>0
    <2> QED
        BY <2>1, <2>2, <2>3, <1>5 DEF AnswersAreLast
<1>7. CASE Commit
    <2> DEFINE w == Head(requests).write
    <2>1. committed' = Append(committed, w) /\ answers' = Append(answers, Len(committed) + 1)
        BY <1>7 DEF Commit
    <2>2. w \in Writes /\ \A i \in 1..Len(answers) : committed[answers[i]] # w
        BY <1>7, NextCommit
    <2> HIDE DEF w
    <2>3. /\ Len(answers') = Len(answers) + 1 /\ answers'[Len(answers) + 1] = Len(committed) + 1
          /\ \A i \in 1..Len(answers) : answers'[i] = answers[i]
          /\ Len(committed') = Len(committed) + 1
        BY <1>0, <2>1, <2>2, AppendProperties
    <2>4. \A x : NoLater(committed', x, Len(committed) + 1)
        BY <1>0, <2>3 DEF NoLater
    <2>5. ASSUME NEW i \in 1..Len(answers')
          PROVE  NoLater(committed', committed'[answers'[i]], answers'[i])
        <3>1. CASE i \in 1..Len(answers)
            BY <3>1, <2>1, <2>2, <2>3, <1>5
        <3>2. CASE i = Len(answers) + 1
            BY <3>2, <2>3, <2>4
        <3> QED
            BY <3>1, <3>2, <2>3, <1>0
    <2> QED
        BY <2>5 DEF AnswersAreLast
<1>8. \/ answers' = <<>>
      \/ answers' = answers /\ committed' = committed
      \/ OnWriteStreamMutationResult \/ Commit \/ \E key \in Keys : CommitOther(key)
    BY DEF LogStep, PipelineNext, StreamStep, pipelineVars, HandleCredentialChange, Relaunch,
           OnWriteStreamClose, IdleTimeout, BackoffElapses, OnStreamStart, WriteMutations,
           OnWriteStreamHandshakeComplete, HandleWriteError, streamVars
<1> QED
    BY <1>1, <1>2, <1>3, <1>6, <1>7, <1>8

-----------------------------------------------------------------------------
(* What is known of the documents.                                            *)

\* A document of the cache is what was committed at its version.
RightDocument(doc, key, made, log) ==
    IF doc.version = 0 THEN doc.write = 0
    ELSE /\ doc.version \in 1..Len(log) /\ log[doc.version] = doc.write
         /\ made[doc.write].key = key

CacheInv == \A k \in Keys : RightDocument(cache[k], k, written, committed)

\* No snapshot on its way is older than write w unless the cache knows better.
Heard(w) ==
    \A i \in 1..Len(events) : events[i].kind = "snapshot" =>
        \/ NoLater(committed, w, events[i].to)
        \/ NoLater(committed, w, cache[written[w].key].version)

\* This device's writes that are not pending (any more, or for this customer).
SettledHeard ==
    \A w \in 1..Len(written) :
        written[w].user # Other /\ ~IsPending(Queue, w) => Heard(w)

\* A view's documents are of their keys, and what another device wrote came by
\* the cache.
DocsRight(v, made, log, docs) ==
    \A k \in Keys :
        LET w == v.docs[k].write
        IN  w # 0 => /\ w \in 1..Len(made) /\ made[w].key = k
                     /\ made[w].user = Other => NoLater(log, w, docs[k].version)

TimeInv ==
    /\ ClientInv /\ OrderInv
    /\ AnswersAreLast /\ OthersOnce
    /\ CacheInv /\ SettledHeard
    /\ DocsRight(view, written, committed, cache)

LEMMA TimeInitially == Init => TimeInv
<1> SUFFICES ASSUME Init PROVE TimeInv
    OBVIOUS
<1>1. ClientInv /\ OrderInv
    BY ClientInitially, OrderInitially DEF Init
<1>2. /\ committed = <<>> /\ written = <<>> /\ answers = <<>> /\ events = <<>>
      /\ cache = [k \in Keys |-> NoDocument] /\ view = NoView
    BY DEF Init, PipelineInit
<1>3. AnswersAreLast /\ OthersOnce /\ SettledHeard
    BY <1>2 DEF AnswersAreLast, OthersOnce, SettledHeard
<1>4. NoDocument.version = 0 /\ NoDocument.write = 0
    BY DEF NoDocument, Document
<1>5. CacheInv
    BY <1>2, <1>4 DEF CacheInv, RightDocument
<1>6. \A k \in Keys : NoView.docs[k].write = 0
    BY <1>4 DEF NoView
<1>7. DocsRight(view, written, committed, cache)
    BY <1>2, <1>6 DEF DocsRight
<1> QED
    BY <1>1, <1>3, <1>5, <1>7 DEF TimeInv

LEMMA VersionFacts ==
    ASSUME OrderInv, NEW k, NEW b \in Nat, b <= Len(committed)
    PROVE  LET n == VersionAt(k, b)
           IN  /\ n \in 0..b
               /\ \A v \in 1..b : written[committed[v]].key = k => v <= n /\ n # 0
               /\ n # 0 => /\ n \in 1..Len(committed) /\ WriteAt(k, b) = committed[n]
                           /\ written[committed[n]].key = k
<1> DEFINE on == {v \in 1..b : written[committed[v]].key = k}
           n == VersionAt(k, b)
<1>1. n = IF on = {} THEN 0 ELSE LastOf(on)
    BY DEF VersionAt
<1>2. on \subseteq Nat /\ \A v \in on : v <= b /\ v \in 1..b /\ written[committed[v]].key = k
    OBVIOUS
<1>3. \A v \in 1..b : written[committed[v]].key = k => v \in on
    OBVIOUS
<1>4. Len(committed) \in Nat
    BY Facts DEF OrderInv
<1>5. n # 0 => WriteAt(k, b) = committed[n]
    BY DEF WriteAt
<1> HIDE DEF on, n
<1>6. CASE on = {}
    BY <1>1, <1>3, <1>6 DEF n
<1>7. CASE on # {}
    <2>1. n \in on /\ \A v \in on : v <= n
        BY <1>1, <1>2, <1>7, LastOfFacts
    <2>2. n \in 1..b /\ written[committed[n]].key = k
        BY <2>1, <1>2
    <2>3. n \in 1..Len(committed) /\ n # 0
        BY <2>2, <1>4
    <2> QED
        BY <2>1, <2>2, <2>3, <1>3, <1>5 DEF n
<1> QED
    BY <1>6, <1>7

\* The first answer on its way is the last that is said of the pipeline's head.
LEMMA FirstAnswer ==
    ASSUME OrderInv, AnswersAreLast, answers # <<>>
    PROVE  /\ pipeline # <<>>
           /\ Head(answers) \in 1..Len(committed) /\ Head(answers) = answers[1]
           /\ committed[Head(answers)] = Head(pipeline).write
           /\ NoLater(committed, Head(pipeline).write, Head(answers))
<1>1. /\ pipeline \in Seq(Batches) /\ answers \in Seq(Nat)
      /\ Len(answers) \in Nat /\ Len(pipeline) \in Nat
    BY Facts DEF OrderInv
<1>2. /\ Len(answers) <= Len(pipeline)
      /\ \A i \in 1..Len(answers) : /\ answers[i] \in 1..Len(committed)
                                    /\ committed[answers[i]] = pipeline[i].write
    BY DEF OrderInv, IInv, AnswersInv
<1>3. 1 \in 1..Len(answers) /\ pipeline # <<>>
    BY <1>1, <1>2, EmptySeq
<1>4. Head(answers) = answers[1] /\ Head(pipeline) = pipeline[1]
    OBVIOUS
<1> QED
    BY <1>2, <1>3, <1>4 DEF AnswersAreLast

LEMMA CacheKept ==
    ASSUME TimeInv, IInv', LogStep, NEW k \in Keys, cache'[k] = cache[k]
    PROVE  RightDocument(cache'[k], k, written', committed')
<1>1. RightDocument(cache[k], k, written, committed)
    BY DEF TimeInv, CacheInv
<1>2. OrderInv
    BY DEF TimeInv
<1>3. CASE cache[k].version = 0
    BY <1>1, <1>3 DEF RightDocument
<1>4. CASE cache[k].version # 0
    <2> DEFINE v == cache[k].version
    <2>1. /\ v \in 1..Len(committed) /\ committed[v] = cache[k].write
          /\ written[cache[k].write].key = k
        BY <1>1, <1>4 DEF RightDocument
    <2>2. /\ committed'[v] = committed[v] /\ committed[v] \in 1..Len(written)
          /\ written'[committed[v]] = written[committed[v]]
          /\ Len(committed) \in Nat /\ Len(committed') \in Nat /\ Len(committed) <= Len(committed')
        BY <1>2, <2>1, LogGrows
    <2>3. v \in 1..Len(committed')
        BY <2>1, <2>2
    <2> QED
        BY <2>1, <2>2, <2>3, <1>4 DEF RightDocument
<1> QED
    BY <1>3, <1>4

\* Documents of the cache are renewed by later versions only.
LEMMA CacheStep ==
    ASSUME TimeInv, ClientInv', [Next]_vars
    PROVE  CacheInv' /\ \A k \in Keys : cache[k].version <= cache'[k].version
<1> DEFINE Grown(k) == /\ RightDocument(cache'[k], k, written', committed')
                       /\ cache[k].version <= cache'[k].version
<1>0. LogStep /\ IInv' /\ OrderInv /\ ClientInv
    BY StepsOfTheLog DEF ClientInv, TimeInv
<1>1. /\ cache \in [Keys -> Documents] /\ cache' \in [Keys -> Documents]
      /\ \A k \in Keys : cache[k].version \in Nat
    BY DEF TimeInv, ClientInv, StreamsTyped, Documents
<1>2. ASSUME NEW k \in Keys, cache'[k] = cache[k] PROVE Grown(k)
    BY <1>0, <1>1, <1>2, CacheKept
<1>3. CASE cache' = cache
    BY <1>2, <1>3 DEF CacheInv
<1>4. CASE HandleSuccessfulWrite
    <2> DEFINE w == Head(pipeline).write
               key == written[w].key
               v == Head(answers)
    <2>1. /\ answers # <<>> /\ written' = written /\ committed' = committed
          /\ cache' = [cache EXCEPT ![key] = Acknowledged(@, v, w)]
        BY <1>4 DEF HandleSuccessfulWrite, OnWriteStreamMutationResult
    <2>2. v \in 1..Len(committed) /\ committed[v] = w
        BY <1>0, <2>1, FirstAnswer DEF TimeInv
    <2>3. v \in Nat /\ v # 0
        BY <2>2
    <2> HIDE DEF w, v
    <2>4. ASSUME NEW k \in Keys PROVE Grown(k)
        <3>1. CASE cache'[k] = cache[k]
            BY <3>1, <1>2
        <3>2. CASE cache'[k] # cache[k]
            <4>1. k = key /\ cache'[k] = Acknowledged(cache[k], v, w)
                BY <3>2, <2>1, <1>1
            <4>2. cache[k].version < v /\ cache'[k] = Document(v, w, "committed")
                BY <3>2, <4>1 DEF Acknowledged
            <4>3. cache'[k].version = v /\ cache'[k].write = w
                BY <4>2 DEF Document
            <4> QED
                BY <4>1, <4>2, <4>3, <2>1, <2>2, <2>3, <1>1 DEF RightDocument
        <3> QED
            BY <3>1, <3>2
    <2> QED
        BY <2>4 DEF CacheInv
<1>5. CASE OnWatchStreamChange
    <2> DEFINE event == Head(events)
               n(k) == VersionAt(k, event.to)
    <2>1. /\ events # <<>> /\ UNCHANGED pipelineVars
          /\ \/ cache' = cache
             \/ \A k \in Keys :
                   \/ cache'[k] = cache[k]
                   \/ /\ n(k) > event.from
                      /\ cache'[k] = Updated(cache[k], n(k), WriteAt(k, event.to))
        <3>1. /\ events # <<>> /\ UNCHANGED pipelineVars
              /\ \/ cache' = cache
                 \/ cache' = [k \in Keys |->
                                IF k \in {j \in Keys : n(j) > event.from}
                                  THEN Updated(cache[k], n(k), WriteAt(k, event.to))
                                  ELSE cache[k]]
            BY <1>5 DEF OnWatchStreamChange
        <3> QED
            BY <3>1
    <2>2. written' = written /\ committed' = committed
        BY <2>1 DEF pipelineVars
    <2>3. event.to \in Nat /\ event.from \in Nat /\ event.to <= Len(committed)
        <3>1. events \in Seq([kind : {"message", "snapshot"}, from : Nat, to : Nat])
            BY <1>0, TypedFacts
        <3>2. 1 \in 1..Len(events) /\ event = events[1]
            BY <2>1, <3>1, EmptySeq
        <3> QED
            BY <1>0, <3>2, EventFacts
    <2> HIDE DEF event
    <2>4. ASSUME NEW k \in Keys PROVE Grown(k)
        <3>1. CASE cache'[k] = cache[k]
            BY <3>1, <1>2
        <3>2. CASE cache'[k] # cache[k]
            <4>1. /\ n(k) > event.from
                  /\ cache'[k] = Updated(cache[k], n(k), WriteAt(k, event.to))
                BY <3>2, <2>1
            <4>2. n(k) \in Nat /\ n(k) # 0
                BY <1>0, <2>3, <4>1, VersionFacts
            <4>3. /\ n(k) \in 1..Len(committed) /\ WriteAt(k, event.to) = committed[n(k)]
                  /\ written[committed[n(k)]].key = k
                BY <1>0, <2>3, <4>2, VersionFacts
            <4> HIDE DEF n
            <4>4. /\ IsNews(cache[k], n(k))
                  /\ cache'[k] = Document(n(k), WriteAt(k, event.to), "synced")
                BY <3>2, <4>1 DEF Updated
            <4>5. cache'[k].version = n(k) /\ cache'[k].write = committed[n(k)]
                BY <4>3, <4>4 DEF Document
            <4>6. cache[k].version <= n(k)
                BY <4>2, <4>4, <1>1 DEF IsNews
            <4> QED
                BY <4>2, <4>3, <4>5, <4>6, <2>2 DEF RightDocument
        <3> QED
            BY <3>1, <3>2
    <2> QED
        BY <2>4 DEF CacheInv
<1>6. cache' = cache \/ HandleSuccessfulWrite \/ OnWatchStreamChange
    BY DEF Next, vars, docVars, Write, HandleRejectedWrite, PipelineOnly, Listen, StopListening,
           OnWatchStreamClose, WatchIdleTimeout, OnlineStateTimeout, WatchStep,
           WatchBackoffElapses, OnWatchStreamOpen, WatchAcknowledges, WatchSends,
           CredentialChange, Restart
<1> QED
    BY <1>3, <1>4, <1>5, <1>6

\* Nothing on its way is older than a settled write, if what is on its way was
\* so before or is of the whole log, and the write that was settled is cached or
\* was never committed.
LEMMA StillHeard ==
    ASSUME TimeInv, ClientInv', LogStep,
           \A k \in Keys : cache[k].version <= cache'[k].version,
           \A i \in 1..Len(events') : events'[i].kind = "snapshot" =>
              \/ events'[i].to = Len(committed')
              \/ \E j \in 1..Len(events) : events[j] = events'[i],
           \A w \in 1..Len(written') :
              written'[w].user # Other /\ ~IsPending(Queue', w) =>
                 /\ w \in 1..Len(written)
                 /\ IsPending(Queue, w) =>
                       NoLater(committed', w, cache'[written'[w].key].version)
    PROVE  SettledHeard'
<1>0. OrderInv /\ IInv' /\ ClientInv
    BY DEF TimeInv, ClientInv
<1> SUFFICES ASSUME NEW w \in 1..Len(written'),
                    written'[w].user # Other, ~IsPending(Queue', w),
                    NEW i \in 1..Len(events'), events'[i].kind = "snapshot"
             PROVE  \/ NoLater(committed', w, events'[i].to)
                    \/ NoLater(committed', w, cache'[written'[w].key].version)
    BY DEF SettledHeard, Heard
<1>1. w \in 1..Len(written) /\ written'[w] = written[w]
    BY <1>0, LogGrows
<1>2. CASE IsPending(Queue, w)
    BY <1>2
<1>3. CASE events'[i].to = Len(committed')
    <2>1. Len(committed') \in Nat
        BY <1>0, LogGrows
    <2> QED
        BY <2>1, <1>3 DEF NoLater
<1>4. ASSUME ~IsPending(Queue, w), NEW j \in 1..Len(events), events[j] = events'[i]
      PROVE  \/ NoLater(committed', w, events'[i].to)
             \/ NoLater(committed', w, cache'[written'[w].key].version)
    <2> DEFINE k == written[w].key
    <2>1. Heard(w)
        BY <1>1, <1>4 DEF TimeInv, SettledHeard
    <2>2. \/ NoLater(committed, w, events'[i].to)
          \/ NoLater(committed, w, cache[k].version)
        BY <2>1, <1>4 DEF Heard
    <2>3. \A b : NoLater(committed, w, b) => NoLater(committed', w, b)
        BY <1>0, <1>1, <1>4, NoLaterKept
    <2>4. k \in Keys
        <3> DEFINE Entries == [user : Users \cup {Other}, key : Keys, valid : BOOLEAN]
        <3>1. written \in Seq(Entries)
            BY <1>0, LogGrows
        <3> HIDE DEF Entries
        <3>2. written[w] \in Entries
            BY <1>1, <3>1, ElementOfSeq
        <3> QED
            BY <3>2 DEF Entries
    <2> HIDE DEF k
    <2>5. cache[k].version \in Nat /\ cache'[k].version \in Nat /\ cache[k].version <= cache'[k].version
        BY <1>0, <2>4 DEF ClientInv, StreamsTyped, Documents
    <2>6. NoLater(committed', w, cache[k].version) => NoLater(committed', w, cache'[k].version)
        <3>1. Len(committed') \in Nat
            BY <1>0, LogGrows
        <3> QED
            BY <3>1, <2>5 DEF NoLater
    <2> QED
        BY <2>2, <2>3, <2>6, <1>1 DEF k
<1> QED
    BY <1>2, <1>3, <1>4

\* The same for a step that settles nothing.
LEMMA StillHeardInPlace ==
    ASSUME TimeInv, ClientInv', LogStep,
           \A k \in Keys : cache[k].version <= cache'[k].version,
           \A i \in 1..Len(events') : events'[i].kind = "snapshot" =>
              \/ events'[i].to = Len(committed')
              \/ \E j \in 1..Len(events) : events[j] = events'[i],
           Queue' = Queue,
           \A w \in 1..Len(written') : w \in 1..Len(written) \/ written'[w].user = Other
    PROVE  SettledHeard'
    BY StillHeard

\* A write that leaves the queue is its first.
LEMMA LeavesTheQueue ==
    ASSUME ClientInv, pipeline # <<>>, NEW told, NEW s, NEW handed, Settle(told, s, handed),
           NEW w, IsPending(Queue, w), ~IsPending(Queue', w)
    PROVE  w = Head(pipeline).write
<1>1. Queue \in Seq(Batches) /\ Len(Queue) \in Nat /\ Rising(Queue)
    BY PipelineFacts DEF ClientInv
<1>2. Queue # <<>> /\ Queue' = Tail(Queue) /\ Head(pipeline) = Queue[1]
    BY SettledQueue DEF ClientInv
<1>3. /\ Len(Queue') = Len(Queue) - 1
      /\ \A i \in 1..Len(Queue) - 1 : Queue'[i] = Queue[i + 1]
    BY <1>1, <1>2, TailFacts
<1>4. PICK i \in 1..Len(Queue) : Queue[i].write = w
    BY DEF IsPending
<1>5. CASE i = 1
    BY <1>2, <1>4, <1>5
<1>6. CASE i # 1
    <2>1. i - 1 \in 1..Len(Queue') /\ Queue'[i - 1] = Queue[i]
        BY <1>1, <1>3, <1>6
    <2> QED
        BY <2>1, <1>4 DEF IsPending
<1> QED
    BY <1>5, <1>6

LEMMA HeardStep ==
    ASSUME TimeInv, ClientInv', [Next]_vars
    PROVE  SettledHeard'
<1>0. /\ LogStep /\ ClientInv /\ IInv /\ OrderInv
      /\ \A k \in Keys : cache[k].version <= cache'[k].version
    BY StepsOfTheLog, CacheStep DEF ClientInv, TimeInv
<1>1. CASE events' = <<>>
    BY <1>1 DEF SettledHeard, Heard
<1>2. ASSUME events' = events
      PROVE  \A i \in 1..Len(events') : events'[i].kind = "snapshot" =>
                \/ events'[i].to = Len(committed')
                \/ \E j \in 1..Len(events) : events[j] = events'[i]
    BY <1>2
<1>3. ASSUME NEW key \in Keys, NEW valid \in BOOLEAN, Write(key, valid)
      PROVE  SettledHeard'
    <2> DEFINE batch == [id |-> nextBatchId, write |-> Len(written) + 1]
               entry == [user |-> currentUser, key |-> key, valid |-> valid]
    <2>1. /\ written' = Append(written, entry) /\ events' = events
          /\ currentUser' = currentUser
          /\ queues' = [queues EXCEPT ![currentUser] = Append(Queue, batch)]
        BY <1>3 DEF Write, WriteMutations, watchVars
    <2>2. /\ Queue \in Seq(Batches) /\ Len(Queue) \in Nat /\ Len(written) \in Nat
          /\ currentUser \in Users /\ queues \in [Users -> Seq(Batches)]
        BY <1>0, PipelineFacts
    <2>3. Queue' = Append(Queue, batch)
        BY <2>1, <2>2 DEF Queue
    <2>4. batch.write = Len(written) + 1
        OBVIOUS
    <2> HIDE DEF batch, entry
    <2>5. /\ Len(Queue') = Len(Queue) + 1 /\ Queue'[Len(Queue) + 1] = batch
          /\ \A i \in 1..Len(Queue) : Queue'[i] = Queue[i]
        BY <2>2, <2>3
    <2>6. Len(written') = Len(written) + 1
        <3>1. written \in Seq([user : Users \cup {Other}, key : Keys, valid : BOOLEAN])
            BY <1>0, LogGrows DEF ClientInv
        <3> QED
            BY <3>1, <2>1
    <2>7. ASSUME NEW w \in 1..Len(written'), ~IsPending(Queue', w)
          PROVE  w \in 1..Len(written) /\ ~IsPending(Queue, w)
        <3>1. w # Len(written) + 1
            BY <2>2, <2>4, <2>5, <2>7 DEF IsPending
        <3>2. ~IsPending(Queue, w)
            BY <2>2, <2>5, <2>7 DEF IsPending
        <3> QED
            BY <3>1, <3>2, <2>2, <2>6
    <2> QED
        BY <2>1, <2>7, <1>0, <1>2, StillHeard
<1>4. CASE HandleSuccessfulWrite
    <2> DEFINE write == Head(pipeline).write
               key == written[write].key
    <2>1. /\ answers # <<>> /\ Settle("ok", stream, requests)
          /\ written' = written /\ committed' = committed /\ events' = events
          /\ cache' = [cache EXCEPT ![key] = Acknowledged(@, Head(answers), write)]
        BY <1>4 DEF HandleSuccessfulWrite, OnWriteStreamMutationResult, watchVars
    <2>2. /\ pipeline # <<>> /\ Head(answers) \in 1..Len(committed)
          /\ committed[Head(answers)] = write
          /\ NoLater(committed, write, Head(answers))
        BY <1>0, <2>1, FirstAnswer DEF TimeInv
    <2>3. /\ key \in Keys /\ cache \in [Keys -> Documents]
          /\ Len(committed) \in Nat
        <3> DEFINE Entries == [user : Users \cup {Other}, key : Keys, valid : BOOLEAN]
        <3>1. written \in Seq(Entries)
            BY <1>0, LogGrows DEF ClientInv
        <3>2. write \in 1..Len(written)
            BY <1>0, <2>2 DEF OrderInv, LogInv
        <3> HIDE DEF Entries, write
        <3>3. written[write] \in Entries
            BY <3>1, <3>2, ElementOfSeq
        <3> QED
            BY <3>3, <1>0, TypedFacts, PipelineFacts DEF Entries
    <2> HIDE DEF write, key
    <2>4. cache'[key] = Acknowledged(cache[key], Head(answers), write)
        BY <2>1, <2>3
    <2>5. Head(answers) <= cache'[key].version /\ cache'[key].version \in Nat
        <3>1. cache[key].version \in Nat /\ Head(answers) \in Nat
            BY <2>2, <2>3 DEF Documents
        <3>2. CASE cache[key].version < Head(answers)
            BY <3>1, <3>2, <2>4 DEF Acknowledged, Document
        <3>3. CASE ~(cache[key].version < Head(answers))
            BY <3>1, <3>3, <2>4 DEF Acknowledged
        <3> QED
            BY <3>2, <3>3
    <2>6. NoLater(committed, write, cache'[key].version)
        BY <2>2, <2>3, <2>5 DEF NoLater
    <2>7. ASSUME NEW w \in 1..Len(written'), ~IsPending(Queue', w), IsPending(Queue, w)
          PROVE  NoLater(committed', w, cache'[written'[w].key].version)
        <3>1. w = write
            BY <2>1, <2>2, <2>7, <1>0, LeavesTheQueue DEF write
        <3> QED
            BY <3>1, <2>1, <2>6 DEF key
    <2> QED
        BY <2>1, <2>7, <1>0, <1>2, StillHeard
<1>5. CASE HandleRejectedWrite
    <2> DEFINE write == Head(pipeline).write
               none == <<>>
    <2>1. /\ requests # <<>> /\ answers = <<>> /\ Settle("failed", "initial", none)
          /\ ~written[Head(requests).write].valid
          /\ written' = written /\ committed' = committed /\ events' = events
        BY <1>5 DEF HandleRejectedWrite, HandleWriteError, watchVars
    <2> HIDE DEF none
    <2>2. pipeline # <<>> /\ Head(requests).write = write
        <3>1. requests = SubSeq(pipeline, 1, Len(pipeline)) /\ pipeline \in Seq(Batches)
            BY <2>1, <1>0 DEF IInv, AnswersInv, PipelineTypeOK
        <3>2. requests = pipeline
            BY <3>1
        <3> QED
            BY <3>2, <2>1
    <2>3. \A v \in 1..Len(committed) : committed[v] # write
        BY <1>0, <2>1, <2>2 DEF OrderInv, LogInv
    <2>4. \A b : NoLater(committed, write, b)
        BY <2>3 DEF NoLater
    <2>5. ASSUME NEW w, ~IsPending(Queue', w), IsPending(Queue, w) PROVE w = write
        BY <2>1, <2>2, <2>5, <1>0, LeavesTheQueue
    <2> HIDE DEF write
    <2> QED
        BY <2>1, <2>4, <2>5, <1>0, <1>2, StillHeard
<1>6. CASE PipelineOnly
    <2>1. Queue' = Queue /\ events' = events
        BY <1>6 DEF PipelineOnly, BackoffElapses, OnStreamStart, OnWriteStreamHandshakeComplete,
           Commit, OnWriteStreamClose, IdleTimeout, CommitOther, Queue, clientVars, watchVars
    <2>2. \A w \in 1..Len(written') : w \in 1..Len(written) \/ written'[w].user = Other
        <3>1. CASE written' = written
            BY <3>1
        <3>2. ASSUME NEW key \in Keys, CommitOther(key)
              PROVE  \A w \in 1..Len(written') : w \in 1..Len(written) \/ written'[w].user = Other
            <4> DEFINE entry == [user |-> Other, key |-> key, valid |-> TRUE]
            <4>1. written' = Append(written, entry) /\ entry.user = Other
                BY <3>2 DEF CommitOther
            <4>2. written \in Seq([user : Users \cup {Other}, key : Keys, valid : BOOLEAN])
                BY <1>0, LogGrows DEF ClientInv
            <4> HIDE DEF entry
            <4>3. Len(written') = Len(written) + 1 /\ written'[Len(written) + 1] = entry
                BY <4>1, <4>2
            <4>4. Len(written) \in Nat
                BY <4>2
            <4> QED
                BY <4>1, <4>3, <4>4
        <3> QED
            BY <3>1, <3>2, <1>6 DEF PipelineOnly, BackoffElapses, OnStreamStart,
               OnWriteStreamHandshakeComplete, Commit, OnWriteStreamClose, IdleTimeout
    <2> QED
        BY <2>1, <2>2, <1>0, <1>2, StillHeardInPlace
<1>7. ASSUME UNCHANGED pipelineVars,
             \A i \in 1..Len(events') : events'[i].kind = "snapshot" =>
                \/ events'[i].to = Len(committed')
                \/ \E j \in 1..Len(events) : events[j] = events'[i]
      PROVE  SettledHeard'
    <2>1. Queue' = Queue /\ written' = written
        BY <1>7 DEF pipelineVars, clientVars, Queue
    <2> QED
        BY <2>1, <1>0, <1>7, StillHeardInPlace
<1>8. CASE StopListening
    <2>1. UNCHANGED pipelineVars /\ events' = [i \in DOMAIN events |-> Nothing]
        BY <1>8 DEF StopListening
    <2>2. events \in Seq([kind : {"message", "snapshot"}, from : Nat, to : Nat])
        BY <1>0, TypedFacts
    <2>3. \A i \in 1..Len(events') : events'[i] = Nothing
        BY <2>1, <2>2
    <2>4. Nothing.kind # "snapshot"
        BY DEF Nothing
    <2> QED
        BY <2>1, <2>3, <2>4, <1>7
<1>9. CASE UNCHANGED pipelineVars /\ events' = events
    BY <1>9, <1>2, <1>7
<1>10. CASE WatchAcknowledges \/ WatchSends
    <2>1. events \in Seq([kind : {"message", "snapshot"}, from : Nat, to : Nat])
        BY <1>0, TypedFacts
    <2>2. /\ UNCHANGED pipelineVars
          /\ \E e : /\ events' = Append(events, e)
                    /\ e.kind = "snapshot" => e.to = Len(committed)
        BY <1>10 DEF WatchAcknowledges, WatchSends, Nothing
    <2>3. PICK e : events' = Append(events, e) /\ (e.kind = "snapshot" => e.to = Len(committed))
        BY <2>2
    <2>4. /\ Len(events') = Len(events) + 1 /\ events'[Len(events) + 1] = e
          /\ \A i \in 1..Len(events) : events'[i] = events[i]
          /\ Len(events) \in Nat
        BY <2>1, <2>3
    <2>5. \A i \in 1..Len(events') : i \in 1..Len(events) \/ i = Len(events) + 1
        BY <2>4
    <2>6. committed' = committed
        BY <2>2 DEF pipelineVars
    <2> QED
        BY <2>2, <2>3, <2>4, <2>5, <2>6, <1>7
<1>11. CASE OnWatchStreamChange
    <2>1. events # <<>> /\ events' = Tail(events) /\ UNCHANGED pipelineVars
        BY <1>11 DEF OnWatchStreamChange
    <2>2. events \in Seq([kind : {"message", "snapshot"}, from : Nat, to : Nat])
        BY <1>0, TypedFacts
    <2>3. /\ Len(events') = Len(events) - 1 /\ Len(events) \in Nat
          /\ \A i \in 1..Len(events') : events'[i] = events[i + 1]
        BY <2>1, <2>2, HeadTailProperties
    <2>4. \A i \in 1..Len(events') : i + 1 \in 1..Len(events)
        BY <2>3
    <2> QED
        BY <2>1, <2>3, <2>4, <1>7
<1>12. \/ events' = <<>>
       \/ UNCHANGED pipelineVars /\ events' = events
       \/ PipelineOnly \/ StopListening \/ WatchAcknowledges \/ WatchSends
       \/ OnWatchStreamChange \/ HandleSuccessfulWrite \/ HandleRejectedWrite
       \/ \E key \in Keys, valid \in BOOLEAN : Write(key, valid)
    <2>1. Listen \/ OnlineStateTimeout \/ WatchBackoffElapses \/ OnWatchStreamOpen
             => UNCHANGED pipelineVars /\ events' = events
        BY DEF Listen, OnlineStateTimeout, WatchBackoffElapses, OnWatchStreamOpen, watchVars
    <2>2. OnWatchStreamClose \/ WatchIdleTimeout \/ Restart => events' = <<>>
        BY DEF OnWatchStreamClose, WatchIdleTimeout, Restart
    <2>3. \A u \in Users : CredentialChange(u) => events' = <<>>
        BY DEF CredentialChange
    <2>4. UNCHANGED vars => UNCHANGED pipelineVars /\ events' = events
        BY DEF vars, watchVars
    <2> QED
        BY <2>1, <2>2, <2>3, <2>4 DEF Next, WatchStep
<1> QED
    BY <1>1, <1>3, <1>4, <1>5, <1>6, <1>8, <1>9, <1>10, <1>11, <1>12

-----------------------------------------------------------------------------
(* Where the documents of a view come from.                                   *)

LEMMA LastForExists ==
    ASSUME NEW q \in Seq(Batches), NEW log, NEW k, NEW i \in 1..Len(q),
           log[q[i].write].key = k
    PROVE  \E m \in 1..Len(q) : LastFor(q, log, k, m)
<1> DEFINE on == {j \in 1..Len(q) : log[q[j].write].key = k}
<1>1. on \subseteq Nat /\ on # {} /\ Len(q) \in Nat /\ \A j \in on : j <= Len(q)
    OBVIOUS
<1>2. /\ \A j \in on : j \in 1..Len(q) /\ log[q[j].write].key = k
      /\ \A j \in 1..Len(q) : log[q[j].write].key = k => j \in on
    OBVIOUS
<1> HIDE DEF on
<1>3. PICK m \in on : \A j \in on : j <= m
    BY <1>1, HasGreatest
<1> QED
    BY <1>2, <1>3 DEF LastFor

\* A local document is the last pending write on its key, or what is cached.
LEMMA LocalSource ==
    ASSUME IInv', cache' \in [Keys -> Documents], NEW k \in Keys
    PROVE  \/ \E i \in 1..Len(Queue') :
                 /\ LastFor(Queue', written', k, i)
                 /\ LocalDocuments(cache')[k].write = Queue'[i].write
           \/ /\ \A i \in 1..Len(Queue') : written'[Queue'[i].write].key # k
              /\ LocalDocuments(cache')[k] = cache'[k]
<1>1. Queue' \in Seq(Batches)
    BY NextQueue
<1>2. CASE \E i \in 1..Len(Queue') : written'[Queue'[i].write].key = k
    <2>1. PICK i \in 1..Len(Queue') : LastFor(Queue', written', k, i)
        BY <1>1, <1>2, LastForExists
    <2> QED
        BY <2>1, <1>1, LocalFacts
<1>3. CASE \A i \in 1..Len(Queue') : written'[Queue'[i].write].key # k
    <2> DEFINE q == Queue'
               on == {i \in DOMAIN q : written'[q[i].write].key = k}
    <2>1. DOMAIN q = 1..Len(q)
        BY <1>1
    <2>2. on = {}
        BY <2>1, <1>3
    <2>3. PendingOn(k, q) = <<>>
        BY <2>2 DEF PendingOn
    <2>4. LocalDocuments(cache')[k] = LocalDocument(cache'[k], PendingOn(k, q))
        BY DEF LocalDocuments, Queue
    <2> QED
        BY <2>3, <2>4, <1>3 DEF LocalDocument
<1> QED
    BY <1>2, <1>3

LEMMA LocalRight ==
    ASSUME OrderInv', CacheInv', OthersOnce', cache' \in [Keys -> Documents], NEW k \in Keys,
           LocalDocuments(cache')[k].write # 0
    PROVE  LET w == LocalDocuments(cache')[k].write
           IN  /\ w \in 1..Len(written') /\ written'[w].key = k
               /\ written'[w].user = Other => NoLater(committed', w, cache'[k].version)
<1> DEFINE w == LocalDocuments(cache')[k].write
<1>1. IInv' /\ LogInv'
    BY DEF OrderInv
<1>2. ASSUME NEW i \in 1..Len(Queue'), LastFor(Queue', written', k, i), w = Queue'[i].write
      PROVE  w \in 1..Len(written') /\ written'[w].key = k /\ written'[w].user # Other
    <2>1. currentUser' \in Users /\ currentUser' # Other
        BY <1>1, PipelineAssumption DEF IInv, PipelineTypeOK
    <2>2. Queue'[i].write <= Len(written') /\ written'[Queue'[i].write].user = currentUser'
        BY <1>1, <2>1 DEF IInv, QueuesInv, Queue
    <2>3. Queue' \in Seq(Batches) /\ Len(written') \in Nat
        BY <1>1, NextQueue DEF IInv, PipelineTypeOK
    <2>4. Queue'[i].write \in Nat /\ Queue'[i].write # 0
        BY <2>3, BatchWrite DEF Writes
    <2> HIDE DEF w
    <2> QED
        BY <2>1, <2>2, <2>3, <2>4, <1>2 DEF LastFor
<1>3. ASSUME LocalDocuments(cache')[k] = cache'[k]
      PROVE  /\ w \in 1..Len(written') /\ written'[w].key = k
             /\ written'[w].user = Other => NoLater(committed', w, cache'[k].version)
    <2> DEFINE v == cache'[k].version
    <2>1. RightDocument(cache'[k], k, written', committed')
        BY DEF CacheInv
    <2>2. w = cache'[k].write
        BY <1>3
    <2> HIDE DEF w
    <2>3. v \in 1..Len(committed') /\ committed'[v] = w /\ written'[w].key = k
        BY <2>1, <2>2 DEF RightDocument, w
    <2>4. w \in 1..Len(written')
        BY <1>1, <2>3 DEF LogInv
    <2> QED
        BY <2>3, <2>4 DEF OthersOnce
<1> QED
    BY <1>1, <1>2, <1>3, LocalSource

\* A view's documents are right after a step if each is the view's, local, or none.
LEMMA DocsStayRight ==
    ASSUME TimeInv, ClientInv', OrderInv', CacheInv', OthersOnce', LogStep,
           \A k \in Keys : cache[k].version <= cache'[k].version,
           \A k \in Keys :
              view'.docs[k] \in {view.docs[k], LocalDocuments(cache')[k], NoDocument}
    PROVE  DocsRight(view', written', committed', cache')
<1>0. OrderInv /\ IInv' /\ IInv
    BY DEF TimeInv, ClientInv
<1>1. cache' \in [Keys -> Documents] /\ cache \in [Keys -> Documents]
    BY DEF TimeInv, ClientInv, StreamsTyped
<1> SUFFICES ASSUME NEW k \in Keys, view'.docs[k].write # 0
             PROVE  LET w == view'.docs[k].write
                    IN  /\ w \in 1..Len(written') /\ written'[w].key = k
                        /\ written'[w].user = Other => NoLater(committed', w, cache'[k].version)
    BY DEF DocsRight
<1>2. CASE view'.docs[k] = NoDocument
    BY <1>2, DocumentFacts
<1>3. CASE view'.docs[k] = LocalDocuments(cache')[k]
    BY <1>1, <1>3, LocalRight
<1>4. CASE view'.docs[k] = view.docs[k]
    <2> DEFINE w == view.docs[k].write
    <2>1. /\ w \in 1..Len(written) /\ written[w].key = k
          /\ written[w].user = Other => NoLater(committed, w, cache[k].version)
        BY <1>4 DEF TimeInv, DocsRight
    <2> HIDE DEF w
    <2>2. w \in 1..Len(written') /\ written'[w] = written[w]
        BY <1>0, <2>1, LogGrows
    <2>3. ASSUME written[w].user = Other PROVE NoLater(committed', w, cache'[k].version)
        <3>1. ~IsPending(Queue, w)
            BY <1>0, <2>3, PendingIsOwn DEF IsPending
        <3>2. NoLater(committed', w, cache[k].version)
            BY <1>0, <2>1, <2>3, <3>1, NoLaterKept
        <3>3. /\ cache[k].version \in Nat /\ cache'[k].version \in Nat
              /\ Len(committed') \in Nat
            BY <1>0, <1>1, LogGrows DEF Documents
        <3> QED
            BY <3>2, <3>3 DEF NoLater
    <2> QED
        BY <2>1, <2>2, <2>3, <1>4 DEF w
<1> QED
    BY <1>2, <1>3, <1>4

LEMMA EmitDocs ==
    ASSUME IInv', cache' \in [Keys -> Documents],
           NEW v \in Views, ToldAll(v), NEW keys, NEW current \in BOOLEAN, NEW state,
           NEW k \in Keys
    PROVE  LET w == EmitNewSnapshots(v, keys, LocalDocuments(cache'), current, state)
           IN  /\ w \in Views /\ ToldAll(w) /\ (w.listening <=> v.listening)
               /\ ~v.listening => w = v
               /\ w.docs[k] \in {v.docs[k], LocalDocuments(cache')[k]}
               /\ k \notin keys => w.docs[k] = v.docs[k]
<1> DEFINE new == LocalDocuments(cache')
           w == EmitNewSnapshots(v, keys, new, current, state)
<1>1. Queue' \in Seq(Batches)
    BY NextQueue
<1>2. new \in [Keys -> Documents]
    BY <1>1, LocalFacts
<1>3. w = EmitNewSnapshots(v, keys, new, current, state)
    OBVIOUS
<1> HIDE DEF new, w
<1>4. CASE ~v.listening
    <2>1. w = v
        BY <1>3, <1>4 DEF EmitNewSnapshots
    <2> QED
        BY <2>1, <1>4 DEF w, new
<1>5. CASE v.listening
    <2>1. /\ w \in Views /\ ToldAll(w) /\ (w.listening <=> v.listening)
          /\ w.docs[k] \in {v.docs[k], new[k]}
          /\ k \notin keys => w.docs[k] = v.docs[k]
        BY <1>2, <1>3, <1>5, EmitFacts
    <2> QED
        BY <2>1, <1>5 DEF w, new
<1> QED
    BY <1>4, <1>5

LEMMA BroadcastDocs ==
    ASSUME NEW v \in Views, ToldAll(v), ~v.listening => v = NoView, NEW new,
           SetAndBroadcast(new, v)
    PROVE  view'.docs = v.docs /\ (view'.listening <=> v.listening)
<1>1. view' = v \/ view' = HandleOnlineStateChange(v, online, new)
    BY DEF SetAndBroadcast
<1> QED
    BY <1>1, OnlineFacts

\* The steps that bring documents to the view of a listener.
Emits == \/ \E key \in Keys, valid \in BOOLEAN : Write(key, valid)
         \/ HandleSuccessfulWrite \/ HandleRejectedWrite \/ OnWatchStreamChange

\* No other step shows a listener anything new, but a change of the customer.
QuietFor(k) ==
    \/ view'.docs[k] = view.docs[k]
    \/ ~view.raised \/ ~view'.raised \/ currentUser' # currentUser

LEMMA DocsOfEmits ==
    ASSUME TimeInv, ClientInv', Emits, NEW k \in Keys
    PROVE  view'.docs[k] \in {view.docs[k], LocalDocuments(cache')[k], NoDocument}
<1>1. /\ IInv' /\ cache' \in [Keys -> Documents]
      /\ view \in Views /\ ToldAll(view) /\ (~view.listening => view = NoView)
      /\ view.current \in BOOLEAN
    BY TypedFacts DEF TimeInv, ClientInv, StreamsTyped
<1>2. ASSUME NEW keys, Emit(keys)
      PROVE  view'.docs[k] \in {view.docs[k], LocalDocuments(cache')[k]}
    BY <1>1, <1>2, EmitDocs DEF Emit
<1>3. CASE OnWatchStreamChange
    <2> DEFINE now == HandleOnlineStateChange(view, online, "Online")
               on == TRUE
    <2>1. \/ \E news : view' = EmitNewSnapshots(now, news, LocalDocuments(cache'), on, "Online")
          \/ view' = now
        BY <1>3 DEF OnWatchStreamChange
    <2>2. now \in Views /\ ToldAll(now) /\ now.docs = view.docs
        BY <1>1, OnlineFacts
    <2>3. on \in BOOLEAN
        OBVIOUS
    <2> HIDE DEF now, on
    <2> QED
        BY <1>1, <2>1, <2>2, <2>3, EmitDocs
<1>4. CASE \E key \in Keys, valid \in BOOLEAN : Write(key, valid)
    BY <1>2, <1>4 DEF Write
<1>5. CASE HandleSuccessfulWrite \/ HandleRejectedWrite
    BY <1>2, <1>5 DEF HandleSuccessfulWrite, HandleRejectedWrite
<1> QED
    BY <1>3, <1>4, <1>5 DEF Emits

LEMMA DocsOfOthers ==
    ASSUME TimeInv, ClientInv', [Next]_vars, ~Emits, NEW k \in Keys
    PROVE  /\ view'.docs[k] \in {view.docs[k], LocalDocuments(cache')[k], NoDocument}
           /\ QuietFor(k)
<1> DEFINE Source == view'.docs[k] \in {view.docs[k], LocalDocuments(cache')[k], NoDocument}
<1>1. /\ IInv' /\ cache' \in [Keys -> Documents]
      /\ view \in Views /\ ToldAll(view) /\ (~view.listening => view = NoView)
      /\ view.current \in BOOLEAN
      /\ ~view'.listening => view' = NoView
    BY TypedFacts DEF TimeInv, ClientInv, StreamsTyped, ViewOK
<1>2. ~NoView.raised /\ NoView.docs[k] = NoDocument /\ NewView.docs[k] = NoDocument
    BY DEF NoView, NewView
<1>3. CASE view' = view
    BY <1>3 DEF QuietFor
<1>4. ASSUME NEW new, SetAndBroadcast(new, view) PROVE Source /\ QuietFor(k)
    <2>1. view'.docs = view.docs
        BY <1>1, <1>4, BroadcastDocs
    <2> QED
        BY <2>1 DEF QuietFor
<1>5. CASE Listen
    <2> DEFINE shown == FALSE
               made == EmitNewSnapshots(NewView, Keys, LocalDocuments(cache), shown, online)
    <2>1. cache' = cache /\ ~view.listening
        BY <1>5 DEF Listen
    <2>2. view' = made \/ SetAndBroadcast("Unknown", made)
        BY <1>5 DEF Listen, HandleWatchStreamStart
    <2>3. made = EmitNewSnapshots(NewView, Keys, LocalDocuments(cache'), shown, online)
        BY <2>1
    <2>4. shown \in BOOLEAN /\ NewView \in Views /\ ToldAll(NewView) /\ NewView.listening
        BY NoViewFacts
    <2> HIDE DEF shown, made
    <2>5. /\ made \in Views /\ ToldAll(made) /\ made.listening
          /\ made.docs[k] \in {NewView.docs[k], LocalDocuments(cache')[k]}
        BY <1>1, <2>3, <2>4, EmitDocs
    <2>6. view'.docs[k] = made.docs[k]
        BY <2>2, <2>5, BroadcastDocs
    <2>7. ~view.raised
        BY <1>1, <1>2, <2>1
    <2> QED
        BY <1>2, <2>5, <2>6, <2>7 DEF QuietFor
<1>6. CASE StopListening
    <2>1. view' = NoView \/ SetAndBroadcast("Unknown", NoView)
        BY <1>6 DEF StopListening, UpdateState
    <2>2. NoView \in Views /\ ToldAll(NoView) /\ ~NoView.listening
        BY NoViewFacts
    <2>3. view'.docs = NoView.docs /\ ~view'.listening
        BY <2>1, <2>2, BroadcastDocs
    <2> QED
        BY <1>1, <1>2, <2>3 DEF QuietFor
<1>7. CASE OnWatchStreamClose \/ WatchIdleTimeout \/ OnlineStateTimeout
    <2>1. \E new : SetAndBroadcast(new, view)
        BY <1>7 DEF OnWatchStreamClose, WatchIdleTimeout, OnlineStateTimeout,
                    HandleWatchStreamFailure, UpdateState
    <2> QED
        BY <2>1, <1>4
<1>8. ASSUME NEW u \in Users, CredentialChange(u) PROVE Source /\ QuietFor(k)
    <2> DEFINE keys == IF u = currentUser THEN {} ELSE KeysIn(Queue) \cup KeysIn(queues[u])
               seen == EmitNewSnapshots(view, keys, LocalDocuments(cache), view.current, online)
    <2>1. /\ SetAndBroadcast("Unknown", seen) /\ cache' = cache /\ currentUser' = u
        BY <1>8 DEF CredentialChange, HandleCredentialChange
    <2>2. seen = EmitNewSnapshots(view, keys, LocalDocuments(cache'), view.current, online)
        BY <2>1
    <2>3. u = currentUser => k \notin keys
        OBVIOUS
    <2> HIDE DEF seen, keys
    <2>4. /\ seen \in Views /\ ToldAll(seen) /\ (seen.listening <=> view.listening)
          /\ ~view.listening => seen = view
          /\ seen.docs[k] \in {view.docs[k], LocalDocuments(cache')[k]}
          /\ k \notin keys => seen.docs[k] = view.docs[k]
        BY <1>1, <2>2, EmitDocs
    <2>5. view'.docs = seen.docs
        BY <1>1, <2>1, <2>4, BroadcastDocs
    <2> QED
        BY <2>1, <2>3, <2>4, <2>5 DEF QuietFor
<1>9. CASE Restart
    <2>1. view' = NoView
        BY <1>9 DEF Restart
    <2> QED
        BY <1>2, <2>1 DEF QuietFor
<1>10. PipelineOnly \/ UNCHANGED vars => view' = view
    BY DEF PipelineOnly, vars, docVars
<1>11. WatchStep => view' = view \/ Emits
    BY DEF WatchStep, WatchBackoffElapses, OnWatchStreamOpen, WatchAcknowledges, WatchSends,
           docVars, Emits
<1> QED
    BY <1>3, <1>5, <1>6, <1>7, <1>8, <1>9, <1>10, <1>11 DEF Next, Emits

LEMMA TimeKept == TimeInv /\ [Next]_vars => TimeInv'
<1> SUFFICES ASSUME TimeInv, [Next]_vars PROVE TimeInv'
    OBVIOUS
<1>1. ClientInv'
    BY ClientInvariant DEF TimeInv
<1>2. LogStep /\ IInv'
    BY <1>1, StepsOfTheLog DEF ClientInv
<1>3. OrderInv' /\ AnswersAreLast' /\ OthersOnce'
    BY <1>2, OrderKeptByClient, AnswersAreLastKept, OthersOnceKept DEF TimeInv
<1>4. CacheInv' /\ \A k \in Keys : cache[k].version <= cache'[k].version
    BY <1>1, CacheStep
<1>5. SettledHeard'
    BY <1>1, HeardStep
<1>6. \A k \in Keys : view'.docs[k] \in {view.docs[k], LocalDocuments(cache')[k], NoDocument}
    BY <1>1, DocsOfEmits, DocsOfOthers
<1>7. DocsRight(view', written', committed', cache')
    BY <1>1, <1>2, <1>3, <1>4, <1>6, DocsStayRight
<1> QED
    BY <1>1, <1>3, <1>4, <1>5, <1>7 DEF TimeInv, DocsRight, NoLater

LEMMA TimeInductive == Spec => []TimeInv
    BY TimeInitially, TimeKept, PTL DEF Spec

-----------------------------------------------------------------------------
(* What replaces what.                                                        *)

\* A document of write x may give way to one of write y: x was never committed,
\* y is not yet, or it is later than all of x.
GivesWay(x, y, log) ==
    \/ \A v \in 1..Len(log) : log[v] # x
    \/ y # 0 /\ \A v \in 1..Len(log) : log[v] # y
    \/ \E m \in 1..Len(log) : log[m] = y /\ \A v \in 1..Len(log) : log[v] = x => v < m

\* A key's last pending write is shown before and after a step that leaves it.
LEMMA PendingIsShown ==
    ASSUME ClientInv, view.raised, NEW k \in Keys, NEW i \in 1..Len(Queue),
           LastFor(Queue, written, k, i)
    PROVE  view.docs[k].write = Queue[i].write
<1>1. view.listening
    BY NoViewFacts DEF ClientInv, ViewOK
<1> QED
    BY <1>1 DEF ClientInv, ViewOK, HasPending

LEMMA NextPendingIsShown ==
    ASSUME ClientInv', view'.raised, NEW k \in Keys, NEW i \in 1..Len(Queue'),
           LastFor(Queue', written', k, i)
    PROVE  view'.docs[k].write = Queue'[i].write
<1>1. view'.listening
    BY NoViewFacts DEF ClientInv, ViewOK
<1> QED
    BY <1>1 DEF ClientInv, ViewOK, HasPending

LEMMA MadeGivesWay ==
    ASSUME TimeInv, ClientInv', NEW key \in Keys, NEW valid \in BOOLEAN, Write(key, valid),
           view.raised, view'.raised, NEW k \in Keys,
           view'.docs[k].write # view.docs[k].write
    PROVE  GivesWay(view.docs[k].write, view'.docs[k].write, committed')
<1> DEFINE batch == [id |-> nextBatchId, write |-> Len(written) + 1]
           entry == [user |-> currentUser, key |-> key, valid |-> valid]
           n == Len(Queue)
<1>0. ClientInv /\ IInv /\ IInv' /\ OrderInv
    BY DEF TimeInv, ClientInv
<1>1. /\ written' = Append(written, entry) /\ committed' = committed
      /\ currentUser' = currentUser
      /\ queues' = [queues EXCEPT ![currentUser] = Append(Queue, batch)]
      /\ view' = EmitNewSnapshots(view, {key}, LocalDocuments(cache'), view.current, online)
    BY DEF Write, WriteMutations, Emit
<1>2. /\ Queue \in Seq(Batches) /\ n \in Nat /\ Len(written) \in Nat
      /\ currentUser \in Users /\ queues \in [Users -> Seq(Batches)]
      /\ written \in Seq([user : Users \cup {Other}, key : Keys, valid : BOOLEAN])
    BY <1>0, PipelineFacts DEF IInv, PipelineTypeOK
<1>3. Queue' = Append(Queue, batch) /\ batch.write = Len(written) + 1 /\ entry.key = key
    BY <1>1, <1>2 DEF Queue
<1> HIDE DEF batch, entry
<1>4. /\ Len(Queue') = n + 1 /\ Queue'[n + 1] = batch
      /\ written'[Len(written) + 1] = entry
    BY <1>1, <1>2, <1>3
<1>5. k = key
    <2>1. view \in Views /\ ToldAll(view) /\ view.current \in BOOLEAN
        BY <1>0, TypedFacts
    <2>2. cache' \in [Keys -> Documents]
        BY DEF ClientInv, StreamsTyped
    <2>3. k \notin {key} => view'.docs[k] = view.docs[k]
        BY <1>0, <1>1, <2>1, <2>2, EmitDocs
    <2> QED
        BY <2>3
<1>6. LastFor(Queue', written', k, n + 1)
    BY <1>2, <1>3, <1>4, <1>5 DEF LastFor
<1>7. view'.docs[k].write = Len(written) + 1
    <2>1. n + 1 \in 1..Len(Queue')
        BY <1>2, <1>4
    <2> QED
        BY <2>1, <1>3, <1>4, <1>6, NextPendingIsShown
<1>8. \A v \in 1..Len(committed) : committed[v] # Len(written) + 1
    <2>1. \A v \in 1..Len(committed) : committed[v] \in 1..Len(written)
        BY <1>0 DEF OrderInv, LogInv
    <2> QED
        BY <2>1, <1>2
<1>9. Len(written) + 1 # 0
    BY <1>2
<1> QED
    BY <1>1, <1>7, <1>8, <1>9 DEF GivesWay

\* When the head of the queue is settled, a key that shows something new is the
\* head's, and shows what is cached instead of the head.
LEMMA SettledShows ==
    ASSUME ClientInv, ClientInv', pipeline # <<>>,
           NEW told, NEW s, NEW handed, Settle(told, s, handed), written' = written,
           NEW key, key = written[Head(pipeline).write].key,
           view' = EmitNewSnapshots(view, {key}, LocalDocuments(cache'), view.current, online),
           view.raised, view'.raised, NEW k \in Keys,
           view'.docs[k].write # view.docs[k].write
    PROVE  /\ k = key /\ view'.docs[k] = cache'[k]
           /\ view.docs[k].write = Head(pipeline).write
<1>0. IInv /\ IInv'
    BY DEF ClientInv
<1>1. Queue \in Seq(Batches) /\ Len(Queue) \in Nat /\ Rising(Queue)
    BY PipelineFacts DEF ClientInv
<1>2. Queue # <<>> /\ Queue' = Tail(Queue) /\ Head(pipeline) = Queue[1]
    BY <1>0, SettledQueue
<1>3. /\ Len(Queue') = Len(Queue) - 1
      /\ \A i \in 1..Len(Queue) - 1 : Queue'[i] = Queue[i + 1]
    BY <1>1, <1>2, TailFacts
<1>4. cache' \in [Keys -> Documents]
    BY DEF ClientInv, StreamsTyped
<1>5. /\ view'.docs[k] \in {view.docs[k], LocalDocuments(cache')[k]}
      /\ k \notin {key} => view'.docs[k] = view.docs[k]
    <2>1. view \in Views /\ ToldAll(view) /\ view.current \in BOOLEAN
        BY TypedFacts
    <2> QED
        BY <2>1, <1>0, <1>4, EmitDocs
<1>6. \A i \in 1..Len(Queue') : ~LastFor(Queue', written', k, i)
    <2> SUFFICES ASSUME NEW i \in 1..Len(Queue'), LastFor(Queue', written', k, i) PROVE FALSE
        OBVIOUS
    <2>1. i + 1 \in 1..Len(Queue) /\ Queue'[i] = Queue[i + 1]
        BY <1>1, <1>3
    <2>2. ASSUME NEW j \in 1..Len(Queue), written[Queue[j].write].key = k PROVE j <= i + 1
        <3>1. CASE j = 1
            BY <3>1, <1>1, <2>1
        <3>2. CASE j # 1
            <4>1. j - 1 \in 1..Len(Queue') /\ Queue'[j - 1] = Queue[j]
                BY <3>2, <1>1, <1>3
            <4>2. j - 1 <= i
                BY <4>1, <2>2 DEF LastFor
            <4> QED
                BY <4>2, <1>1, <2>1
        <3> QED
            BY <3>1, <3>2
    <2>3. LastFor(Queue, written, k, i + 1)
        BY <2>1, <2>2 DEF LastFor
    <2>4. view.docs[k].write = Queue[i + 1].write
        BY <2>1, <2>3, PendingIsShown
    <2>5. view'.docs[k].write = Queue'[i].write
        BY NextPendingIsShown
    <2> QED
        BY <2>1, <2>4, <2>5
<1>7. /\ \A i \in 1..Len(Queue') : written'[Queue'[i].write].key # k
      /\ LocalDocuments(cache')[k] = cache'[k]
    BY <1>0, <1>4, <1>6, LocalSource
<1>8. k = key /\ view'.docs[k] = cache'[k]
    BY <1>5, <1>7
<1>9. \A j \in 1..Len(Queue) : written[Queue[j].write].key = k => j = 1
    <2> SUFFICES ASSUME NEW j \in 1..Len(Queue), j # 1, written[Queue[j].write].key = k
                 PROVE  FALSE
        OBVIOUS
    <2>1. j - 1 \in 1..Len(Queue') /\ Queue'[j - 1] = Queue[j]
        BY <1>1, <1>3
    <2> QED
        BY <2>1, <1>7
<1>10. 1 \in 1..Len(Queue) /\ LastFor(Queue, written, k, 1)
    <2>1. Len(Queue) # 0
        BY <1>1, <1>2, EmptySeq
    <2>2. 1 \in 1..Len(Queue)
        BY <1>1, <2>1
    <2>3. written[Queue[1].write].key = k
        BY <1>2, <1>8
    <2> QED
        BY <2>2, <2>3, <1>9 DEF LastFor
<1>11. view.docs[k].write = Queue[1].write
    BY <1>10, PendingIsShown
<1> QED
    BY <1>2, <1>8, <1>11

LEMMA AcknowledgedGivesWay ==
    ASSUME TimeInv, ClientInv', HandleSuccessfulWrite,
           view.raised, view'.raised, NEW k \in Keys,
           view'.docs[k].write # view.docs[k].write
    PROVE  GivesWay(view.docs[k].write, view'.docs[k].write, committed')
<1> DEFINE x == Head(pipeline).write
           key == written[x].key
           v == Head(answers)
<1>0. ClientInv /\ OrderInv
    BY DEF TimeInv
<1>1. /\ answers # <<>> /\ Settle("ok", stream, requests)
      /\ written' = written /\ committed' = committed
      /\ cache' = [cache EXCEPT ![key] = Acknowledged(@, v, x)]
      /\ view' = EmitNewSnapshots(view, {key}, LocalDocuments(cache'), view.current, online)
    BY DEF HandleSuccessfulWrite, OnWriteStreamMutationResult, Emit
<1>2. /\ pipeline # <<>> /\ v \in 1..Len(committed) /\ committed[v] = x
      /\ NoLater(committed, x, v)
    BY <1>0, <1>1, FirstAnswer DEF TimeInv
<1>3. k = key /\ view'.docs[k] = cache'[k] /\ view.docs[k].write = x
    BY <1>0, <1>1, <1>2, SettledShows
<1> HIDE DEF x, key, v
<1>4. /\ cache \in [Keys -> Documents] /\ cache[k].version \in Nat /\ v \in Nat
      /\ Len(committed) \in Nat
    BY <1>0, <1>2, TypedFacts, PipelineFacts DEF Documents
<1>5. cache'[k] = Acknowledged(cache[k], v, x)
    BY <1>1, <1>3, <1>4
<1>6. ~(cache[k].version < v) /\ cache'[k] = cache[k]
    <2>1. Document(v, x, "committed").write = x
        BY DEF Document
    <2> QED
        BY <2>1, <1>3, <1>5 DEF Acknowledged
<1> DEFINE c == cache[k].version
<1>7. c \in 1..Len(committed) /\ committed[c] = cache[k].write
    <2>1. c # 0
        BY <1>2, <1>4, <1>6
    <2> QED
        BY <2>1 DEF TimeInv, CacheInv, RightDocument
<1>8. c # v
    BY <1>2, <1>3, <1>6, <1>7
<1>9. \A u \in 1..Len(committed) : committed[u] = x => u < c
    BY <1>2, <1>4, <1>6, <1>7, <1>8 DEF NoLater
<1>10. committed'[c] = view'.docs[k].write
    BY <1>1, <1>3, <1>6, <1>7
<1> HIDE DEF c
<1>11. /\ c \in 1..Len(committed')
       /\ \A u \in 1..Len(committed') : committed'[u] = view.docs[k].write => u < c
    BY <1>1, <1>3, <1>7, <1>9
<1> QED
    BY <1>10, <1>11 DEF GivesWay

LEMMA RefusedGivesWay ==
    ASSUME TimeInv, ClientInv', HandleRejectedWrite,
           view.raised, view'.raised, NEW k \in Keys,
           view'.docs[k].write # view.docs[k].write
    PROVE  GivesWay(view.docs[k].write, view'.docs[k].write, committed')
<1> DEFINE x == Head(pipeline).write
           key == written[x].key
           none == <<>>
<1>0. ClientInv /\ OrderInv /\ IInv
    BY DEF TimeInv, ClientInv
<1>1. /\ requests # <<>> /\ answers = <<>> /\ Settle("failed", "initial", none)
      /\ ~written[Head(requests).write].valid
      /\ written' = written /\ committed' = committed
      /\ view' = EmitNewSnapshots(view, {key}, LocalDocuments(cache'), view.current, online)
    BY DEF HandleRejectedWrite, HandleWriteError, Emit
<1> HIDE DEF none
<1>2. pipeline # <<>> /\ Head(requests).write = x
    <2>1. requests = SubSeq(pipeline, 1, Len(pipeline)) /\ pipeline \in Seq(Batches)
        BY <1>0, <1>1 DEF IInv, AnswersInv, PipelineTypeOK
    <2>2. requests = pipeline
        BY <2>1
    <2> QED
        BY <2>2, <1>1
<1>3. view.docs[k].write = x
    BY <1>0, <1>1, <1>2, SettledShows
<1>4. \A v \in 1..Len(committed) : committed[v] # x
    BY <1>0, <1>1, <1>2 DEF OrderInv, LogInv
<1>5. \A v \in 1..Len(committed') : committed'[v] # view.docs[k].write
    BY <1>1, <1>3, <1>4
<1> QED
    BY <1>5 DEF GivesWay

LEMMA RenewedGivesWay ==
    ASSUME TimeInv, ClientInv', OnWatchStreamChange,
           view.raised, view'.raised, NEW k \in Keys,
           view'.docs[k].write # view.docs[k].write
    PROVE  GivesWay(view.docs[k].write, view'.docs[k].write, committed')
<1> DEFINE event == Head(events)
           n(j) == VersionAt(j, event.to)
           keys == {j \in Keys : n(j) > event.from}
           news == {j \in keys : IsNews(cache[j], n(j))}
           now == HandleOnlineStateChange(view, online, "Online")
           on == TRUE
           x == view.docs[k].write
           y == view'.docs[k].write
<1>0. ClientInv /\ OrderInv /\ IInv /\ IInv'
    BY DEF TimeInv, ClientInv
<1>1. /\ cache \in [Keys -> Documents] /\ cache' \in [Keys -> Documents]
      /\ cache[k].version \in Nat
      /\ view \in Views /\ ToldAll(view) /\ (~view.listening => view = NoView)
      /\ committed \in Seq(Writes) /\ Len(committed) \in Nat
      /\ Queue \in Seq(Batches)
    BY <1>0, TypedFacts, PipelineFacts DEF ClientInv, StreamsTyped, Documents
<1>2. now \in Views /\ ToldAll(now) /\ now.docs = view.docs
    BY <1>1, OnlineFacts
<1>3. /\ events # <<>> /\ event.kind = "snapshot" /\ UNCHANGED pipelineVars
      /\ cache' = [j \in Keys |-> IF j \in keys THEN Updated(cache[j], n(j), WriteAt(j, event.to))
                                  ELSE cache[j]]
      /\ view' = EmitNewSnapshots(now, news, LocalDocuments(cache'), on, "Online")
    <2>1. view' # now
        BY <1>2
    <2> QED
        BY <2>1 DEF OnWatchStreamChange
<1>4. Queue' = Queue /\ written' = written /\ committed' = committed
    BY <1>3 DEF pipelineVars, clientVars, Queue
<1>5. /\ 1 \in 1..Len(events) /\ event = events[1]
      /\ event.to \in Nat /\ event.from \in Nat /\ event.to <= Len(committed)
    <2>1. events \in Seq([kind : {"message", "snapshot"}, from : Nat, to : Nat])
        BY <1>0, TypedFacts
    <2>2. event = Head(events)
        OBVIOUS
    <2> HIDE DEF event
    <2>3. Len(events) \in Nat /\ Len(events) # 0 /\ Head(events) = events[1]
        BY <1>3, <2>1, EmptySeq
    <2>4. 1 \in 1..Len(events) /\ event = events[1]
        BY <2>2, <2>3
    <2> QED
        BY <1>0, <2>4, EventFacts
<1>6. on \in BOOLEAN
    OBVIOUS
<1>7. k \in news => n(k) > event.from /\ IsNews(cache[k], n(k)) /\ k \in keys
    OBVIOUS
<1>8. k \in keys => cache'[k] = Updated(cache[k], n(k), WriteAt(k, event.to))
    BY <1>3
<1> HIDE DEF event, now, on, news, keys
<1>9. k \in news /\ view'.docs[k] = LocalDocuments(cache')[k]
    BY <1>0, <1>1, <1>2, <1>3, <1>6, EmitDocs
<1>10. \A i \in 1..Len(Queue) : ~LastFor(Queue, written, k, i)
    BY <1>0, <1>4, PendingIsShown, NextPendingIsShown
<1>11. /\ \A i \in 1..Len(Queue) : written[Queue[i].write].key # k
       /\ view'.docs[k] = cache'[k]
    BY <1>0, <1>1, <1>4, <1>9, <1>10, LocalSource
<1> DEFINE m == n(k)
<1>12. /\ m \in 0..event.to
       /\ \A v \in 1..event.to : written[committed[v]].key = k => v <= m /\ m # 0
       /\ m # 0 => m \in 1..Len(committed) /\ WriteAt(k, event.to) = committed[m]
    BY <1>0, <1>5, VersionFacts
<1> HIDE DEF n
<1>13. m # 0 /\ m \in 1..Len(committed) /\ cache[k].version <= m /\ y = committed[m]
    <2>1. m > event.from /\ IsNews(cache[k], m)
        BY <1>7, <1>9
    <2>2. m # 0 /\ m \in 1..Len(committed) /\ WriteAt(k, event.to) = committed[m]
        BY <2>1, <1>5, <1>12
    <2>3. cache'[k] = Document(m, committed[m], "synced")
        BY <2>1, <2>2, <1>7, <1>8, <1>9 DEF Updated
    <2>4. cache'[k].write = committed[m]
        BY <2>3 DEF Document
    <2>5. cache[k].version <= m
        BY <2>1, <1>1, <1>12 DEF IsNews
    <2> QED
        BY <2>2, <2>4, <2>5, <1>11
<1>14. CASE x = 0
    <2>1. \A v \in 1..Len(committed) : committed[v] \in Writes
        BY <1>1, ElementOfSeq
    <2> QED
        BY <2>1, <1>4, <1>14 DEF GivesWay, Writes
<1>15. CASE x # 0
    <2>1. /\ x \in 1..Len(written) /\ written[x].key = k
          /\ written[x].user = Other => NoLater(committed, x, cache[k].version)
        BY <1>15 DEF TimeInv, DocsRight
    <2> HIDE DEF x, y, m
    <2>2. ~IsPending(Queue, x)
        BY <2>1, <1>11 DEF IsPending
    <2>3. NoLater(committed, x, event.to) \/ NoLater(committed, x, cache[k].version)
        <3>1. CASE written[x].user = Other
            BY <3>1, <2>1
        <3>2. CASE written[x].user # Other
            <4>1. Heard(x)
                BY <3>2, <2>1, <2>2 DEF TimeInv, SettledHeard
            <4> QED
                BY <4>1, <2>1, <1>3, <1>5 DEF Heard
        <3> QED
            BY <3>1, <3>2
    <2>4. ASSUME NEW v \in 1..Len(committed), committed[v] = x PROVE v < m
        <3>1. CASE v <= event.to
            <4>1. v \in 1..event.to
                BY <3>1, <1>1, <1>5
            <4>2. v <= m
                BY <4>1, <2>1, <2>4, <1>12
            <4> QED
                BY <4>2, <2>4, <1>12, <1>13 DEF x, y
        <3>2. CASE v <= cache[k].version
            <4>1. v <= m
                BY <3>2, <1>1, <1>12, <1>13
            <4> QED
                BY <4>1, <2>4, <1>12, <1>13 DEF x, y
        <3> QED
            BY <3>1, <3>2, <2>3, <2>4 DEF NoLater
    <2> QED
        BY <2>4, <1>4, <1>13 DEF GivesWay, x, y
<1> QED
    BY <1>14, <1>15

LEMMA LatestFacts ==
    ASSUME NEW w, NEW log, Len(log) \in Nat, DOMAIN log = 1..Len(log)
    PROVE  /\ LatestCommitOf(w, log) = 0 <=> \A v \in 1..Len(log) : log[v] # w
           /\ LatestCommitOf(w, log) # 0 =>
                /\ LatestCommitOf(w, log) \in 1..Len(log)
                /\ log[LatestCommitOf(w, log)] = w
                /\ \A v \in 1..Len(log) : log[v] = w => v <= LatestCommitOf(w, log)
<1> DEFINE vs == {v \in DOMAIN log : log[v] = w}
<1>1. vs \subseteq 1..Len(log) /\ \A v \in 1..Len(log) : log[v] = w <=> v \in vs
    OBVIOUS
<1>2. LatestCommitOf(w, log) = IF vs = {} THEN 0 ELSE LastOf(vs)
    BY DEF LatestCommitOf
<1> HIDE DEF vs
<1>3. ASSUME vs # {}
      PROVE  /\ LastOf(vs) \in vs /\ LastOf(vs) \in 1..Len(log) /\ LastOf(vs) # 0
             /\ \A v \in vs : v <= LastOf(vs)
    <2>1. vs \subseteq Nat /\ \A n \in vs : n <= Len(log)
        BY <1>1
    <2>2. LastOf(vs) \in vs /\ \A v \in vs : v <= LastOf(vs)
        BY <1>3, <2>1, LastOfFacts
    <2>3. LastOf(vs) \in 1..Len(log)
        BY <1>1, <2>2
    <2> QED
        BY <2>2, <2>3
<1>4. CASE vs = {}
    BY <1>1, <1>2, <1>4
<1>5. CASE vs # {}
    <2>1. LatestCommitOf(w, log) = LastOf(vs)
        BY <1>2, <1>5
    <2> QED
        BY <1>1, <1>3, <1>5, <2>1
<1> QED
    BY <1>4, <1>5

\* What gives way is not a write the server had later.
LEMMA GivesWayInTime ==
    ASSUME NEW x, NEW y, NEW log, Len(log) \in Nat, DOMAIN log = 1..Len(log),
           GivesWay(x, y, log), LatestCommitOf(x, log) # 0
    PROVE  \/ LatestCommitOf(y, log) > LatestCommitOf(x, log)
           \/ LatestCommitOf(y, log) = 0 /\ y # 0
<1> DEFINE old == LatestCommitOf(x, log)
           new == LatestCommitOf(y, log)
<1>1. old \in 1..Len(log) /\ log[old] = x
    BY LatestFacts
<1>2. new = 0 <=> \A v \in 1..Len(log) : log[v] # y
    BY LatestFacts
<1>3. new # 0 => new \in 1..Len(log) /\ \A v \in 1..Len(log) : log[v] = y => v <= new
    BY LatestFacts
<1> HIDE DEF old, new
<1>4. CASE y # 0 /\ \A v \in 1..Len(log) : log[v] # y
    BY <1>2, <1>4 DEF old, new
<1>5. ASSUME NEW m \in 1..Len(log), log[m] = y,
             \A v \in 1..Len(log) : log[v] = x => v < m
      PROVE  new > old
    <2>1. old < m
        BY <1>1, <1>5
    <2>2. new # 0 /\ m <= new
        BY <1>2, <1>3, <1>5
    <2> QED
        BY <1>1, <1>3, <2>1, <2>2
<1> QED
    BY <1>1, <1>4, <1>5 DEF GivesWay, old, new

LEMMA RaisedShows ==
    ASSUME ClientInv, view.raised, NEW k \in Keys
    PROVE  view.shown[k] = view.docs[k].write
<1>1. ToldAll(view)
    BY TypedFacts DEF ClientInv
<1> QED
    BY <1>1 DEF ToldAll

LEMMA ShownGivesWay ==
    ASSUME TimeInv, ClientInv', [Next]_vars, view.raised, view'.raised,
           currentUser' = currentUser, NEW k \in Keys,
           view.shown[k] # view'.shown[k]
    PROVE  GivesWay(view.shown[k], view'.shown[k], committed')
<1>1. view.shown[k] = view.docs[k].write
    BY RaisedShows DEF TimeInv
<1>2. ToldAll(view')
    BY DEF ClientInv, ViewOK
<1>3. view'.shown[k] = view'.docs[k].write
    BY <1>2 DEF ToldAll
<1>4. view'.docs[k].write # view.docs[k].write
    BY <1>1, <1>3
<1>5. Emits
    <2>1. ~QuietFor(k)
        BY <1>4 DEF QuietFor
    <2> QED
        BY <2>1, DocsOfOthers
<1>6. CASE \E key \in Keys, valid \in BOOLEAN : Write(key, valid)
    BY <1>1, <1>3, <1>4, <1>6, MadeGivesWay
<1>7. CASE HandleSuccessfulWrite
    BY <1>1, <1>3, <1>4, <1>7, AcknowledgedGivesWay
<1>8. CASE HandleRejectedWrite
    BY <1>1, <1>3, <1>4, <1>8, RefusedGivesWay
<1>9. CASE OnWatchStreamChange
    BY <1>1, <1>3, <1>4, <1>9, RenewedGivesWay
<1> QED
    BY <1>5, <1>6, <1>7, <1>8, <1>9 DEF Emits

-----------------------------------------------------------------------------
(* What follows. *)

\* The client's state stays within its types.
THEOREM ClientTypeCorrect == Spec => []TypeOK
    BY ClientTypes, ClientInductive, PTL

\* Composed with listening, the watch stream and the online state the pipeline
\* keeps its promises.
THEOREM PipelineInClient ==
    Spec => [](PipelineIsQueueFront /\ AnswersMatchPipeline /\ IdleStreamIsNotNeeded)
<1>1. ClientInv =>
         PipelineIsQueueFront /\ AnswersMatchPipeline /\ IdleStreamIsNotNeeded
    BY Promises DEF ClientInv
<1> QED
    BY <1>1, ClientInductive, PTL

\* The changes a listener's block is told add up to the view's documents:
\* ComputeDocumentChanges, ApplyChanges and OnViewSnapshot leave none out and
\* tell none twice, whatever is held back for Watch.
THEOREM ToldIsShown == Spec => []ShownIsView
<1>1. ClientInv => ShownIsView
    BY DEF ClientInv, ViewOK, ToldAll, ShownIsView
<1> QED
    BY <1>1, ClientInductive, PTL

\* What was written last on the device and is not answered is what the customer
\* sees (LocalDocumentsView laid over what ApplyRemoteEvent and ApplyBatchResult
\* cache), whatever the two streams deliver.
THEOREM OwnWritesStay == Spec => []OwnWritesAreShown
<1>1. ClientInv => OwnWritesAreShown
    <2> SUFFICES ASSUME ClientInv, view.raised, NEW k \in KeysIn(Queue)
                 PROVE  view.shown[k] = Queue[LastOf({i \in DOMAIN Queue :
                                                 written[Queue[i].write].key = k})].write
        BY DEF OwnWritesAreShown
    <2> DEFINE on == {i \in DOMAIN Queue : written[Queue[i].write].key = k}
               m == LastOf(on)
    <2>1. /\ DOMAIN Queue = 1..Len(Queue) /\ Len(Queue) \in Nat
          /\ \A i \in 1..Len(Queue) : Queue[i].write \in 1..Len(written)
        BY PipelineFacts DEF ClientInv
    <2>2. on # {} /\ on \subseteq Nat /\ \A n \in on : n <= Len(Queue)
        BY <2>1 DEF KeysIn
    <2>3. m \in on /\ \A n \in on : n <= m
        <3> HIDE DEF on
        <3> QED
            BY <2>1, <2>2, LastOfFacts
    <2> HIDE DEF m
    <2>4. m \in 1..Len(Queue) /\ LastFor(Queue, written, k, m)
        BY <2>1, <2>3 DEF LastFor
    <2>5. k \in Keys
        <3> DEFINE Entries == [user : Users \cup {Other}, key : Keys, valid : BOOLEAN]
        <3>1. written \in Seq(Entries) /\ written[Queue[m].write].key = k
            BY <2>3 DEF ClientInv, IInv, PipelineTypeOK
        <3> HIDE DEF Entries
        <3>2. written[Queue[m].write] \in Entries
            BY <2>1, <2>4, <3>1, ElementOfSeq
        <3> QED
            BY <3>1, <3>2 DEF Entries
    <2>6. view.listening
        BY NoViewFacts DEF ClientInv, ViewOK
    <2>7. view.shown[k] = view.docs[k].write
        BY <2>5 DEF ClientInv, ViewOK, ToldAll
    <2>8. view.docs[k].write = Queue[m].write
        BY <2>4, <2>5, <2>6 DEF ClientInv, ViewOK, HasPending
    <2> QED
        BY <2>7, <2>8 DEF m
<1> QED
    BY <1>1, ClientInductive, PTL

\* NeverBackInTime: a document shown is never replaced by one the server had
\* earlier, in whatever order the answers of the write stream and the snapshots
\* of Watch come in, and although a broken stream sends everything again
\* (applyBatchResult, ApplyRemoteEvent, LocalDocumentsView).
THEOREM NeverFlickers == Spec => NeverBackInTime
<1> DEFINE Step == view.raised /\ view'.raised /\ currentUser' = currentUser =>
                     \A k \in Keys :
                       LET old == LatestCommitOf(view.shown[k], committed')
                           new == LatestCommitOf(view'.shown[k], committed')
                       IN  view.shown[k] # view'.shown[k] /\ old # 0 =>
                             \/ new > old
                             \/ new = 0 /\ view'.shown[k] # 0
<1>1. TimeInv /\ TimeInv' /\ [Next]_vars => Step
    <2> SUFFICES ASSUME TimeInv, TimeInv', [Next]_vars, view.raised, view'.raised,
                        currentUser' = currentUser, NEW k \in Keys,
                        view.shown[k] # view'.shown[k],
                        LatestCommitOf(view.shown[k], committed') # 0
                 PROVE  \/ LatestCommitOf(view'.shown[k], committed')
                             > LatestCommitOf(view.shown[k], committed')
                        \/ /\ LatestCommitOf(view'.shown[k], committed') = 0
                           /\ view'.shown[k] # 0
        OBVIOUS
    <2>1. ClientInv'
        BY DEF TimeInv
    <2>2. committed' \in Seq(Writes)
        BY <2>1 DEF ClientInv, IInv, PipelineTypeOK
    <2>3. Len(committed') \in Nat /\ DOMAIN committed' = 1..Len(committed')
        BY <2>2
    <2>4. GivesWay(view.shown[k], view'.shown[k], committed')
        BY <2>1, ShownGivesWay
    <2> QED
        BY <2>3, <2>4, GivesWayInTime
<1> QED
    BY <1>1, TimeInductive, PTL DEF Spec, NeverBackInTime

\* ImplementsOrderedWrites: with listeners, snapshots and restarts beside it, the
\* pipeline of writes still implements OrderedWrites.
THEOREM OrderedInClient == Spec => ImplementsOrderedWrites
<1>1. Init => Ordered!Init
    BY OrderedFromTheStart DEF Init
<1>2. TimeInv /\ TimeInv' /\ [Next]_vars => OrderStep
    BY StepsOfTheLog, OrderKeptByClient DEF TimeInv, ClientInv
<1> QED
    BY <1>1, <1>2, TimeInductive, PTL DEF Spec, OrderStep, ImplementsOrderedWrites, Ordered!Spec

==============================================================================
