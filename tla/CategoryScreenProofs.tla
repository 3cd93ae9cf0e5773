------------------------ MODULE CategoryScreenProofs -------------------------
(***************************************************************************)
(* What holds of the list of categories for any documents, any number of   *)
(* changes and any number of listeners: every change of a snapshot is      *)
(* applied to the row of its document, and the screen implements the list  *)
(* mirror.  The first sections are about the operators of DocumentChanges: *)
(* the documents of a result in query order, what the three handlers do to *)
(* such rows, and that a whole snapshot leads from the rows of one result  *)
(* to the rows of the next.  Product screens have the same handlers.       *)
(***************************************************************************)
EXTENDS CategoryScreen, TLAPS, FiniteSetTheorems, FunctionTheorems, SequenceTheorems,
        WellFoundedInduction

-----------------------------------------------------------------------------
(* The query's order. *)

LEMMA DocFields ==
    ASSUME NEW d \in Docs
    PROVE  d.ts \in Nat /\ d.id \in Nat /\ d.id \in DocIds
    BY DocumentAssumption DEF Docs

LEMMA BeforeFacts ==
    /\ \A d \in Docs : ~Before(d, d)
    /\ \A d, e \in Docs : d.id # e.id => (Before(d, e) <=> ~Before(e, d))
    /\ \A d, e, f \in Docs : Before(d, e) /\ Before(e, f) => Before(d, f)
<1>1. \A d \in Docs : ~Before(d, d)
    BY DocFields DEF Before
<1>2. ASSUME NEW d \in Docs, NEW e \in Docs, d.id # e.id PROVE Before(d, e) <=> ~Before(e, d)
    <2>1. d.ts \in Nat /\ d.id \in Nat /\ e.ts \in Nat /\ e.id \in Nat
        BY DocFields
    <2> QED
        BY <1>2, <2>1 DEF Before
<1>3. ASSUME NEW d \in Docs, NEW e \in Docs, NEW f \in Docs, Before(d, e), Before(e, f)
      PROVE  Before(d, f)
    <2>1. /\ d.ts \in Nat /\ d.id \in Nat /\ e.ts \in Nat /\ e.id \in Nat
          /\ f.ts \in Nat /\ f.id \in Nat
        BY DocFields
    <2> QED
        BY <1>3, <2>1 DEF Before
<1> QED
    BY <1>1, <1>2, <1>3

LEMMA ViewFacts ==
    ASSUME NEW v \in Views
    PROVE  /\ IsFiniteSet(v) /\ v \subseteq Docs /\ Cardinality(v) \in Nat
           /\ \A d, e \in v : d # e => d.id # e.id
           /\ \A w \in SUBSET v : w \in Views
<1>1. IsFiniteSet(v) /\ v \subseteq Docs /\ \A d, e \in v : d.id = e.id => d = e
    BY DEF Views
<1>2. ASSUME NEW w \in SUBSET v PROVE w \in Views
    <2>1. IsFiniteSet(w)
        BY <1>1, FS_Subset
    <2>2. w \in SUBSET Docs
        BY <1>1
    <2> QED
        BY <1>1, <2>1, <2>2 DEF Views
<1> QED
    BY <1>1, <1>2, FS_CardinalityType

\* The documents before one are counted before any that comes after it.
LEMMA IndexFacts ==
    ASSUME NEW v \in Views
    PROVE  /\ \A d \in Docs : IndexIn(v, d) \in 0..Cardinality(v)
           /\ \A d \in v : IndexIn(v, d) \in 0..Cardinality(v) - 1
           /\ \A d \in v, e \in Docs : Before(d, e) => IndexIn(v, d) < IndexIn(v, e)
<1> DEFINE First(d) == {x \in v : Before(x, d)}
<1>0. /\ IsFiniteSet(v) /\ v \subseteq Docs /\ Cardinality(v) \in Nat
    BY ViewFacts
<1>1. ASSUME NEW d \in Docs
      PROVE  /\ IsFiniteSet(First(d)) /\ Cardinality(First(d)) \in 0..Cardinality(v)
             /\ IndexIn(v, d) = Cardinality(First(d))
    <2>1. First(d) \in SUBSET v
        OBVIOUS
    <2>2. IndexIn(v, d) = Cardinality(First(d))
        BY DEF IndexIn
    <2> HIDE DEF First
    <2>3. /\ IsFiniteSet(First(d)) /\ Cardinality(First(d)) \in Nat
          /\ Cardinality(First(d)) <= Cardinality(v)
        BY <1>0, <2>1, FS_Subset, FS_CardinalityType
    <2> QED
        BY <1>0, <2>2, <2>3
<1>2. ASSUME NEW d \in v, NEW e \in Docs, Before(d, e) PROVE IndexIn(v, d) < IndexIn(v, e)
    <2>0. d \in Docs
        BY <1>0
    <2>1. First(d) \cup {d} \in SUBSET First(e) /\ d \notin First(d)
        BY <1>0, <1>2, BeforeFacts
    <2>2. /\ IsFiniteSet(First(d)) /\ IsFiniteSet(First(e))
          /\ Cardinality(First(d)) \in Nat /\ Cardinality(First(e)) \in Nat
          /\ IndexIn(v, d) = Cardinality(First(d)) /\ IndexIn(v, e) = Cardinality(First(e))
        BY <1>0, <1>1, <2>0
    <2> HIDE DEF First
    <2>3. Cardinality(First(d) \cup {d}) = Cardinality(First(d)) + 1
        BY <2>1, <2>2, FS_AddElement
    <2>4. Cardinality(First(d) \cup {d}) <= Cardinality(First(e))
        BY <2>1, <2>2, FS_Subset
    <2> QED
        BY <2>2, <2>3, <2>4
<1>3. ASSUME NEW d \in v PROVE IndexIn(v, d) \in 0..Cardinality(v) - 1
    <2>0. d \in Docs
        BY <1>0
    <2>1. First(d) \cup {d} \in SUBSET v /\ d \notin First(d)
        BY <1>0, <2>0, BeforeFacts
    <2>2. /\ IsFiniteSet(First(d)) /\ Cardinality(First(d)) \in Nat
          /\ IndexIn(v, d) = Cardinality(First(d))
        BY <1>0, <1>1, <2>0
    <2> HIDE DEF First
    <2>3. Cardinality(First(d) \cup {d}) = Cardinality(First(d)) + 1
        BY <2>1, <2>2, FS_AddElement
    <2>4. Cardinality(First(d) \cup {d}) <= Cardinality(v)
        BY <1>0, <2>1, FS_Subset
    <2> QED
        BY <1>0, <2>2, <2>3, <2>4
<1>4. \A d \in Docs : IndexIn(v, d) \in 0..Cardinality(v)
    BY <1>1
<1> QED
    BY <1>2, <1>3, <1>4

\* Every index of a result is that of one document.
LEMMA IndexBijection ==
    ASSUME NEW v \in Views
    PROVE  /\ \A d, e \in v : IndexIn(v, d) = IndexIn(v, e) => d = e
           /\ \A n \in 0..Cardinality(v) - 1 : \E d \in v : IndexIn(v, d) = n
<1> DEFINE f == [d \in v |-> IndexIn(v, d)]
           indices == 0..Cardinality(v) - 1
<1>0. /\ IsFiniteSet(v) /\ v \subseteq Docs /\ Cardinality(v) \in Nat
      /\ \A d, e \in v : d # e => d.id # e.id
    BY ViewFacts
<1>1. ASSUME NEW d \in v, NEW e \in v, IndexIn(v, d) = IndexIn(v, e) PROVE d = e
    <2>1. SUFFICES ASSUME d # e PROVE FALSE
        OBVIOUS
    <2>2. d \in Docs /\ e \in Docs /\ d.id # e.id
        BY <1>0, <2>1
    <2>3. Before(d, e) \/ Before(e, d)
        BY <2>2, BeforeFacts
    <2>4. /\ IndexIn(v, d) \in 0..Cardinality(v) - 1
          /\ IndexIn(v, d) < IndexIn(v, e) \/ IndexIn(v, e) < IndexIn(v, d)
        BY <2>2, <2>3, IndexFacts
    <2> QED
        BY <1>0, <1>1, <2>4
<1>2. f \in [v -> indices]
    BY IndexFacts
<1>3. f \in Injection(v, indices)
    BY <1>1, <1>2 DEF Injection, IsInjective
<1>4. IsFiniteSet(indices) /\ Cardinality(indices) = Cardinality(v)
    <2>1. 0 \in Int /\ Cardinality(v) - 1 \in Int
        BY <1>0
    <2> QED
        BY <1>0, <2>1, FS_Interval
<1>5. f \in Surjection(v, indices)
    <2> HIDE DEF f, indices
    <2> QED
        BY <1>3, <1>4, FS_Injection
<1>6. \A n \in indices : \E d \in v : f[d] = n
    BY <1>5 DEF Surjection
<1> QED
    BY <1>1, <1>6

LEMMA OrderedFacts ==
    ASSUME NEW v \in Views
    PROVE  /\ Ordered(v) \in Seq(Docs) /\ Len(Ordered(v)) = Cardinality(v)
           /\ \A i \in 1..Cardinality(v) :
                 Ordered(v)[i] \in v /\ IndexIn(v, Ordered(v)[i]) = i - 1
           /\ \A d \in v : Ordered(v)[IndexIn(v, d) + 1] = d
<1> DEFINE n == Cardinality(v)
           At(i) == CHOOSE d \in v : IndexIn(v, d) = i - 1
<1>0. n \in Nat /\ v \subseteq Docs
    BY ViewFacts
<1>1. Ordered(v) = [i \in 1..n |-> At(i)]
    BY DEF Ordered
<1>2. ASSUME NEW i \in 1..n PROVE At(i) \in v /\ IndexIn(v, At(i)) = i - 1
    <2>1. i - 1 \in 0..n - 1
        BY <1>0
    <2>2. \E d \in v : IndexIn(v, d) = i - 1
        BY <2>1, IndexBijection
    <2> QED
        BY <2>2
<1> HIDE DEF At, n
<1>3. \A i \in 1..n : Ordered(v)[i] \in v /\ IndexIn(v, Ordered(v)[i]) = i - 1
    BY <1>1, <1>2
<1>4. Ordered(v) \in Seq(Docs) /\ Len(Ordered(v)) = n
    <2>1. Ordered(v) \in [1..n -> Docs]
        BY <1>0, <1>1, <1>2
    <2> QED
        BY <1>0, <2>1
<1>5. ASSUME NEW d \in v PROVE Ordered(v)[IndexIn(v, d) + 1] = d
    <2>1. IndexIn(v, d) \in 0..n - 1
        BY IndexFacts DEF n
    <2> DEFINE j == IndexIn(v, d) + 1
    <2>2. j \in 1..n /\ j - 1 = IndexIn(v, d)
        BY <1>0, <2>1
    <2> HIDE DEF j
    <2>3. Ordered(v)[j] \in v /\ IndexIn(v, Ordered(v)[j]) = IndexIn(v, d)
        BY <1>3, <2>2
    <2>4. Ordered(v)[j] = d
        BY <2>3, IndexBijection
    <2> QED
        BY <2>4 DEF j
<1> QED
    BY <1>3, <1>4, <1>5 DEF n

LEMMA OrderedIs ==
    ASSUME NEW v \in Views, NEW s \in Seq(Docs), Len(s) = Cardinality(v),
           \A i \in 1..Len(s) : s[i] \in v /\ IndexIn(v, s[i]) = i - 1
    PROVE  s = Ordered(v)
<1>1. /\ Ordered(v) \in Seq(Docs) /\ Len(Ordered(v)) = Len(s)
      /\ \A i \in 1..Len(s) : Ordered(v)[i] \in v /\ IndexIn(v, Ordered(v)[i]) = i - 1
    BY OrderedFacts
<1>2. \A i \in 1..Len(s) : s[i] = Ordered(v)[i]
    BY <1>1, IndexBijection
<1> QED
    BY <1>1, <1>2, SeqEqual

-----------------------------------------------------------------------------
(* Rows put in and taken out. *)

LEMMA ConcatFacts ==
    ASSUME NEW S, NEW s \in Seq(S), NEW t \in Seq(S)
    PROVE  /\ s \o t \in Seq(S) /\ Len(s \o t) = Len(s) + Len(t)
           /\ \A i \in 1..Len(s) : (s \o t)[i] = s[i]
           /\ \A i \in 1..Len(t) : (s \o t)[Len(s) + i] = t[i]
    BY ConcatProperties

LEMMA InsertIs ==
    \A s, i, e : InsertAt(s, i, e) = SubSeq(s, 1, i - 1) \o <<e>> \o SubSeq(s, i, Len(s))
    BY DEF InsertAt

LEMMA RemoveIs ==
    \A s, i : RemoveAt(s, i) = SubSeq(s, 1, i - 1) \o SubSeq(s, i + 1, Len(s))
    BY DEF RemoveAt

\* Putting something in and taking something out.
LEMMA InsertFacts ==
    ASSUME NEW s \in Seq(Docs), NEW p \in 0..Len(s), NEW d \in Docs
    PROVE  /\ InsertAt(s, p + 1, d) \in Seq(Docs)
           /\ Len(InsertAt(s, p + 1, d)) = Len(s) + 1
           /\ \A i \in 1..p : InsertAt(s, p + 1, d)[i] = s[i]
           /\ InsertAt(s, p + 1, d)[p + 1] = d
           /\ \A i \in p + 1..Len(s) : InsertAt(s, p + 1, d)[i + 1] = s[i]
<1> DEFINE front == SubSeq(s, 1, p)
           back == SubSeq(s, p + 1, Len(s))
           one == <<d>>
           begin == front \o one
           n == Len(s)
<1>0. n \in Nat /\ p \in Nat /\ p <= n
    OBVIOUS
<1>1. InsertAt(s, p + 1, d) = begin \o back
    <2> DEFINE i == p + 1
    <2>1. i - 1 = p
        BY <1>0
    <2>2. back = SubSeq(s, i, Len(s))
        OBVIOUS
    <2>3. InsertAt(s, i, d) = SubSeq(s, 1, i - 1) \o one \o SubSeq(s, i, Len(s))
        <3> HIDE DEF i
        <3> QED
            BY InsertIs, Zenon
    <2> HIDE DEF i, one, back
    <2>4. InsertAt(s, i, d) = begin \o back
        BY <2>1, <2>2, <2>3
    <2> QED
        BY <2>4 DEF i
<1>2. front \in Seq(Docs) /\ Len(front) = p /\ \A i \in 1..p : front[i] = s[i]
    BY <1>0
<1>3. /\ back \in Seq(Docs) /\ Len(back) = n - p
      /\ \A i \in 1..n - p : back[i] = s[p + i]
    BY <1>0
<1>4. one \in Seq(Docs) /\ Len(one) = 1 /\ one[1] = d
    OBVIOUS
<1> HIDE DEF front, back, one, n
<1>5. /\ begin \in Seq(Docs) /\ Len(begin) = p + 1
      /\ \A i \in 1..p : begin[i] = s[i]
      /\ begin[p + 1] = d
    <2>0. front \in Seq(Docs) /\ one \in Seq(Docs)
        BY <1>2, <1>4
    <2>1. /\ begin \in Seq(Docs) /\ Len(begin) = Len(front) + Len(one)
          /\ \A i \in 1..Len(front) : begin[i] = front[i]
          /\ \A i \in 1..Len(one) : begin[Len(front) + i] = one[i]
        BY ONLY <2>0, ConcatFacts
    <2> HIDE DEF begin
    <2>2. 1 \in 1..Len(one)
        BY <1>4
    <2> QED
        BY <1>2, <1>4, <2>1, <2>2
<1> HIDE DEF begin
<1>6. /\ begin \o back \in Seq(Docs) /\ Len(begin \o back) = p + 1 + (n - p)
      /\ \A i \in 1..p + 1 : (begin \o back)[i] = begin[i]
      /\ \A i \in 1..n - p : (begin \o back)[p + 1 + i] = s[p + i]
    <2> DEFINE whole == begin \o back
    <2>0. begin \in Seq(Docs) /\ back \in Seq(Docs)
        BY <1>3, <1>5
    <2>1. /\ whole \in Seq(Docs) /\ Len(whole) = Len(begin) + Len(back)
          /\ \A i \in 1..Len(begin) : whole[i] = begin[i]
          /\ \A i \in 1..Len(back) : whole[Len(begin) + i] = back[i]
        BY <2>0, ConcatFacts
    <2> HIDE DEF whole
    <2>2. /\ whole \in Seq(Docs) /\ Len(whole) = p + 1 + (n - p)
          /\ \A i \in 1..p + 1 : whole[i] = begin[i]
          /\ \A i \in 1..n - p : whole[p + 1 + i] = s[p + i]
        BY <1>3, <1>5, <2>1
    <2> QED
        BY <2>2 DEF whole
<1>7. Len(begin \o back) = n + 1
    BY <1>0, <1>6
<1>8. /\ \A i \in 1..p : (begin \o back)[i] = s[i]
      /\ (begin \o back)[p + 1] = d
    <2>1. p + 1 \in 1..p + 1 /\ \A i \in 1..p : i \in 1..p + 1
        BY <1>0
    <2> QED
        BY <1>5, <1>6, <2>1
<1>9. ASSUME NEW i \in p + 1..n PROVE (begin \o back)[i + 1] = s[i]
    <2>1. i - p \in 1..n - p /\ p + 1 + (i - p) = i + 1 /\ p + (i - p) = i
        BY <1>0
    <2> QED
        BY <1>6, <2>1
<1> QED
    BY <1>1, <1>6, <1>7, <1>8, <1>9 DEF n

LEMMA RemoveFacts ==
    ASSUME NEW s \in Seq(Docs), NEW p \in 0..Len(s) - 1
    PROVE  /\ RemoveAt(s, p + 1) \in Seq(Docs)
           /\ Len(RemoveAt(s, p + 1)) = Len(s) - 1
           /\ \A i \in 1..p : RemoveAt(s, p + 1)[i] = s[i]
           /\ \A i \in p + 1..Len(s) - 1 : RemoveAt(s, p + 1)[i] = s[i + 1]
<1> DEFINE front == SubSeq(s, 1, p)
           back == SubSeq(s, p + 2, Len(s))
           n == Len(s)
<1>0. n \in Nat /\ p \in Nat /\ p < n
    OBVIOUS
<1>1. RemoveAt(s, p + 1) = front \o back
    <2> DEFINE i == p + 1
    <2>1. i - 1 = p /\ i + 1 = p + 2
        BY <1>0
    <2> HIDE DEF i
    <2>2. RemoveAt(s, i) = SubSeq(s, 1, i - 1) \o SubSeq(s, i + 1, Len(s))
        BY RemoveIs, Zenon
    <2>3. RemoveAt(s, i) = front \o back
        BY <2>1, <2>2
    <2> QED
        BY <2>3 DEF i
<1>2. front \in Seq(Docs) /\ Len(front) = p /\ \A i \in 1..p : front[i] = s[i]
    BY <1>0
<1>3. /\ back \in Seq(Docs) /\ Len(back) = n - p - 1
      /\ \A i \in 1..n - p - 1 : back[i] = s[p + 1 + i]
    BY <1>0
<1> HIDE DEF front, back, n
<1>4. /\ front \o back \in Seq(Docs) /\ Len(front \o back) = p + (n - p - 1)
      /\ \A i \in 1..p : (front \o back)[i] = s[i]
      /\ \A i \in 1..n - p - 1 : (front \o back)[p + i] = s[p + 1 + i]
    <2> DEFINE whole == front \o back
    <2>0. front \in Seq(Docs) /\ back \in Seq(Docs)
        BY <1>2, <1>3
    <2>1. /\ whole \in Seq(Docs) /\ Len(whole) = Len(front) + Len(back)
          /\ \A i \in 1..Len(front) : whole[i] = front[i]
          /\ \A i \in 1..Len(back) : whole[Len(front) + i] = back[i]
        BY <2>0, ConcatFacts
    <2> HIDE DEF whole
    <2>2. /\ whole \in Seq(Docs) /\ Len(whole) = p + (n - p - 1)
          /\ \A i \in 1..p : whole[i] = s[i]
          /\ \A i \in 1..n - p - 1 : whole[p + i] = s[p + 1 + i]
        BY <1>2, <1>3, <2>1
    <2> QED
        BY <2>2 DEF whole
<1>5. Len(front \o back) = n - 1
    BY <1>0, <1>4
<1>6. ASSUME NEW i \in p + 1..n - 1 PROVE (front \o back)[i] = s[i + 1]
    <2>1. i - p \in 1..n - p - 1 /\ p + (i - p) = i /\ p + 1 + (i - p) = i + 1
        BY <1>0
    <2> QED
        BY <1>4, <2>1
<1> QED
    BY <1>1, <1>4, <1>5, <1>6 DEF n

\* A new document moves those behind it by one.
LEMMA IndexWith ==
    ASSUME NEW v \in Views, NEW d \in Docs, d.id \notin IdsOf(v)
    PROVE  /\ v \cup {d} \in Views /\ Cardinality(v \cup {d}) = Cardinality(v) + 1
           /\ IndexIn(v \cup {d}, d) = IndexIn(v, d)
           /\ IndexIn(v, d) \in 0..Cardinality(v)
           /\ \A e \in v :
                 \/ IndexIn(v, e) < IndexIn(v, d) /\ IndexIn(v \cup {d}, e) = IndexIn(v, e)
                 \/ IndexIn(v, d) <= IndexIn(v, e) /\ IndexIn(v \cup {d}, e) = IndexIn(v, e) + 1
<1> DEFINE First(e) == {x \in v : Before(x, e)}
           NewFirst(e) == {x \in v \cup {d} : Before(x, e)}
<1>0. /\ IsFiniteSet(v) /\ v \subseteq Docs /\ Cardinality(v) \in Nat
      /\ \A e \in v : e.id # d.id
    BY ViewFacts DEF IdsOf
<1>1. v \cup {d} \in Views /\ Cardinality(v \cup {d}) = Cardinality(v) + 1
    <2>1. d \notin v
        BY <1>0
    <2>2. IsFiniteSet(v \cup {d}) /\ Cardinality(v \cup {d}) = Cardinality(v) + 1
        BY <1>0, <2>1, FS_AddElement
    <2>3. v \cup {d} \in SUBSET Docs
        BY <1>0
    <2>4. \A a, b \in v \cup {d} : a.id = b.id => a = b
        BY <1>0, ViewFacts
    <2> QED
        BY <2>2, <2>3, <2>4 DEF Views
<1>2. \A e : IndexIn(v, e) = Cardinality(First(e)) /\ IndexIn(v \cup {d}, e) = Cardinality(NewFirst(e))
    BY DEF IndexIn
<1>3. \A e : IsFiniteSet(First(e)) /\ Cardinality(First(e)) \in Nat /\ d \notin First(e)
    <2>1. \A e : First(e) \in SUBSET v /\ d \notin First(e)
        BY <1>0
    <2> HIDE DEF First
    <2> QED
        BY <1>0, <2>1, FS_Subset, FS_CardinalityType
<1>4. NewFirst(d) = First(d)
    BY <1>0, BeforeFacts
<1>5. ASSUME NEW e \in v
      PROVE  \/ IndexIn(v, e) < IndexIn(v, d) /\ IndexIn(v \cup {d}, e) = IndexIn(v, e)
             \/ IndexIn(v, d) <= IndexIn(v, e) /\ IndexIn(v \cup {d}, e) = IndexIn(v, e) + 1
    <2>0. e \in Docs /\ e.id # d.id
        BY <1>0
    <2>1. CASE Before(e, d)
        <3>1. ~Before(d, e)
            BY <2>0, <2>1, BeforeFacts
        <3>2. NewFirst(e) = First(e)
            BY <3>1
        <3>3. IndexIn(v, e) < IndexIn(v, d)
            BY <2>1, IndexFacts
        <3> HIDE DEF First, NewFirst
        <3> QED
            BY <1>2, <3>2, <3>3
    <2>2. CASE ~Before(e, d)
        <3>1. Before(d, e)
            BY <2>0, <2>2, BeforeFacts
        <3>2. NewFirst(e) = First(e) \cup {d}
            BY <3>1
        <3>3. First(d) \in SUBSET First(e)
            BY <1>0, <2>0, <3>1, BeforeFacts
        <3> HIDE DEF First, NewFirst
        <3>4. Cardinality(First(d)) <= Cardinality(First(e))
            BY <1>3, <3>3, FS_Subset
        <3>5. Cardinality(NewFirst(e)) = Cardinality(First(e)) + 1
            BY <1>3, <3>2, FS_AddElement
        <3> QED
            BY <1>2, <3>4, <3>5
    <2> QED
        BY <2>1, <2>2
<1>6. IndexIn(v, d) \in 0..Cardinality(v)
    BY IndexFacts
<1> QED
    BY <1>1, <1>2, <1>4, <1>5, <1>6

\* An inserted document stands where its index says, and the rest in order.
LEMMA InsertOrdered ==
    ASSUME NEW v \in Views, NEW d \in Docs, d.id \notin IdsOf(v)
    PROVE  /\ IndexIn(v \cup {d}, d) \in 0..Cardinality(v)
           /\ InsertAt(Ordered(v), IndexIn(v \cup {d}, d) + 1, d) = Ordered(v \cup {d})
<1> DEFINE w == v \cup {d}
           p == IndexIn(w, d)
           s == Ordered(v)
           n == Cardinality(v)
           t == InsertAt(s, p + 1, d)
<1>1. /\ w \in Views /\ Cardinality(w) = n + 1 /\ p = IndexIn(v, d) /\ p \in 0..n
      /\ \A e \in v : \/ IndexIn(v, e) < p /\ IndexIn(w, e) = IndexIn(v, e)
                      \/ p <= IndexIn(v, e) /\ IndexIn(w, e) = IndexIn(v, e) + 1
    BY IndexWith
<1>2. /\ s \in Seq(Docs) /\ Len(s) = n /\ n \in Nat
      /\ \A i \in 1..n : s[i] \in v /\ IndexIn(v, s[i]) = i - 1
    BY OrderedFacts, ViewFacts
<1>3. d \in w /\ v \subseteq w
    OBVIOUS
<1>4. IndexIn(w, d) = p
    OBVIOUS
<1> HIDE DEF w, p, s, n
<1>5. /\ t \in Seq(Docs) /\ Len(t) = n + 1
      /\ \A i \in 1..p : t[i] = s[i]
      /\ t[p + 1] = d
      /\ \A i \in p + 1..n : t[i + 1] = s[i]
    <2>1. s \in Seq(Docs) /\ p \in 0..Len(s) /\ d \in Docs
        BY <1>1, <1>2
    <2>2. /\ t \in Seq(Docs) /\ Len(t) = Len(s) + 1
          /\ \A i \in 1..p : t[i] = s[i]
          /\ t[p + 1] = d
          /\ \A i \in p + 1..Len(s) : t[i + 1] = s[i]
        BY ONLY <2>1, InsertFacts
    <2> HIDE DEF t
    <2> QED
        BY <1>2, <2>2
<1> HIDE DEF t
<1>6. ASSUME NEW i \in 1..n + 1 PROVE t[i] \in w /\ IndexIn(w, t[i]) = i - 1
    <2>1. CASE i <= p
        <3>1. i \in 1..p /\ i \in 1..n /\ i - 1 < p
            BY <1>1, <1>2, <2>1
        <3>2. t[i] = s[i] /\ s[i] \in v /\ IndexIn(v, s[i]) = i - 1
            BY <1>2, <1>5, <3>1
        <3>3. IndexIn(w, s[i]) = i - 1
            BY <1>1, <3>1, <3>2
        <3> QED
            BY <1>3, <3>2, <3>3
    <2>2. CASE i = p + 1
        BY <1>1, <1>3, <1>4, <1>5, <2>2
    <2>3. CASE i > p + 1
        <3> DEFINE j == i - 1
        <3>1. j \in p + 1..n /\ j \in 1..n /\ j + 1 = i /\ ~(j - 1 < p) /\ j - 1 + 1 = j
            BY <1>1, <1>2, <2>3
        <3> HIDE DEF j
        <3>2. t[i] = s[j] /\ s[j] \in v /\ IndexIn(v, s[j]) = j - 1
            BY <1>2, <1>5, <3>1
        <3>3. IndexIn(w, s[j]) = j - 1 + 1
            BY <1>1, <3>1, <3>2
        <3> QED
            BY <1>3, <3>1, <3>2, <3>3 DEF j
    <2> QED
        BY <1>1, <1>2, <2>1, <2>2, <2>3
<1>7. t = Ordered(w)
    BY <1>1, <1>5, <1>6, OrderedIs
<1> QED
    BY <1>1, <1>7 DEF w, p, s, t, n

LEMMA RemoveInserted ==
    ASSUME NEW s \in Seq(Docs), NEW p \in 0..Len(s), NEW d \in Docs
    PROVE  RemoveAt(InsertAt(s, p + 1, d), p + 1) = s
<1> DEFINE t == InsertAt(s, p + 1, d)
           r == RemoveAt(t, p + 1)
           n == Len(s)
<1>1. /\ t \in Seq(Docs) /\ Len(t) = n + 1 /\ n \in Nat
      /\ \A i \in 1..p : t[i] = s[i]
      /\ \A i \in p + 1..n : t[i + 1] = s[i]
    <2>1. s \in Seq(Docs) /\ p \in 0..Len(s) /\ d \in Docs /\ n \in Nat
        OBVIOUS
    <2>2. /\ t \in Seq(Docs) /\ Len(t) = Len(s) + 1
          /\ \A i \in 1..p : t[i] = s[i]
          /\ t[p + 1] = d
          /\ \A i \in p + 1..Len(s) : t[i + 1] = s[i]
        BY ONLY <2>1, InsertFacts
    <2> HIDE DEF t
    <2> QED
        BY <2>1, <2>2
<1>2. p \in 0..Len(t) - 1 /\ Len(t) - 1 = n /\ p \in 0..n
    BY <1>1
<1> HIDE DEF t, n
<1>3. /\ r \in Seq(Docs) /\ Len(r) = n
      /\ \A i \in 1..p : r[i] = t[i]
      /\ \A i \in p + 1..n : r[i] = t[i + 1]
    BY <1>1, <1>2, RemoveFacts
<1>4. ASSUME NEW i \in 1..n PROVE r[i] = s[i]
    <2>1. i \in 1..p \/ i \in p + 1..n
        BY <1>1, <1>2
    <2> QED
        BY <2>1, <1>1, <1>3
<1>5. n = Len(s)
    BY DEF n
<1> HIDE DEF r
<1>6. r = s
    BY <1>3, <1>4, <1>5, SeqEqual
<1> QED
    BY <1>6 DEF r, t

\* Taking out the row at a document's index leaves the others in order.
LEMMA RemoveOrdered ==
    ASSUME NEW v \in Views, NEW g \in v
    PROVE  /\ v \ {g} \in Views /\ g \in Docs /\ g.id \notin IdsOf(v \ {g})
           /\ Cardinality(v \ {g}) = Cardinality(v) - 1
           /\ IndexIn(v, g) \in 0..Cardinality(v) - 1
           /\ RemoveAt(Ordered(v), IndexIn(v, g) + 1) = Ordered(v \ {g})
<1> DEFINE w == v \ {g}
<1>1. w \in Views /\ g \in Docs /\ g.id \notin IdsOf(w) /\ w \cup {g} = v
    BY ViewFacts DEF IdsOf
<1>2. Cardinality(w) = Cardinality(v) - 1
    BY ViewFacts, FS_RemoveElement
<1>3. IndexIn(v, g) \in 0..Cardinality(v) - 1
    BY IndexFacts
<1> HIDE DEF w
<1>4. /\ IndexIn(v, g) \in 0..Cardinality(w)
      /\ InsertAt(Ordered(w), IndexIn(v, g) + 1, g) = Ordered(v)
    BY <1>1, InsertOrdered
<1>5. Ordered(w) \in Seq(Docs) /\ Len(Ordered(w)) = Cardinality(w)
    BY <1>1, OrderedFacts
<1>6. RemoveAt(Ordered(v), IndexIn(v, g) + 1) = Ordered(w)
    BY <1>1, <1>4, <1>5, RemoveInserted
<1> QED
    BY <1>1, <1>2, <1>3, <1>6 DEF w

-----------------------------------------------------------------------------
(* Recursive functions. *)

LEMMA HasGreatest ==
    ASSUME NEW S, S \subseteq Nat, S # {}, NEW b \in Nat, \A n \in S : n <= b
    PROVE  \E n \in S : \A m \in S : m <= n
<1> DEFINE R == {ss \in Nat \X Nat : ss[1] < ss[2]}
           Bounds == {n \in Nat : \A m \in S : m <= n}
<1>1. IsWellFoundedOn(R, Nat)
    BY NatLessThanWellFounded DEF OpToRel
<1>2. PICK n \in Bounds : \A y \in Bounds : ~(<<y, n>> \in R)
    <2>1. Bounds \subseteq Nat /\ b \in Bounds
        OBVIOUS
    <2> HIDE DEF R, Bounds
    <2> QED
        BY <1>1, <2>1, WFMin
<1>3. \A y \in Bounds : ~(y < n)
    BY <1>2
<1>4. n \in S
    <2>1. SUFFICES ASSUME n \notin S PROVE FALSE
        OBVIOUS
    <2>2. PICK m \in S : TRUE
        OBVIOUS
    <2>3. n > 0 /\ n - 1 \in Nat
        BY <2>1, <2>2
    <2>4. n - 1 \in Bounds
        BY <2>1, <2>3
    <2> QED
        BY <2>4, <2>3, <1>3
<1> QED
    BY <1>4

\* What holds at 0 and is handed from each number to the next holds up to N.
LEMMA Climb ==
    ASSUME NEW N \in Nat, NEW S, 0 \in S, \A n \in 0..N - 1 : n \in S => n + 1 \in S
    PROVE  \A n \in 0..N : n \in S
<1> TAKE m \in 0..N
<1> DEFINE T == {n \in 0..m : n \in S}
<1>1. T \subseteq Nat /\ 0 \in T /\ m \in Nat /\ \A n \in T : n <= m
    OBVIOUS
<1>2. PICK g \in T : \A n \in T : n <= g
    <2> HIDE DEF T
    <2>1. T # {}
        BY <1>1
    <2> QED
        BY <1>1, <2>1, HasGreatest
<1>3. CASE g = m
    BY <1>3
<1>4. CASE g # m
    <2>1. g \in 0..N - 1 /\ g + 1 \in 0..m /\ g \in S
        BY <1>4
    <2>2. g + 1 \in T
        BY <2>1
    <2>3. g + 1 <= g
        BY <1>2, <2>2
    <2> QED
        BY <2>1, <2>3
<1> QED
    BY <1>3, <1>4

\* The results on the way are what their recursive definition says.
LEMMA TrackingFacts ==
    ASSUME NEW old, NEW kinds, Len(kinds) \in Nat
    PROVE  /\ Tracking(old, kinds)[0] = old
           /\ \A n \in 0..Len(kinds) - 1 :
                 Tracking(old, kinds)[n + 1] = Tracked(Tracking(old, kinds)[n], kinds[n + 1])
<1> DEFINE N == Len(kinds)
           Upto(f, n) == f = [m \in 0..n |-> IF m = 0 THEN old ELSE Tracked(f[m - 1], kinds[m])]
           S == {n \in 0..N : \E f : Upto(f, n)}
<1>1. 0 \in S
    <2> DEFINE f == [m \in 0..0 |-> old]
    <2>1. Upto(f, 0)
        OBVIOUS
    <2>2. 0 \in 0..N
        OBVIOUS
    <2> HIDE DEF f, Upto
    <2> QED
        BY <2>1, <2>2
<1>2. ASSUME NEW n \in 0..N - 1, n \in S PROVE n + 1 \in S
    <2>1. PICK f : Upto(f, n)
        BY <1>2
    <2> DEFINE g == [m \in 0..n + 1 |-> IF m = n + 1 THEN Tracked(f[n], kinds[n + 1]) ELSE f[m]]
    <2>2. n \in Nat /\ n + 1 \in 0..N
        OBVIOUS
    <2>3. \A m \in 0..n : f[m] = IF m = 0 THEN old ELSE Tracked(f[m - 1], kinds[m])
        BY <2>1, Zenon
    <2>4. ASSUME NEW m \in 0..n + 1
          PROVE  g[m] = IF m = 0 THEN old ELSE Tracked(g[m - 1], kinds[m])
        <3>1. CASE m = n + 1
            <4>1. m # 0 /\ m - 1 = n /\ n \in 0..n + 1 /\ n # n + 1
                BY <2>2, <3>1
            <4>2. g[m] = Tracked(f[n], kinds[n + 1]) /\ g[n] = f[n]
                BY <3>1, <4>1
            <4> QED
                BY <3>1, <4>1, <4>2
        <3>2. CASE m # n + 1
            <4>1. m \in 0..n
                BY <2>2, <3>2
            <4>2. g[m] = f[m]
                BY <3>2
            <4>3. CASE m = 0
                BY <2>3, <4>1, <4>2, <4>3
            <4>4. CASE m # 0
                <5>1. m - 1 \in 0..n + 1 /\ m - 1 # n + 1
                    BY <2>2, <4>1, <4>4
                <5>2. g[m - 1] = f[m - 1]
                    BY <5>1
                <5> QED
                    BY <2>3, <4>1, <4>2, <4>4, <5>2
            <4> QED
                BY <4>3, <4>4
        <3> QED
            BY <3>1, <3>2
    <2>5. Upto(g, n + 1)
        <3>1. g = [m \in 0..n + 1 |-> g[m]]
            OBVIOUS
        <3> HIDE DEF g
        <3> QED
            BY <2>4, <3>1
    <2> HIDE DEF Upto, g
    <2> QED
        BY <2>2, <2>5
<1>3. N \in S
    <2>1. N \in Nat /\ N \in 0..N
        OBVIOUS
    <2> HIDE DEF S, N
    <2> QED
        BY <1>1, <1>2, <2>1, Climb
<1>4. Upto(Tracking(old, kinds), N)
    <2>1. \E f : Upto(f, N)
        BY <1>3
    <2>2. Tracking(old, kinds) = CHOOSE f : Upto(f, N)
        BY DEF Tracking
    <2> HIDE DEF Upto
    <2> QED
        BY <2>1, <2>2
<1> DEFINE view == Tracking(old, kinds)
<1>5. \A m \in 0..N : view[m] = IF m = 0 THEN old ELSE Tracked(view[m - 1], kinds[m])
    <2> HIDE DEF view
    <2> QED
        BY <1>4, Zenon DEF view
<1> HIDE DEF view
<1>6. view[0] = old
    BY <1>5
<1>7. ASSUME NEW n \in 0..N - 1 PROVE view[n + 1] = Tracked(view[n], kinds[n + 1])
    <2> DEFINE m == n + 1
    <2>1. m \in 0..N /\ m # 0 /\ m - 1 = n
        OBVIOUS
    <2> HIDE DEF m
    <2>2. view[m] = Tracked(view[n], kinds[m])
        BY <1>5, <2>1
    <2> QED
        BY <2>2 DEF m
<1> QED
    BY <1>6, <1>7 DEF view

\* So are the rows after each change of a snapshot.
LEMMA RowsFacts ==
    ASSUME NEW array, NEW changes, Len(changes) \in Nat
    PROVE  /\ RowsDuring(array, changes)[0] = array
           /\ \A n \in 0..Len(changes) - 1 :
                 RowsDuring(array, changes)[n + 1] = Apply(RowsDuring(array, changes)[n], changes[n + 1])
<1> DEFINE N == Len(changes)
           Upto(f, n) == f = [m \in 0..n |-> IF m = 0 THEN array ELSE Apply(f[m - 1], changes[m])]
           S == {n \in 0..N : \E f : Upto(f, n)}
<1>1. 0 \in S
    <2> DEFINE f == [m \in 0..0 |-> array]
    <2>1. Upto(f, 0)
        OBVIOUS
    <2>2. 0 \in 0..N
        OBVIOUS
    <2> HIDE DEF f, Upto
    <2> QED
        BY <2>1, <2>2
<1>2. ASSUME NEW n \in 0..N - 1, n \in S PROVE n + 1 \in S
    <2>1. PICK f : Upto(f, n)
        BY <1>2
    <2> DEFINE g == [m \in 0..n + 1 |-> IF m = n + 1 THEN Apply(f[n], changes[n + 1]) ELSE f[m]]
    <2>2. n \in Nat /\ n + 1 \in 0..N
        OBVIOUS
    <2>3. \A m \in 0..n : f[m] = IF m = 0 THEN array ELSE Apply(f[m - 1], changes[m])
        BY <2>1, Zenon
    <2>4. ASSUME NEW m \in 0..n + 1
          PROVE  g[m] = IF m = 0 THEN array ELSE Apply(g[m - 1], changes[m])
        <3>1. CASE m = n + 1
            <4>1. m # 0 /\ m - 1 = n /\ n \in 0..n + 1 /\ n # n + 1
                BY <2>2, <3>1
            <4>2. g[m] = Apply(f[n], changes[n + 1]) /\ g[n] = f[n]
                BY <3>1, <4>1
            <4> QED
                BY <3>1, <4>1, <4>2
        <3>2. CASE m # n + 1
            <4>1. m \in 0..n
                BY <2>2, <3>2
            <4>2. g[m] = f[m]
                BY <3>2
            <4>3. CASE m = 0
                BY <2>3, <4>1, <4>2, <4>3
            <4>4. CASE m # 0
                <5>1. m - 1 \in 0..n + 1 /\ m - 1 # n + 1
                    BY <2>2, <4>1, <4>4
                <5>2. g[m - 1] = f[m - 1]
                    BY <5>1
                <5> QED
                    BY <2>3, <4>1, <4>2, <4>4, <5>2
            <4> QED
                BY <4>3, <4>4
        <3> QED
            BY <3>1, <3>2
    <2>5. Upto(g, n + 1)
        <3>1. g = [m \in 0..n + 1 |-> g[m]]
            OBVIOUS
        <3> HIDE DEF g
        <3> QED
            BY <2>4, <3>1
    <2> HIDE DEF Upto, g
    <2> QED
        BY <2>2, <2>5
<1>3. N \in S
    <2>1. N \in Nat /\ N \in 0..N
        OBVIOUS
    <2> HIDE DEF S, N
    <2> QED
        BY <1>1, <1>2, <2>1, Climb
<1>4. Upto(RowsDuring(array, changes), N)
    <2>1. \E f : Upto(f, N)
        BY <1>3
    <2>2. RowsDuring(array, changes) = CHOOSE f : Upto(f, N)
        BY DEF RowsDuring
    <2> HIDE DEF Upto
    <2> QED
        BY <2>1, <2>2
<1> DEFINE rows == RowsDuring(array, changes)
<1>5. \A m \in 0..N : rows[m] = IF m = 0 THEN array ELSE Apply(rows[m - 1], changes[m])
    <2> HIDE DEF rows
    <2> QED
        BY <1>4, Zenon DEF rows
<1> HIDE DEF rows
<1>6. rows[0] = array
    BY <1>5
<1>7. ASSUME NEW n \in 0..N - 1 PROVE rows[n + 1] = Apply(rows[n], changes[n + 1])
    <2> DEFINE m == n + 1
    <2>1. m \in 0..N /\ m # 0 /\ m - 1 = n
        OBVIOUS
    <2> HIDE DEF m
    <2>2. rows[m] = Apply(rows[n], changes[m])
        BY <1>5, <2>1
    <2> QED
        BY <2>2 DEF m
<1> QED
    BY <1>6, <1>7 DEF rows

-----------------------------------------------------------------------------
(* The changes of a snapshot. *)

KindSet == [type : {"removed", "added", "modified"}, doc : Docs]

\* The three documents lists of a snapshot.
Gone(old, new) == {d \in old : d.id \notin IdsOf(new)}
Come(old, new) == {d \in new : d.id \notin IdsOf(old)}
Altered(old, new) == {d \in new \ old : d.id \in IdsOf(old)}

LEMMA TypedFacts ==
    ASSUME NEW type \in {"removed", "added", "modified"}, NEW v \in Views
    PROVE  /\ Typed(type, v) \in Seq(KindSet) /\ Len(Typed(type, v)) = Cardinality(v)
           /\ Cardinality(v) \in Nat
           /\ \A i \in 1..Cardinality(v) : /\ Typed(type, v)[i].type = type
                                           /\ Typed(type, v)[i].doc \in v
           /\ \A i, j \in 1..Cardinality(v) :
                 Typed(type, v)[i].doc.id = Typed(type, v)[j].doc.id => i = j
           /\ \A d \in v : \E i \in 1..Cardinality(v) : Typed(type, v)[i].doc = d
<1> DEFINE n == Cardinality(v)
           t == Typed(type, v)
           s == Ordered(v)
<1>1. t = [i \in 1..n |-> [type |-> type, doc |-> s[i]]]
    BY DEF Typed
<1>2. /\ s \in Seq(Docs) /\ Len(s) = n /\ n \in Nat
      /\ \A i \in 1..n : s[i] \in v /\ s[i] \in Docs /\ IndexIn(v, s[i]) = i - 1
      /\ \A d \in v : s[IndexIn(v, d) + 1] = d /\ IndexIn(v, d) \in 0..n - 1
      /\ \A d, e \in v : d # e => d.id # e.id
    BY OrderedFacts, ViewFacts, IndexFacts
<1> HIDE DEF n, t, s
<1>3. ASSUME NEW i \in 1..n PROVE t[i].type = type /\ t[i].doc = s[i] /\ t[i] \in KindSet
    BY <1>1, <1>2 DEF KindSet
<1>4. t \in Seq(KindSet) /\ Len(t) = n
    <2>1. DOMAIN t = 1..n /\ t \in [1..n -> KindSet]
        BY <1>1, <1>2 DEF KindSet
    <2> QED
        BY <1>2, <2>1
<1>5. ASSUME NEW i \in 1..n, NEW j \in 1..n, t[i].doc.id = t[j].doc.id PROVE i = j
    <2>1. s[i] = s[j]
        BY <1>2, <1>3, <1>5
    <2>2. i - 1 = j - 1
        BY <1>2, <2>1
    <2> QED
        BY <2>2
<1>6. ASSUME NEW d \in v PROVE \E i \in 1..n : t[i].doc = d
    <2> DEFINE i == IndexIn(v, d) + 1
    <2>1. i \in 1..n /\ s[i] = d
        BY <1>2
    <2> HIDE DEF i
    <2> QED
        BY <1>3, <2>1
<1> QED
    BY <1>2, <1>3, <1>4, <1>5, <1>6 DEF n, t

LEMMA KindsFacts ==
    ASSUME NEW old \in Views, NEW new \in Views
    PROVE  LET K == Kinds(old, new)
           IN  /\ K \in Seq(KindSet)
               /\ \A i \in 1..Len(K) :
                     \/ K[i].type = "removed" /\ K[i].doc \in Gone(old, new)
                     \/ K[i].type = "added" /\ K[i].doc \in Come(old, new)
                     \/ K[i].type = "modified" /\ K[i].doc \in Altered(old, new)
               /\ \A i, j \in 1..Len(K) : K[i].doc.id = K[j].doc.id => i = j
               /\ \A d \in Gone(old, new) \cup Come(old, new) \cup Altered(old, new) :
                     \E i \in 1..Len(K) : K[i].doc = d
<1> DEFINE G == Gone(old, new)
           C == Come(old, new)
           A == Altered(old, new)
           r == Typed("removed", G)
           a == Typed("added", C)
           m == Typed("modified", A)
           f == r \o a
           K == f \o m
           x == Len(r)
           y == Len(a)
           z == Len(m)
<1>1. G \in Views /\ C \in Views /\ A \in Views
    BY ViewFacts DEF Gone, Come, Altered
<1>2. Kinds(old, new) = K
    BY DEF Kinds, Gone, Come, Altered
<1>3. /\ \A d \in G, e \in C : d.id # e.id
      /\ \A d \in G, e \in A : d.id # e.id
      /\ \A d \in C, e \in A : d.id # e.id
    BY DEF Gone, Come, Altered, IdsOf
<1> HIDE DEF G, C, A
<1>4. /\ r \in Seq(KindSet) /\ x \in Nat
      /\ \A i \in 1..x : r[i].type = "removed" /\ r[i].doc \in G
      /\ \A i, j \in 1..x : r[i].doc.id = r[j].doc.id => i = j
      /\ \A d \in G : \E i \in 1..x : r[i].doc = d
    BY <1>1, TypedFacts
<1>5. /\ a \in Seq(KindSet) /\ y \in Nat
      /\ \A i \in 1..y : a[i].type = "added" /\ a[i].doc \in C
      /\ \A i, j \in 1..y : a[i].doc.id = a[j].doc.id => i = j
      /\ \A d \in C : \E i \in 1..y : a[i].doc = d
    BY <1>1, TypedFacts
<1>6. /\ m \in Seq(KindSet) /\ z \in Nat
      /\ \A i \in 1..z : m[i].type = "modified" /\ m[i].doc \in A
      /\ \A i, j \in 1..z : m[i].doc.id = m[j].doc.id => i = j
      /\ \A d \in A : \E i \in 1..z : m[i].doc = d
    BY <1>1, TypedFacts
<1> HIDE DEF r, a, m
<1>7. /\ f \in Seq(KindSet) /\ Len(f) = x + y
      /\ \A i \in 1..x : f[i] = r[i]
      /\ \A i \in 1..y : f[x + i] = a[i]
    BY <1>4, <1>5, ConcatFacts
<1> HIDE DEF f
<1>8. /\ K \in Seq(KindSet) /\ Len(K) = x + y + z
      /\ \A i \in 1..x + y : K[i] = f[i]
      /\ \A i \in 1..z : K[x + y + i] = m[i]
    <2>0. f \in Seq(KindSet) /\ m \in Seq(KindSet)
        BY <1>6, <1>7
    <2>1. /\ K \in Seq(KindSet) /\ Len(K) = Len(f) + Len(m)
          /\ \A i \in 1..Len(f) : K[i] = f[i]
          /\ \A i \in 1..Len(m) : K[Len(f) + i] = m[i]
        BY ONLY <2>0, ConcatFacts
    <2> HIDE DEF K
    <2> QED
        BY <1>7, <2>1
<1> HIDE DEF K, x, y, z
<1>9. /\ \A i \in 1..x : i \in 1..Len(K) /\ K[i] = r[i]
      /\ \A i \in 1..y : x + i \in 1..Len(K) /\ K[x + i] = a[i]
      /\ \A i \in 1..z : x + y + i \in 1..Len(K) /\ K[x + y + i] = m[i]
    <2>1. /\ \A i \in 1..x : i \in 1..Len(K) /\ i \in 1..x + y
          /\ \A i \in 1..y : x + i \in 1..Len(K) /\ x + i \in 1..x + y
          /\ \A i \in 1..z : x + y + i \in 1..Len(K)
        BY <1>4, <1>5, <1>6, <1>8
    <2> QED
        BY <1>7, <1>8, <2>1
<1>10. ASSUME NEW i \in 1..Len(K)
       PROVE  \/ i \in 1..x /\ K[i] = r[i]
              \/ i - x \in 1..y /\ K[i] = a[i - x]
              \/ i - x - y \in 1..z /\ K[i] = m[i - x - y]
    <2>1. \/ i \in 1..x
          \/ i - x \in 1..y /\ x + (i - x) = i
          \/ i - x - y \in 1..z /\ x + y + (i - x - y) = i
        BY <1>4, <1>5, <1>6, <1>8
    <2> QED
        BY <1>9, <2>1
<1>11. ASSUME NEW i \in 1..Len(K)
       PROVE  \/ i \in 1..x /\ K[i] = r[i] /\ K[i].type = "removed" /\ K[i].doc \in G
              \/ i - x \in 1..y /\ K[i] = a[i - x] /\ K[i].type = "added" /\ K[i].doc \in C
              \/ /\ i - x - y \in 1..z /\ K[i] = m[i - x - y]
                 /\ K[i].type = "modified" /\ K[i].doc \in A
    <2>1. CASE i \in 1..x /\ K[i] = r[i]
        BY <1>4, <2>1
    <2>2. CASE i - x \in 1..y /\ K[i] = a[i - x]
        BY <1>5, <2>2
    <2>3. CASE i - x - y \in 1..z /\ K[i] = m[i - x - y]
        BY <1>6, <2>3
    <2> QED
        BY <1>10, <2>1, <2>2, <2>3
<1>12. ASSUME NEW i \in 1..Len(K), NEW j \in 1..Len(K), K[i].doc.id = K[j].doc.id PROVE i = j
    <2>1. CASE i \in 1..x /\ K[i] = r[i] /\ K[i].doc \in G
        <3>1. j \in 1..x /\ K[j] = r[j]
            BY <1>3, <1>11, <1>12, <2>1
        <3> QED
            BY <1>4, <1>12, <2>1, <3>1
    <2>2. CASE i - x \in 1..y /\ K[i] = a[i - x] /\ K[i].doc \in C
        <3>1. j - x \in 1..y /\ K[j] = a[j - x]
            BY <1>3, <1>11, <1>12, <2>2
        <3> DEFINE ii == i - x
                   jj == j - x
        <3>2. ii \in 1..y /\ jj \in 1..y /\ a[ii].doc.id = a[jj].doc.id
            BY <1>12, <2>2, <3>1
        <3>3. i = x + ii /\ j = x + jj
            BY <1>4
        <3> HIDE DEF ii, jj
        <3>4. ii = jj
            BY <1>5, <3>2
        <3> QED
            BY <3>3, <3>4
    <2>3. CASE i - x - y \in 1..z /\ K[i] = m[i - x - y] /\ K[i].doc \in A
        <3>1. j - x - y \in 1..z /\ K[j] = m[j - x - y]
            BY <1>3, <1>11, <1>12, <2>3
        <3> DEFINE ii == i - x - y
                   jj == j - x - y
        <3>2. ii \in 1..z /\ jj \in 1..z /\ m[ii].doc.id = m[jj].doc.id
            BY <1>12, <2>3, <3>1
        <3>3. i = x + y + ii /\ j = x + y + jj
            BY <1>4, <1>5
        <3> HIDE DEF ii, jj
        <3>4. ii = jj
            BY <1>6, <3>2
        <3> QED
            BY <3>3, <3>4
    <2> QED
        BY <1>11, <2>1, <2>2, <2>3
<1>13. ASSUME NEW d \in G \cup C \cup A PROVE \E i \in 1..Len(K) : K[i].doc = d
    <2>1. CASE d \in G
        BY <1>4, <1>9, <2>1
    <2>2. CASE d \in C
        BY <1>5, <1>9, <2>2
    <2>3. CASE d \in A
        BY <1>6, <1>9, <2>3
    <2> QED
        BY <1>13, <2>1, <2>2, <2>3
<1>14. /\ K \in Seq(KindSet)
       /\ \A i \in 1..Len(K) :
             \/ K[i].type = "removed" /\ K[i].doc \in G
             \/ K[i].type = "added" /\ K[i].doc \in C
             \/ K[i].type = "modified" /\ K[i].doc \in A
       /\ \A i, j \in 1..Len(K) : K[i].doc.id = K[j].doc.id => i = j
       /\ \A d \in G \cup C \cup A : \E i \in 1..Len(K) : K[i].doc = d
    BY <1>8, <1>11, <1>12, <1>13
<1> QED
    BY <1>2, <1>14 DEF G, C, A

-----------------------------------------------------------------------------
(* One change. *)

\* A change that a result can undergo.
Fitting(v, k) ==
    /\ k \in KindSet
    /\ k.type = "added" => k.doc.id \notin IdsOf(v)
    /\ k.type # "added" => k.doc.id \in IdsOf(v)

LEMMA TrackedFacts ==
    ASSUME NEW v \in Views, NEW k, Fitting(v, k)
    PROVE  /\ Tracked(v, k) \in Views
           /\ IdsOf(Tracked(v, k)) = IF k.type = "removed" THEN IdsOf(v) \ {k.doc.id}
                                     ELSE IdsOf(v) \cup {k.doc.id}
<1> DEFINE w == {d \in v : d.id # k.doc.id}
<1>1. w \in Views /\ IdsOf(w) = IdsOf(v) \ {k.doc.id}
    <2>1. w \in SUBSET v
        OBVIOUS
    <2>2. w \in Views
        <3> HIDE DEF w
        <3> QED
            BY <2>1, ViewFacts
    <2> QED
        BY <2>2 DEF IdsOf
<1>2. Tracked(v, k) = IF k.type = "removed" THEN w ELSE w \cup {k.doc}
    BY DEF Tracked
<1>3. k.doc \in Docs /\ k.doc.id \notin IdsOf(w)
    BY <1>1 DEF Fitting, KindSet
<1> HIDE DEF w
<1>4. w \cup {k.doc} \in Views
    BY <1>1, <1>3, IndexWith
<1>5. IdsOf(w \cup {k.doc}) = IdsOf(v) \cup {k.doc.id}
    BY <1>1 DEF IdsOf
<1> QED
    BY <1>1, <1>2, <1>4, <1>5

\* A replaced row.
LEMMA ReplaceIs ==
    ASSUME NEW s \in Seq(Docs), NEW p \in 0..Len(s), NEW d \in Docs, NEW g \in Docs
    PROVE  [InsertAt(s, p + 1, g) EXCEPT ![p + 1] = d] = InsertAt(s, p + 1, d)
<1> DEFINE t == InsertAt(s, p + 1, g)
           u == InsertAt(s, p + 1, d)
           r == [t EXCEPT ![p + 1] = d]
<1>0. s \in Seq(Docs) /\ p \in 0..Len(s) /\ Len(s) \in Nat
    OBVIOUS
<1>1. \A e \in Docs :
          /\ InsertAt(s, p + 1, e) \in Seq(Docs)
          /\ Len(InsertAt(s, p + 1, e)) = Len(s) + 1
          /\ \A i \in 1..p : InsertAt(s, p + 1, e)[i] = s[i]
          /\ InsertAt(s, p + 1, e)[p + 1] = e
          /\ \A i \in p + 1..Len(s) : InsertAt(s, p + 1, e)[i + 1] = s[i]
    <2> TAKE e \in Docs
    <2>1. s \in Seq(Docs) /\ p \in 0..Len(s) /\ e \in Docs
        BY <1>0
    <2> QED
        BY ONLY <2>1, InsertFacts
<1>2. /\ t \in Seq(Docs) /\ Len(t) = Len(s) + 1
      /\ \A i \in 1..p : t[i] = s[i]
      /\ \A i \in p + 1..Len(s) : t[i + 1] = s[i]
      /\ u \in Seq(Docs) /\ Len(u) = Len(s) + 1 /\ u[p + 1] = d
      /\ \A i \in 1..p : u[i] = s[i]
      /\ \A i \in p + 1..Len(s) : u[i + 1] = s[i]
    BY <1>1
<1> HIDE DEF t, u
<1>3. r \in Seq(Docs) /\ Len(r) = Len(s) + 1
    BY <1>0, <1>2
<1>4. ASSUME NEW i \in 1..Len(r) PROVE r[i] = u[i]
    <2>1. DOMAIN t = 1..Len(s) + 1 /\ i \in 1..Len(s) + 1
        BY <1>2, <1>3
    <2>2. CASE i = p + 1
        BY <1>2, <2>1, <2>2
    <2>3. CASE i # p + 1
        <3>1. r[i] = t[i]
            BY <2>1, <2>3
        <3> HIDE DEF r
        <3>2. CASE i \in 1..p
            BY <1>2, <3>1, <3>2
        <3>3. CASE i \notin 1..p
            <4> DEFINE j == i - 1
            <4>1. j \in p + 1..Len(s) /\ j + 1 = i
                BY <1>0, <2>1, <2>3, <3>3
            <4> HIDE DEF j
            <4>2. t[j + 1] = u[j + 1]
                BY <1>2, <4>1
            <4> QED
                BY <3>1, <4>1, <4>2
        <3> QED
            BY <3>2, <3>3
    <2> QED
        BY <2>2, <2>3
<1> HIDE DEF r
<1>5. r = u
    BY <1>2, <1>3, <1>4, SeqEqual
<1> QED
    BY <1>5 DEF r, t, u

\* A handler that is given the rows in order leaves them in order.
LEMMA ApplyOrdered ==
    ASSUME NEW v \in Views, NEW k, Fitting(v, k)
    PROVE  LET change == ChangeBetween(v, Tracked(v, k), k)
           IN  /\ FitsRow(Ordered(v), change)
               /\ Apply(Ordered(v), change) = Ordered(Tracked(v, k))
<1> DEFINE w == {d \in v : d.id # k.doc.id}
           T == Tracked(v, k)
           g == CHOOSE d \in v : d.id = k.doc.id
           c == ChangeBetween(v, T, k)
           s == Ordered(v)
           n == Cardinality(v)
<1>0. /\ k.doc \in Docs /\ k.type \in {"removed", "added", "modified"}
      /\ s \in Seq(Docs) /\ Len(s) = n /\ n \in Nat
    BY OrderedFacts, ViewFacts DEF Fitting, KindSet
<1>1. s # Trap
    BY <1>0, DocumentAssumption DEF Docs
<1>2. c.type = k.type /\ c.doc = k.doc
    BY DEF ChangeBetween
<1>3. CASE k.type = "added"
    <2>1. w = v /\ k.doc.id \notin IdsOf(v)
        BY <1>3 DEF Fitting, IdsOf
    <2>2. T = v \cup {k.doc}
        BY <1>3, <2>1 DEF Tracked
    <2>3. c.newIndex = IndexIn(T, k.doc)
        BY <1>3 DEF ChangeBetween
    <2> HIDE DEF c, T, s, n
    <2>4. /\ IndexIn(T, k.doc) \in 0..n
          /\ InsertAt(s, IndexIn(T, k.doc) + 1, k.doc) = Ordered(T)
        BY <1>0, <2>1, <2>2, InsertOrdered DEF s, n
    <2>5. ~(c.newIndex > Len(s))
        BY <1>0, <2>3, <2>4
    <2>6. Apply(s, c) = InsertAt(s, c.newIndex + 1, c.doc)
        BY <1>1, <1>2, <1>3, <2>5 DEF Apply, onAddDocument
    <2>7. Apply(s, c) = Ordered(T)
        BY <1>2, <2>3, <2>4, <2>6
    <2>8. FitsRow(s, c)
        BY <1>0, <1>1, <1>2, <1>3, <2>3, <2>4 DEF FitsRow
    <2> QED
        BY <2>7, <2>8 DEF c, T, s
<1>4. CASE k.type # "added"
    <2>1. k.doc.id \in IdsOf(v)
        BY <1>4 DEF Fitting
    <2>2. g \in v /\ g.id = k.doc.id
        <3>1. \E d \in v : d.id = k.doc.id
            BY <2>1 DEF IdsOf
        <3> QED
            BY <3>1, Zenon
    <2>3. c.oldIndex = IndexIn(v, g)
        BY <1>4 DEF ChangeBetween
    <2> HIDE DEF g
    <2>4. w = v \ {g}
        BY <2>2, ViewFacts
    <2>5. c.newIndex = IF k.type = "removed" THEN 0 ELSE IndexIn(T, k.doc)
        BY <1>4 DEF ChangeBetween
    <2>6. T = IF k.type = "removed" THEN w ELSE w \cup {k.doc}
        BY <1>4 DEF Tracked
    <2>7. k.doc.id \notin IdsOf(w)
        BY DEF IdsOf
    <2> DEFINE o == IndexIn(v, g)
    <2> HIDE DEF c, T, w
    <2>8. /\ w \in Views /\ g \in Docs /\ g.id \notin IdsOf(w)
          /\ Cardinality(w) = n - 1 /\ o \in 0..n - 1
          /\ RemoveAt(s, o + 1) = Ordered(w)
          /\ s[o + 1] = g
        BY <2>2, <2>4, RemoveOrdered, OrderedFacts
    <2> HIDE DEF s, n, o
    <2>9. FitsRow(s, c)
        <3>1. c.oldIndex = o /\ o < Len(s)
            BY <1>0, <2>3, <2>8 DEF o
        <3> QED
            BY <1>1, <1>2, <1>4, <2>2, <2>8, <3>1 DEF FitsRow
    <2>10. c.oldIndex = o /\ ~(o >= Len(s))
        BY <1>0, <2>3, <2>8 DEF o
    <2>11. CASE k.type = "removed"
        <3>1. Apply(s, c) = onRemoveDocument(s, c)
            BY <1>1, <1>2, <2>11 DEF Apply
        <3>2. onRemoveDocument(s, c) = RemoveAt(s, o + 1)
            BY <2>10 DEF onRemoveDocument
        <3> QED
            BY <2>6, <2>8, <2>9, <2>11, <3>1, <3>2 DEF c, T, s
    <2>12. CASE k.type = "modified"
        <3> DEFINE p == IndexIn(T, k.doc)
        <3>1. T = w \cup {k.doc} /\ c.newIndex = p
            BY <2>5, <2>6, <2>12
        <3>2. /\ p \in 0..n - 1
              /\ InsertAt(Ordered(w), p + 1, k.doc) = Ordered(T)
            BY <1>0, <2>7, <2>8, <3>1, InsertOrdered
        <3>3. Apply(s, c) = onModifiedDocument(s, c)
            BY <1>1, <1>2, <2>12 DEF Apply
        <3> HIDE DEF p
        <3>4. ~(p >= Len(s))
            BY <1>0, <3>2
        <3>5. CASE p = o
            <4>1. onModifiedDocument(s, c) = [s EXCEPT ![p + 1] = k.doc]
                BY <1>2, <2>10, <3>1, <3>4, <3>5 DEF onModifiedDocument
            <4>2. s = InsertAt(Ordered(w), p + 1, g)
                <5>1. w \cup {g} = v
                    BY <2>2, <2>4
                <5>2. o = IndexIn(w \cup {g}, g) /\ s = Ordered(w \cup {g})
                    BY <5>1 DEF o, s
                <5> QED
                    BY <2>8, <3>5, <5>2, InsertOrdered
            <4>3. Ordered(w) \in Seq(Docs) /\ Len(Ordered(w)) = n - 1
                BY <2>8, OrderedFacts
            <4>4. [InsertAt(Ordered(w), p + 1, g) EXCEPT ![p + 1] = k.doc]
                     = InsertAt(Ordered(w), p + 1, k.doc)
                <5> DEFINE u == Ordered(w)
                <5>1. u \in Seq(Docs) /\ p \in 0..Len(u)
                    BY <3>2, <4>3
                <5> HIDE DEF u
                <5>2. [InsertAt(u, p + 1, g) EXCEPT ![p + 1] = k.doc] = InsertAt(u, p + 1, k.doc)
                    BY <1>0, <2>8, <5>1, ReplaceIs
                <5> QED
                    BY <5>2 DEF u
            <4>5. Apply(s, c) = Ordered(T)
                BY <3>2, <3>3, <4>1, <4>2, <4>4
            <4> QED
                BY <2>9, <4>5 DEF c, T, s
        <3>6. CASE p # o
            <4>1. onModifiedDocument(s, c) = InsertAt(RemoveAt(s, o + 1), p + 1, k.doc)
                BY <1>2, <2>10, <3>1, <3>4, <3>6 DEF onModifiedDocument
            <4>2. Apply(s, c) = Ordered(T)
                BY <2>8, <3>2, <3>3, <4>1
            <4> QED
                BY <2>9, <4>2 DEF c, T, s
        <3> QED
            BY <3>5, <3>6
    <2> QED
        BY <1>0, <1>4, <2>11, <2>12
<1> QED
    BY <1>3, <1>4

-----------------------------------------------------------------------------
(* A whole snapshot. *)

\* Where the snapshot's callback is after n changes: in the result v, with
\* every change still to come fitting it and leading to the new result.
OnTheWay(v, new, kinds, n) ==
    /\ v \in Views
    /\ \A i \in n + 1..Len(kinds) : Fitting(v, kinds[i])
    /\ \A d \in new : d \in v \/ \E i \in n + 1..Len(kinds) : kinds[i].doc = d
    /\ \A d \in v : d \in new \/ \E i \in n + 1..Len(kinds) : kinds[i].doc.id = d.id

LEMMA WayStarts ==
    ASSUME NEW old \in Views, NEW new \in Views
    PROVE  OnTheWay(old, new, Kinds(old, new), 0)
<1> DEFINE K == Kinds(old, new)
<1>1. /\ K \in Seq(KindSet)
      /\ \A i \in 1..Len(K) :
            \/ K[i].type = "removed" /\ K[i].doc \in Gone(old, new)
            \/ K[i].type = "added" /\ K[i].doc \in Come(old, new)
            \/ K[i].type = "modified" /\ K[i].doc \in Altered(old, new)
      /\ \A d \in Gone(old, new) \cup Come(old, new) \cup Altered(old, new) :
            \E i \in 1..Len(K) : K[i].doc = d
    BY KindsFacts
<1> HIDE DEF K
<1>2. ASSUME NEW i \in 1..Len(K) PROVE Fitting(old, K[i])
    <2>1. K[i] \in KindSet
        BY <1>1
    <2>2. CASE K[i].type = "removed" /\ K[i].doc \in Gone(old, new)
        BY <2>1, <2>2 DEF Gone, IdsOf, Fitting
    <2>3. CASE K[i].type = "added" /\ K[i].doc \in Come(old, new)
        BY <2>1, <2>3 DEF Come, IdsOf, Fitting
    <2>4. CASE K[i].type = "modified" /\ K[i].doc \in Altered(old, new)
        BY <2>1, <2>4 DEF Altered, IdsOf, Fitting
    <2> QED
        BY <1>1, <2>2, <2>3, <2>4
<1>3. ASSUME NEW d \in new PROVE d \in old \/ \E i \in 1..Len(K) : K[i].doc = d
    <2>1. d \in old \/ d \in Come(old, new) \/ d \in Altered(old, new)
        BY DEF Come, Altered
    <2> QED
        BY <1>1, <2>1
<1>4. ASSUME NEW d \in old PROVE d \in new \/ \E i \in 1..Len(K) : K[i].doc.id = d.id
    <2>1. CASE d.id \notin IdsOf(new)
        <3>1. d \in Gone(old, new)
            BY <2>1 DEF Gone
        <3> QED
            BY <1>1, <3>1
    <2>2. CASE d.id \in IdsOf(new)
        <3>1. PICK e \in new : e.id = d.id
            BY <2>2 DEF IdsOf
        <3>2. CASE e \in old
            BY <3>1, <3>2, ViewFacts
        <3>3. CASE e \notin old
            <4>1. e \in Altered(old, new)
                BY <3>1, <3>3 DEF Altered, IdsOf
            <4> QED
                BY <1>1, <3>1, <4>1
        <3> QED
            BY <3>2, <3>3
    <2> QED
        BY <2>1, <2>2
<1>5. 0 + 1 = 1
    OBVIOUS
<1>6. OnTheWay(old, new, K, 0)
    <2> DEFINE n == 0
    <2>1. n + 1 = 1
        OBVIOUS
    <2> HIDE DEF n
    <2>2. OnTheWay(old, new, K, n)
        BY <1>2, <1>3, <1>4, <2>1 DEF OnTheWay
    <2> QED
        BY <2>2 DEF n
<1> QED
    BY <1>6 DEF K

LEMMA WayGoesOn ==
    ASSUME NEW old \in Views, NEW new \in Views, NEW v,
           NEW n \in 0..Len(Kinds(old, new)) - 1, OnTheWay(v, new, Kinds(old, new), n)
    PROVE  /\ Fitting(v, Kinds(old, new)[n + 1])
           /\ OnTheWay(Tracked(v, Kinds(old, new)[n + 1]), new, Kinds(old, new), n + 1)
<1> DEFINE K == Kinds(old, new)
           m == n + 1
           k == K[m]
           T == Tracked(v, k)
<1>1. /\ K \in Seq(KindSet)
      /\ \A i \in 1..Len(K) :
            \/ K[i].type = "removed" /\ K[i].doc \in Gone(old, new)
            \/ K[i].type = "added" /\ K[i].doc \in Come(old, new)
            \/ K[i].type = "modified" /\ K[i].doc \in Altered(old, new)
      /\ \A i, j \in 1..Len(K) : K[i].doc.id = K[j].doc.id => i = j
    BY KindsFacts
<1>2. n \in 0..Len(K) - 1 /\ OnTheWay(v, new, K, n)
    OBVIOUS
<1> HIDE DEF K
<1>3. /\ m \in 1..Len(K) /\ m \in n + 1..Len(K) /\ Len(K) \in Nat
      /\ \A i \in m + 1..Len(K) : i \in n + 1..Len(K) /\ i \in 1..Len(K) /\ i # m
      /\ \A i \in n + 1..Len(K) : i = m \/ i \in m + 1..Len(K)
    BY <1>1, <1>2
<1> HIDE DEF m
<1>4. v \in Views /\ Fitting(v, k)
    BY <1>2, <1>3 DEF OnTheWay
<1>5. /\ T \in Views
      /\ IdsOf(T) = IF k.type = "removed" THEN IdsOf(v) \ {k.doc.id}
                    ELSE IdsOf(v) \cup {k.doc.id}
    BY <1>4, TrackedFacts
<1>6. \A i \in m + 1..Len(K) : K[i].doc.id # k.doc.id
    BY <1>1, <1>3
<1>7. /\ \A d \in v : d.id # k.doc.id => d \in T
      /\ \A d \in T : (d = k.doc /\ k.type # "removed") \/ (d \in v /\ d.id # k.doc.id)
      /\ k.type # "removed" => k.doc \in T
    BY DEF Tracked
<1>8. /\ k.type # "removed" => k.doc \in new
      /\ k.type = "removed" => k.doc.id \notin IdsOf(new)
    BY <1>1, <1>3 DEF Gone, Come, Altered
<1> HIDE DEF T, k
<1>9. ASSUME NEW i \in m + 1..Len(K) PROVE Fitting(T, K[i])
    BY <1>2, <1>3, <1>5, <1>6, <1>9 DEF OnTheWay, Fitting
<1>10. ASSUME NEW d \in new PROVE d \in T \/ \E i \in m + 1..Len(K) : K[i].doc = d
    <2>1. CASE d.id = k.doc.id
        <3>1. k.type # "removed"
            BY <1>8, <2>1 DEF IdsOf
        <3>2. d = k.doc
            BY <1>8, <2>1, <3>1, ViewFacts
        <3> QED
            BY <1>7, <3>1, <3>2
    <2>2. CASE d.id # k.doc.id
        <3>1. CASE d \in v
            BY <1>7, <2>2, <3>1
        <3>2. CASE d \notin v
            <4>1. PICK i \in n + 1..Len(K) : K[i].doc = d
                BY <1>2, <3>2 DEF OnTheWay
            <4>2. i # m
                BY <2>2, <4>1 DEF k
            <4> QED
                BY <1>3, <4>1, <4>2
        <3> QED
            BY <3>1, <3>2
    <2> QED
        BY <2>1, <2>2
<1>11. ASSUME NEW d \in T PROVE d \in new \/ \E i \in m + 1..Len(K) : K[i].doc.id = d.id
    <2>1. CASE d = k.doc /\ k.type # "removed"
        BY <1>8, <2>1
    <2>2. CASE d \in v /\ d.id # k.doc.id /\ d \notin new
        <3>1. PICK i \in n + 1..Len(K) : K[i].doc.id = d.id
            BY <1>2, <2>2 DEF OnTheWay
        <3>2. i # m
            BY <2>2, <3>1 DEF k
        <3> QED
            BY <1>3, <3>1, <3>2
    <2> QED
        BY <1>7, <2>1, <2>2
<1>12. OnTheWay(T, new, K, m)
    BY <1>5, <1>9, <1>10, <1>11 DEF OnTheWay
<1> QED
    BY <1>4, <1>12 DEF T, k, m, K

LEMMA WayEnds ==
    ASSUME NEW v, NEW new \in Views, NEW kinds \in Seq(KindSet),
           OnTheWay(v, new, kinds, Len(kinds))
    PROVE  v = new
<1>1. Len(kinds) + 1..Len(kinds) = {}
    <2>1. Len(kinds) \in Nat
        OBVIOUS
    <2> QED
        BY <2>1
<1>2. \A d \in new : d \in v
    BY <1>1 DEF OnTheWay
<1>3. \A d \in v : d \in new
    BY <1>1 DEF OnTheWay
<1> QED
    BY <1>2, <1>3

\* Every result on the way is as it should be, and fits the next change.
LEMMA AllTheWay ==
    ASSUME NEW old \in Views, NEW new \in Views
    PROVE  LET K == Kinds(old, new)
               view == Tracking(old, K)
           IN  /\ view[0] = old
               /\ \A n \in 0..Len(K) : OnTheWay(view[n], new, K, n)
               /\ \A n \in 0..Len(K) - 1 : /\ view[n + 1] = Tracked(view[n], K[n + 1])
                                           /\ Fitting(view[n], K[n + 1])
<1> DEFINE K == Kinds(old, new)
           N == Len(K)
           view == Tracking(old, K)
           S == {n \in 0..N : OnTheWay(view[n], new, K, n)}
<1>1. N \in Nat
    BY KindsFacts
<1>2. /\ view[0] = old
      /\ \A n \in 0..N - 1 : view[n + 1] = Tracked(view[n], K[n + 1])
    BY <1>1, TrackingFacts
<1>3. OnTheWay(old, new, K, 0)
    BY WayStarts
<1>4. \A n \in 0..N - 1 : \A v :
          OnTheWay(v, new, K, n)
          => Fitting(v, K[n + 1]) /\ OnTheWay(Tracked(v, K[n + 1]), new, K, n + 1)
    BY WayGoesOn
<1> HIDE DEF K, view, N
<1>5. ASSUME NEW n \in 0..N - 1, n \in S PROVE n + 1 \in S /\ Fitting(view[n], K[n + 1])
    <2>1. view[n + 1] = Tracked(view[n], K[n + 1])
        BY <1>2
    <2>2. Fitting(view[n], K[n + 1]) /\ OnTheWay(Tracked(view[n], K[n + 1]), new, K, n + 1)
        BY <1>4, <1>5
    <2>3. n + 1 \in 0..N
        BY <1>1
    <2> QED
        BY <2>1, <2>2, <2>3
<1>6. \A n \in 0..N : n \in S
    <2>1. 0 \in S
        BY <1>1, <1>2, <1>3
    <2> HIDE DEF S
    <2> QED
        BY <1>1, <1>5, <2>1, Climb
<1>7. ASSUME NEW n \in 0..N - 1 PROVE Fitting(view[n], K[n + 1])
    <2>1. n \in 0..N
        BY <1>1
    <2> QED
        BY <1>5, <1>6, <2>1
<1> QED
    BY <1>2, <1>6, <1>7 DEF K, view, N

\* Rows that are a result in query order take every change of the next
\* snapshot at the right index, and end up as the next result in query order.
LEMMA ChangesFacts ==
    ASSUME NEW old \in Views, NEW new \in Views
    PROVE  /\ Fits(Ordered(old), Changes(old, new))
           /\ ApplyAll(Ordered(old), Changes(old, new)) = Ordered(new)
<1> DEFINE K == Kinds(old, new)
           N == Len(K)
           view == Tracking(old, K)
           changes == Changes(old, new)
           rows == RowsDuring(Ordered(old), changes)
           S == {n \in 0..N : rows[n] = Ordered(view[n])}
<1>1. K \in Seq(KindSet) /\ N \in Nat
    BY KindsFacts
<1>2. changes = [n \in 1..N |-> ChangeBetween(view[n - 1], view[n], K[n])]
    BY DEF Changes
<1>3. /\ view[0] = old
      /\ \A n \in 0..N : OnTheWay(view[n], new, K, n)
      /\ \A n \in 0..N - 1 : /\ view[n + 1] = Tracked(view[n], K[n + 1])
                             /\ Fitting(view[n], K[n + 1])
    BY AllTheWay
<1> HIDE DEF K, view, changes
<1>4. Len(changes) = N
    BY <1>1, <1>2
<1>5. /\ rows[0] = Ordered(old)
      /\ \A n \in 0..N - 1 : rows[n + 1] = Apply(rows[n], changes[n + 1])
    BY <1>1, <1>4, RowsFacts
<1>6. ApplyAll(Ordered(old), changes) = rows[N]
    BY <1>4 DEF ApplyAll
<1>7. Fits(Ordered(old), changes) <=> \A n \in 1..N : FitsRow(rows[n - 1], changes[n])
    BY <1>4 DEF Fits
<1>8. view[N] = new
    <2>1. N \in 0..N
        BY <1>1
    <2>2. OnTheWay(view[N], new, K, N)
        BY <1>3, <2>1
    <2> QED
        BY <1>1, <2>2, WayEnds DEF N
<1> HIDE DEF rows, N
<1>9. ASSUME NEW n \in 0..N - 1, n \in S
      PROVE  n + 1 \in S /\ FitsRow(rows[n], changes[n + 1])
    <2> DEFINE m == n + 1
    <2>1. m \in 1..N /\ m \in 0..N /\ m - 1 = n /\ n \in 0..N
        BY <1>1
    <2>2. /\ view[n] \in Views /\ Fitting(view[n], K[m]) /\ view[m] = Tracked(view[n], K[m])
          /\ rows[n] = Ordered(view[n]) /\ rows[m] = Apply(rows[n], changes[m])
        <3>1. OnTheWay(view[n], new, K, n)
            BY <1>3, <2>1
        <3> QED
            BY <1>3, <1>5, <1>9, <3>1 DEF OnTheWay
    <2> HIDE DEF m
    <2>3. changes[m] = ChangeBetween(view[n], view[m], K[m])
        BY <1>2, <2>1
    <2>4. FitsRow(rows[n], changes[m]) /\ rows[m] = Ordered(view[m])
        BY <2>2, <2>3, ApplyOrdered
    <2> QED
        BY <2>1, <2>4 DEF m
<1>10. \A n \in 0..N : n \in S
    <2>1. 0 \in S
        BY <1>1, <1>3, <1>5
    <2> HIDE DEF S
    <2> QED
        BY <1>1, <1>9, <2>1, Climb
<1>11. ApplyAll(Ordered(old), changes) = Ordered(new)
    <2>1. N \in 0..N
        BY <1>1
    <2> QED
        BY <1>6, <1>8, <1>10, <2>1
<1>12. ASSUME NEW n \in 1..N PROVE FitsRow(rows[n - 1], changes[n])
    <2> DEFINE m == n - 1
    <2>1. m \in 0..N - 1 /\ m \in 0..N /\ m + 1 = n
        BY <1>1
    <2> HIDE DEF m
    <2>2. FitsRow(rows[m], changes[m + 1])
        BY <1>9, <1>10, <2>1
    <2> QED
        BY <2>1, <2>2 DEF m
<1> QED
    BY <1>7, <1>11, <1>12 DEF changes

ChangeSet == [type : {"removed", "added", "modified"}, doc : Docs,
              oldIndex : Nat, newIndex : Nat]

LEMMA ChangesTyped ==
    ASSUME NEW old \in Views, NEW new \in Views
    PROVE  Changes(old, new) \in Seq(ChangeSet)
<1> DEFINE K == Kinds(old, new)
           N == Len(K)
           view == Tracking(old, K)
           changes == Changes(old, new)
<1>1. K \in Seq(KindSet) /\ N \in Nat
    BY KindsFacts
<1>2. changes = [n \in 1..N |-> ChangeBetween(view[n - 1], view[n], K[n])]
    BY DEF Changes
<1>3. /\ \A n \in 0..N : OnTheWay(view[n], new, K, n)
      /\ \A n \in 0..N - 1 : Fitting(view[n], K[n + 1])
    BY AllTheWay
<1> HIDE DEF K, view, changes, N
<1>4. ASSUME NEW n \in 1..N PROVE changes[n] \in ChangeSet
    <2> DEFINE m == n - 1
               k == K[n]
    <2>1. m \in 0..N - 1 /\ m \in 0..N /\ m + 1 = n /\ n \in 0..N
        BY <1>1
    <2> HIDE DEF m
    <2>2. view[m] \in Views /\ view[n] \in Views /\ Fitting(view[m], k)
        BY <1>3, <2>1 DEF OnTheWay
    <2>3. changes[n] = ChangeBetween(view[m], view[n], k)
        BY <1>2 DEF m
    <2> HIDE DEF k
    <2>4. k.doc \in Docs /\ k.type \in {"removed", "added", "modified"}
        BY <2>2 DEF Fitting, KindSet
    <2>5. IndexIn(view[n], k.doc) \in Nat
        BY <2>2, <2>4, IndexFacts, ViewFacts
    <2> DEFINE g == CHOOSE d \in view[m] : d.id = k.doc.id
    <2>6. k.type # "added" => IndexIn(view[m], g) \in Nat
        <3>1. SUFFICES ASSUME k.type # "added" PROVE IndexIn(view[m], g) \in Nat
            OBVIOUS
        <3>2. \E d \in view[m] : d.id = k.doc.id
            BY <2>2, <3>1 DEF Fitting, IdsOf
        <3>3. g \in view[m]
            BY <3>2, Zenon
        <3> HIDE DEF g
        <3> QED
            BY <2>2, <3>3, IndexFacts, ViewFacts
    <2>7. changes[n] = [type |-> k.type, doc |-> k.doc,
                        oldIndex |-> IF k.type = "added" THEN 0 ELSE IndexIn(view[m], g),
                        newIndex |-> IF k.type = "removed" THEN 0 ELSE IndexIn(view[n], k.doc)]
        BY <2>3 DEF ChangeBetween
    <2> HIDE DEF g
    <2> QED
        BY <2>4, <2>5, <2>6, <2>7 DEF ChangeSet
<1>5. changes \in Seq(ChangeSet)
    BY <1>1, <1>2, <1>4
<1> QED
    BY <1>5 DEF changes

\* Rows, or the end of the process.
RowsOrTrap == Seq(Docs) \cup {Trap}

LEMMA ApplyTyped ==
    ASSUME NEW array \in RowsOrTrap, NEW change \in ChangeSet
    PROVE  Apply(array, change) \in RowsOrTrap
<1> DEFINE o == change.oldIndex
           p == change.newIndex
           d == change.doc
<1>0. o \in Nat /\ p \in Nat /\ d \in Docs /\ change.type \in {"removed", "added", "modified"}
    BY DEF ChangeSet
<1>1. CASE array = Trap
    BY <1>1 DEF Apply, RowsOrTrap
<1>2. CASE array # Trap
    <2>1. array \in Seq(Docs) /\ Len(array) \in Nat
        BY <1>2 DEF RowsOrTrap
    <2>2. p <= Len(array) => InsertAt(array, p + 1, d) \in Seq(Docs)
        <3>1. SUFFICES ASSUME p <= Len(array) PROVE InsertAt(array, p + 1, d) \in Seq(Docs)
            OBVIOUS
        <3>2. p \in 0..Len(array)
            BY <1>0, <2>1, <3>1
        <3> HIDE DEF p, d
        <3> QED
            BY <1>0, <2>1, <3>2, InsertFacts
    <2>3. o < Len(array) => RemoveAt(array, o + 1) \in Seq(Docs)
                            /\ Len(RemoveAt(array, o + 1)) = Len(array) - 1
        <3>1. SUFFICES ASSUME o < Len(array)
                       PROVE  RemoveAt(array, o + 1) \in Seq(Docs)
                              /\ Len(RemoveAt(array, o + 1)) = Len(array) - 1
            OBVIOUS
        <3>2. o \in 0..Len(array) - 1
            BY <1>0, <2>1, <3>1
        <3> HIDE DEF o
        <3> QED
            BY <2>1, <3>2, RemoveFacts
    <2>4. CASE change.type = "added"
        <3>1. Apply(array, change) = IF p > Len(array) THEN Trap ELSE InsertAt(array, p + 1, d)
            BY <1>2, <2>4 DEF Apply, onAddDocument
        <3> QED
            BY <1>0, <2>1, <2>2, <3>1 DEF RowsOrTrap
    <2>5. CASE change.type = "removed"
        <3>1. Apply(array, change) = IF o >= Len(array) THEN Trap ELSE RemoveAt(array, o + 1)
            BY <1>2, <2>5 DEF Apply, onRemoveDocument
        <3> QED
            BY <1>0, <2>1, <2>3, <3>1 DEF RowsOrTrap
    <2>6. CASE change.type = "modified"
        <3>1. Apply(array, change) = onModifiedDocument(array, change)
            BY <1>2, <2>6 DEF Apply
        <3>2. CASE p = o
            <4>1. onModifiedDocument(array, change)
                    = IF p >= Len(array) THEN Trap ELSE [array EXCEPT ![p + 1] = d]
                BY <3>2 DEF onModifiedDocument
            <4>2. [array EXCEPT ![p + 1] = d] \in Seq(Docs)
                <5>1. array \in [1..Len(array) -> Docs]
                    BY <2>1
                <5>2. [array EXCEPT ![p + 1] = d] \in [1..Len(array) -> Docs]
                    BY <1>0, <5>1
                <5> QED
                    BY <2>1, <5>2
            <4> QED
                BY <3>1, <4>1, <4>2 DEF RowsOrTrap
        <3>3. CASE p # o
            <4> DEFINE r == RemoveAt(array, o + 1)
            <4>1. onModifiedDocument(array, change)
                    = IF o >= Len(array) \/ p >= Len(array) THEN Trap ELSE InsertAt(r, p + 1, d)
                BY <3>3 DEF onModifiedDocument
            <4>2. CASE o >= Len(array) \/ p >= Len(array)
                BY <3>1, <4>1, <4>2 DEF RowsOrTrap
            <4>3. CASE ~(o >= Len(array) \/ p >= Len(array))
                <5>1. r \in Seq(Docs) /\ p \in 0..Len(r)
                    BY <1>0, <2>1, <2>3, <4>3
                <5> HIDE DEF r, p, d
                <5>2. InsertAt(r, p + 1, d) \in Seq(Docs)
                    BY <1>0, <5>1, InsertFacts
                <5> QED
                    BY <3>1, <4>1, <4>3, <5>2 DEF RowsOrTrap
            <4> QED
                BY <4>2, <4>3
        <3> QED
            BY <3>2, <3>3
    <2> QED
        BY <1>0, <2>4, <2>5, <2>6
<1> QED
    BY <1>1, <1>2

\* Whatever rows a snapshot is applied to, rows come of it or the process ends.
LEMMA ApplyAllTyped ==
    ASSUME NEW array \in RowsOrTrap, NEW old \in Views, NEW new \in Views
    PROVE  ApplyAll(array, Changes(old, new)) \in RowsOrTrap
<1> DEFINE changes == Changes(old, new)
           N == Len(changes)
           rows == RowsDuring(array, changes)
           S == {n \in 0..N : rows[n] \in RowsOrTrap}
<1>1. changes \in Seq(ChangeSet) /\ N \in Nat /\ \A n \in 1..N : changes[n] \in ChangeSet
    BY ChangesTyped
<1> HIDE DEF changes
<1>2. /\ rows[0] = array
      /\ \A n \in 0..N - 1 : rows[n + 1] = Apply(rows[n], changes[n + 1])
    BY <1>1, RowsFacts
<1>3. ApplyAll(array, changes) = rows[N]
    BY DEF ApplyAll
<1> HIDE DEF rows, N
<1>4. ASSUME NEW n \in 0..N - 1, n \in S PROVE n + 1 \in S
    <2>1. n + 1 \in 1..N /\ n + 1 \in 0..N
        BY <1>1
    <2>2. rows[n + 1] \in RowsOrTrap
        BY <1>1, <1>2, <1>4, <2>1, ApplyTyped
    <2> QED
        BY <2>1, <2>2
<1>5. \A n \in 0..N : n \in S
    <2>1. 0 \in S
        BY <1>1, <1>2
    <2> HIDE DEF S
    <2> QED
        BY <1>1, <1>4, <2>1, Climb
<1>6. rows[N] \in RowsOrTrap
    BY <1>1, <1>5
<1> QED
    BY <1>3, <1>6 DEF changes

-----------------------------------------------------------------------------
(* The screen. *)

\* The screen has no listener but its own, and none when it is hidden; the
\* rows are the result that listener was last told of.
OwnListener ==
    /\ DOMAIN live \subseteq {listener}
    /\ ~visible => DOMAIN live = {} /\ categoryArray = <<>>

RowsAreSeen == \A reg \in DOMAIN live : categoryArray = Ordered(live[reg].seen)

Inv == TypeOK /\ OwnListener /\ RowsAreSeen /\ categoryArray # Trap

LEMMA NoDocuments ==
    {} \in Views /\ Ordered({}) = <<>> /\ <<>> \in Seq(Docs) /\ <<>> # Trap
<1>1. {} \in Views
    BY FS_EmptySet DEF Views
<1>2. Cardinality({}) = 0
    BY FS_EmptySet
<1>3. Ordered({}) \in Seq(Docs) /\ Len(Ordered({})) = 0
    BY <1>1, <1>2, OrderedFacts
<1>4. Ordered({}) = <<>>
    BY <1>3
<1> QED
    BY <1>1, <1>3, <1>4, DocumentAssumption DEF Docs

LEMMA NothingServed == live = <<>> => DOMAIN live = {}
    OBVIOUS

\* The home screen has no rows and no listener before it appears.
THEOREM InitInv == Init => Inv
<1> SUFFICES ASSUME Init PROVE Inv
    OBVIOUS
<1>1. DOMAIN live = {}
    BY NothingServed DEF Init, QueryInit
<1>2. TypeOK
    <2>1. categoryArray \in Seq(Docs)
        BY NoDocuments DEF Init
    <2>2. QueryTypeOK
        BY <1>1, ListenerAssumption DEF Init, QueryInit, QueryTypeOK
    <2> QED
        BY <2>1, <2>2 DEF Init, TypeOK
<1>3. OwnListener /\ RowsAreSeen
    BY <1>1 DEF Init, OwnListener, RowsAreSeen
<1> QED
    BY <1>2, <1>3, NoDocuments DEF Init, Inv

LEMMA AppearStep ==
    ASSUME Inv, ViewDidAppear
    PROVE  /\ Inv'
           /\ DOMAIN live' = {listener'} /\ live'[listener'].queue = <<docs>>
<1> USE DEF Inv, ViewDidAppear
<1>1. DOMAIN live = {} /\ categoryArray = <<>>
    BY DEF OwnListener
<1> DEFINE f == FreshReg
           first == [seen |-> {}, queue |-> <<docs>>]
<1>2. f \in Nat
    <2>1. f = CHOOSE r \in 1..1 : r \notin {}
        BY <1>1, FS_EmptySet DEF FreshReg
    <2>2. \E r \in 1..1 : r \notin {}
        OBVIOUS
    <2>3. f \in 1..1
        BY <2>1, <2>2
    <2> QED
        BY <2>3
<1>3. live' = [r \in DOMAIN live \cup {f} |-> IF r = f THEN first ELSE live[r]] /\ listener' = f
    BY DEF AddListener
<1>4. first.seen = {} /\ first.queue = <<docs>> /\ first \in [seen : Views, queue : Seq(Views)]
    BY NoDocuments DEF TypeOK, QueryTypeOK
<1> HIDE DEF f, first
<1>5. DOMAIN live' = {f} /\ live'[f] = first
    BY <1>1, <1>3
<1>6. QueryTypeOK'
    BY <1>2, <1>4, <1>5, NoDocuments DEF TypeOK, QueryTypeOK
<1>7. TypeOK'
    BY <1>2, <1>3, <1>6 DEF TypeOK
<1>8. OwnListener' /\ RowsAreSeen'
    BY <1>1, <1>3, <1>4, <1>5, NoDocuments DEF OwnListener, RowsAreSeen
<1> QED
    BY <1>3, <1>4, <1>5, <1>7, <1>8

LEMMA HideStep ==
    ASSUME Inv, Hide, selectedCategory' \in DocIds \cup {0}
    PROVE  Inv' /\ DOMAIN live' = {}
<1> USE DEF Inv, Hide
<1>1. DOMAIN live' = {}
    BY DEF Removed, OwnListener
<1>2. QueryTypeOK'
    BY <1>1 DEF TypeOK, QueryTypeOK
<1>3. TypeOK'
    BY <1>2, NoDocuments DEF TypeOK
<1>4. OwnListener' /\ RowsAreSeen'
    BY <1>1 DEF OwnListener, RowsAreSeen
<1> QED
    BY <1>1, <1>3, <1>4, NoDocuments

LEMMA SelectedIsId ==
    ASSUME Inv, NEW i \in 1..Len(categoryArray)
    PROVE  categoryArray[i].id \in DocIds
<1>1. categoryArray \in Seq(Docs)
    BY DEF Inv, TypeOK
<1>2. categoryArray[i] \in Docs
    BY <1>1
<1> QED
    BY <1>2, DocFields

\* What a registration is told of next leads from its rows to the next rows.
LEMMA NextFits ==
    ASSUME Inv, NEW reg \in DOMAIN live, Pending(reg)
    PROVE  /\ reg = listener /\ visible
           /\ Head(live[reg].queue) \in Views /\ Tail(live[reg].queue) \in Seq(Views)
           /\ Fits(categoryArray, NextChanges(reg))
           /\ ApplyAll(categoryArray, NextChanges(reg)) = Ordered(Head(live[reg].queue))
<1>1. reg = listener /\ visible
    BY DEF Inv, OwnListener, TypeOK
<1>2. live[reg].seen \in Views /\ live[reg].queue \in Seq(Views) /\ live[reg].queue # <<>>
    BY DEF Inv, TypeOK, QueryTypeOK, Pending
<1>3. Head(live[reg].queue) \in Views /\ Tail(live[reg].queue) \in Seq(Views)
    BY <1>2
<1>4. categoryArray = Ordered(live[reg].seen)
    BY DEF Inv, RowsAreSeen
<1> QED
    BY <1>1, <1>2, <1>3, <1>4, ChangesFacts DEF NextChanges

LEMMA SnapshotStep ==
    ASSUME Inv, NEW reg \in DOMAIN live, Snapshot(reg)
    PROVE  /\ Inv' /\ reg = listener /\ visible /\ live[listener].queue # <<>>
           /\ DOMAIN live' = DOMAIN live
           /\ live'[listener].queue = Tail(live[listener].queue)
           /\ categoryArray' = Ordered(Head(live[listener].queue))
<1> DEFINE told == [seen |-> Head(live[reg].queue), queue |-> Tail(live[reg].queue)]
<1>1. Pending(reg) /\ live[reg].queue # <<>>
    BY DEF Snapshot, Deliver, Pending
<1>2. /\ reg = listener /\ visible
      /\ Head(live[reg].queue) \in Views /\ Tail(live[reg].queue) \in Seq(Views)
      /\ ApplyAll(categoryArray, NextChanges(reg)) = Ordered(Head(live[reg].queue))
    BY <1>1, NextFits
<1>3. live' = [live EXCEPT ![reg] = told]
    BY DEF Snapshot, Deliver
<1>4. /\ told.seen = Head(live[reg].queue) /\ told.queue = Tail(live[reg].queue)
      /\ told \in [seen : Views, queue : Seq(Views)]
    BY <1>2
<1> HIDE DEF told
<1>5. DOMAIN live' = DOMAIN live /\ live'[reg] = told /\ \A r \in DOMAIN live : r = reg
    BY <1>2, <1>3 DEF Inv, OwnListener
<1>6. categoryArray' = Ordered(Head(live[reg].queue))
    BY <1>2 DEF Snapshot
<1>7. categoryArray' \in Seq(Docs) /\ categoryArray' # Trap
    <2>1. categoryArray' \in Seq(Docs)
        BY <1>2, <1>6, OrderedFacts
    <2> QED
        BY <2>1, DocumentAssumption DEF Docs
<1>8. QueryTypeOK'
    BY <1>2, <1>4, <1>5 DEF Inv, TypeOK, QueryTypeOK, Snapshot
<1>9. TypeOK'
    BY <1>7, <1>8 DEF Inv, TypeOK, Snapshot
<1>10. OwnListener' /\ RowsAreSeen'
    BY <1>2, <1>4, <1>5, <1>6 DEF Inv, OwnListener, RowsAreSeen, Snapshot
<1> QED
    BY <1>1, <1>2, <1>4, <1>5, <1>6, <1>7, <1>9, <1>10 DEF Inv

LEMMA FailStep ==
    ASSUME Inv, NEW reg \in DOMAIN live, ListenerFails(reg)
    PROVE  Inv' /\ DOMAIN live' = {} /\ reg = listener /\ visible
<1> USE DEF Inv, ListenerFails
<1>1. DOMAIN live' = {} /\ reg = listener /\ visible
    BY DEF OwnListener, Removed, TypeOK
<1>2. TypeOK'
    BY <1>1 DEF TypeOK, QueryTypeOK
<1>3. OwnListener' /\ RowsAreSeen'
    BY <1>1 DEF OwnListener, RowsAreSeen
<1> QED
    BY <1>1, <1>2, <1>3

LEMMA ChangeStep ==
    ASSUME Inv, CollectionChanges
    PROVE  /\ Inv' /\ docs' \in Views /\ DOMAIN live' = DOMAIN live
           /\ \A reg \in DOMAIN live : live'[reg].queue = Append(live[reg].queue, docs')
<1> USE DEF Inv, CollectionChanges, Write
<1>1. \A reg \in DOMAIN live :
          live[reg] \in [seen : Views, queue : Seq(Views)]
    BY DEF TypeOK, QueryTypeOK
<1>2. docs' \in Views /\ DOMAIN live' = DOMAIN live
    OBVIOUS
<1>3. \A reg \in DOMAIN live :
          live'[reg] = [live[reg] EXCEPT !.queue = Append(@, docs')]
    OBVIOUS
<1>4. ASSUME NEW reg \in DOMAIN live
      PROVE  /\ live'[reg].seen = live[reg].seen
             /\ live'[reg].queue = Append(live[reg].queue, docs')
             /\ live'[reg] \in [seen : Views, queue : Seq(Views)]
    <2> DEFINE lr == live[reg]
               q == Append(lr.queue, docs')
    <2>1. lr \in [seen : Views, queue : Seq(Views)]
        BY <1>1
    <2>2. q \in Seq(Views)
        BY <1>2, <2>1
    <2>3. live'[reg] = [lr EXCEPT !.queue = q]
        BY <1>3
    <2> HIDE DEF q, lr
    <2>4. /\ live'[reg].seen = lr.seen /\ live'[reg].queue = q
          /\ live'[reg] \in [seen : Views, queue : Seq(Views)]
        BY <2>1, <2>2, <2>3
    <2> QED
        BY <2>4 DEF q, lr
<1>5. QueryTypeOK'
    <2>1. writes' \in 0..MaxWrites
        BY ListenerAssumption DEF TypeOK, QueryTypeOK
    <2>2. DOMAIN live' \subseteq Nat
        BY <1>2 DEF TypeOK, QueryTypeOK
    <2>3. \A reg \in DOMAIN live' : live'[reg] \in [seen : Views, queue : Seq(Views)]
        BY <1>2, <1>4
    <2> QED
        BY <1>2, <2>1, <2>2, <2>3 DEF QueryTypeOK
<1>6. TypeOK'
    BY <1>5 DEF TypeOK
<1>7. OwnListener' /\ RowsAreSeen'
    BY <1>2, <1>4 DEF OwnListener, RowsAreSeen
<1> QED
    BY <1>2, <1>4, <1>6, <1>7

\* No callback of the home screen and no change of the categories breaks it.
THEOREM StepInv == Inv /\ [Next]_vars => Inv'
<1> SUFFICES ASSUME Inv, [Next]_vars PROVE Inv'
    OBVIOUS
<1>1. CASE ViewDidAppear
    BY <1>1, AppearStep
<1>2. CASE ViewWillDisappear
    <2>1. Hide /\ selectedCategory' \in DocIds \cup {0}
        BY <1>2 DEF ViewWillDisappear, Inv, TypeOK
    <2> QED
        BY <2>1, HideStep
<1>3. CASE DidSelectItem
    <2>1. Hide /\ selectedCategory' \in DocIds \cup {0}
        BY <1>3, SelectedIsId DEF DidSelectItem
    <2> QED
        BY <2>1, HideStep
<1>4. CASE CollectionChanges
    BY <1>4, ChangeStep
<1>5. ASSUME NEW reg \in DOMAIN live, Snapshot(reg) PROVE Inv'
    BY <1>5, SnapshotStep
<1>6. ASSUME NEW reg \in DOMAIN live, ListenerFails(reg) PROVE Inv'
    BY <1>6, FailStep
<1>7. CASE UNCHANGED vars
    BY <1>7 DEF vars, queryVars, Inv, TypeOK, QueryTypeOK, OwnListener, RowsAreSeen
<1> QED
    BY <1>1, <1>2, <1>3, <1>4, <1>5, <1>6, <1>7 DEF Next

\* The home screen's rows are always what its one listener was told of.
THEOREM InvHolds == Spec => []Inv
<1> QED
    BY InitInv, StepInv, PTL DEF Spec

\* Every reachable state of the home screen's list is well typed.
THEOREM TypeCorrect == Spec => []TypeOK
<1>1. Inv => TypeOK
    BY DEF Inv
<1> QED
    BY <1>1, InvHolds, PTL

\* onAddDocument, onModifiedDocument and onRemoveDocument never use an index
\* outside the home screen's array.
THEOREM NeverTraps == Spec => [](categoryArray # Trap)
<1>1. Inv => categoryArray # Trap
    BY DEF Inv
<1> QED
    BY <1>1, InvHolds, PTL

\* Whatever snapshot is next for a registration, each of its changes names by its
\* old index the row of its document, so that onModifiedDocument and
\* onRemoveDocument are right to trust the index they are given.
THEOREM RowsFitChanges == Spec => []ChangesFitRows
<1>1. Inv => ChangesFitRows
    BY NextFits DEF ChangesFitRows
<1> QED
    BY <1>1, InvHolds, PTL

\* The home screen implements the list mirror: what the visible screen shows is a
\* result of the query in query order, results are shown in turn and once, and
\* nothing after viewWillDisappear removed the listener and cleared the rows.
THEOREM ImplementsMirror == Spec => MirrorSpec
<1> DEFINE next == IF listener \in DOMAIN live THEN live[listener].queue ELSE <<>>
           sight == IF ~visible THEN "hidden"
                    ELSE IF listener \in DOMAIN live THEN "watching" ELSE "frozen"
<1>1. Init => Mirror!Init
    <2>1. SUFFICES ASSUME Init PROVE Mirror!Init
        OBVIOUS
    <2>2. docs \in Views /\ DOMAIN live = {} /\ visible = FALSE /\ categoryArray = <<>>
        BY <2>1, NothingServed DEF Init, QueryInit
    <2> QED
        BY <2>2 DEF Mirror!Init
<1>2. ASSUME Inv, [Next]_vars PROVE [Mirror!Next]_Mirror!mirrorVars
    <2> USE DEF Mirror!Next, Mirror!mirrorVars
    <2>1. CASE ViewDidAppear
        <3>1. DOMAIN live = {} /\ ~visible /\ visible' = TRUE /\ UNCHANGED <<docs, categoryArray>>
            BY <1>2, <2>1 DEF ViewDidAppear, Inv, OwnListener
        <3>2. DOMAIN live' = {listener'} /\ live'[listener'].queue = <<docs>>
            BY <1>2, <2>1, AppearStep
        <3>3. Mirror!Appear
            BY <3>1, <3>2 DEF Mirror!Appear
        <3> QED
            BY <3>3
    <2>2. ASSUME visible, Hide, DOMAIN live' = {} PROVE Mirror!Disappear
        BY <2>2 DEF Hide, Mirror!Disappear
    <2>3. CASE ViewWillDisappear
        <3>1. visible /\ Hide /\ selectedCategory' \in DocIds \cup {0}
            BY <1>2, <2>3 DEF ViewWillDisappear, Inv, TypeOK
        <3> QED
            BY <1>2, <2>2, <3>1, HideStep
    <2>4. CASE DidSelectItem
        <3>1. visible /\ Hide /\ selectedCategory' \in DocIds \cup {0}
            BY <1>2, <2>4, SelectedIsId DEF DidSelectItem
        <3> QED
            BY <1>2, <2>2, <3>1, HideStep
    <2>5. CASE CollectionChanges
        <3>1. /\ docs' \in Views /\ DOMAIN live' = DOMAIN live
              /\ \A reg \in DOMAIN live : live'[reg].queue = Append(live[reg].queue, docs')
              /\ UNCHANGED <<categoryArray, listener, visible>>
            BY <1>2, <2>5, ChangeStep DEF CollectionChanges
        <3>2. ~visible => DOMAIN live = {}
            BY <1>2 DEF Inv, OwnListener
        <3>3. Mirror!Change
            BY <3>1, <3>2 DEF Mirror!Change
        <3> QED
            BY <3>3
    <2>6. ASSUME NEW reg \in DOMAIN live, Snapshot(reg) PROVE Mirror!Show
        <3>1. /\ reg = listener /\ visible /\ live[listener].queue # <<>>
              /\ DOMAIN live' = DOMAIN live
              /\ live'[listener].queue = Tail(live[listener].queue)
              /\ categoryArray' = Ordered(Head(live[listener].queue))
            BY <1>2, <2>6, SnapshotStep
        <3>2. UNCHANGED <<docs, listener, visible>>
            BY <2>6 DEF Snapshot
        <3> QED
            BY <3>1, <3>2 DEF Mirror!Show
    <2>7. ASSUME NEW reg \in DOMAIN live, ListenerFails(reg) PROVE Mirror!Freeze
        <3>1. DOMAIN live' = {} /\ reg = listener /\ visible
            BY <1>2, <2>7, FailStep
        <3>2. UNCHANGED <<docs, categoryArray, listener, visible>>
            BY <2>7 DEF ListenerFails
        <3> QED
            BY <3>1, <3>2 DEF Mirror!Freeze
    <2>8. CASE UNCHANGED vars
        BY <2>8 DEF vars, queryVars
    <2> QED
        BY <1>2, <2>1, <2>3, <2>4, <2>5, <2>6, <2>7, <2>8 DEF Next
<1> QED
    BY <1>1, <1>2, InvHolds, PTL DEF Spec, MirrorSpec, Mirror!Spec
==============================================================================
