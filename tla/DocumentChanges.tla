--------------------------- MODULE DocumentChanges ---------------------------
(***************************************************************************)
(* How a list screen follows a Firestore query: the change list Firestore  *)
(* computes between two results of the query, and the three handlers that  *)
(* apply one change to the screen's array.  The home screen (categories)   *)
(* and the product screen have the same handlers.                          *)
(***************************************************************************)
EXTENDS Naturals, Sequences, FiniteSets, SequencesExt

CONSTANTS
    DocIds,   \* document ids, ordered naturals
    Stamps,   \* values of timeStamp
    Revs,     \* what else of a document may change
    Trap      \* an array whose process has trapped: index out of range

ASSUME DocumentAssumption ==
    /\ DocIds \subseteq Nat /\ Stamps \subseteq Nat
    /\ Trap \notin Seq([id : DocIds, ts : Stamps, rev : Revs])

Docs == [id : DocIds, ts : Stamps, rev : Revs]

\* The results a query can have: no two documents of the same id.
Views == {v \in SUBSET Docs : IsFiniteSet(v) /\ \A d, e \in v : d.id = e.id => d = e}

IdsOf(docs) == {d.id : d \in docs}

\* order(by: "timeStamp", descending: true); Firestore breaks ties by the
\* document key, in the same direction.
Before(d, e) == d.ts > e.ts \/ (d.ts = e.ts /\ d.id > e.id)

\* Position of a document in a result, from 0.
IndexIn(view, doc) == Cardinality({d \in view : Before(d, doc)})

Ordered(view) == [i \in 1..Cardinality(view) |-> CHOOSE d \in view : IndexIn(view, d) = i - 1]

Typed(type, docs) == [i \in 1..Cardinality(docs) |-> [type |-> type, doc |-> Ordered(docs)[i]]]

\* Removals, then additions, then modifications, each in query order.
Kinds(old, new) ==
    Typed("removed",  {d \in old : d.id \notin IdsOf(new)})
    \o Typed("added", {d \in new : d.id \notin IdsOf(old)})
    \o Typed("modified", {d \in new \ old : d.id \in IdsOf(old)})

\* The result with one more change.
Tracked(view, kind) ==
    LET others == {d \in view : d.id # kind.doc.id}
    IN  IF kind.type = "removed" THEN others ELSE others \cup {kind.doc}

\* The results on the way, from the old one on.
Tracking(old, kinds) ==
    LET view[n \in 0..Len(kinds)] ==
            IF n = 0 THEN old ELSE Tracked(view[n - 1], kinds[n])
    IN  view

\* The indices of a change are those in the results right before and after it.
ChangeBetween(before, after, kind) ==
    [type |-> kind.type, doc |-> kind.doc,
     oldIndex |-> IF kind.type = "added" THEN 0
                  ELSE IndexIn(before, CHOOSE d \in before : d.id = kind.doc.id),
     newIndex |-> IF kind.type = "removed" THEN 0 ELSE IndexIn(after, kind.doc)]

\* snapshot.documentChanges between two results.
Changes(old, new) ==
    LET kinds == Kinds(old, new)
        view == Tracking(old, kinds)
    IN  [n \in 1..Len(kinds) |-> ChangeBetween(view[n - 1], view[n], kinds[n])]
------------------------------------------------------------------------------
(* The handlers of the screens; indices outside the array trap. *)

onAddDocument(array, change) ==
    IF change.newIndex > Len(array) THEN Trap
    ELSE InsertAt(array, change.newIndex + 1, change.doc)

\* Mutant: the new index is used in the array that still has the old row.
onModifiedDocumentInsertFirst(array, change) ==
    IF change.newIndex > Len(array) \/ change.oldIndex >= Len(array) THEN Trap
    ELSE RemoveAt(InsertAt(array, change.newIndex + 1, change.doc), change.oldIndex + 1)

onModifiedDocument(array, change) ==
    IF change.newIndex = change.oldIndex
    THEN IF change.newIndex >= Len(array) THEN Trap
         ELSE [array EXCEPT ![change.newIndex + 1] = change.doc]
    ELSE IF change.oldIndex >= Len(array) \/ change.newIndex >= Len(array) THEN Trap
         ELSE InsertAt(RemoveAt(array, change.oldIndex + 1),
                       change.newIndex + 1, change.doc)

onRemoveDocument(array, change) ==
    IF change.oldIndex >= Len(array) THEN Trap
    ELSE RemoveAt(array, change.oldIndex + 1)

Apply(array, change) ==
    IF array = Trap THEN Trap
    ELSE CASE change.type = "added"    -> onAddDocument(array, change)
           [] change.type = "modified" -> onModifiedDocument(array, change)
           [] change.type = "removed"  -> onRemoveDocument(array, change)

\* The snapshot callback: every change of the snapshot, in order.
RowsDuring(array, changes) ==
    LET rows[n \in 0..Len(changes)] ==
            IF n = 0 THEN array ELSE Apply(rows[n - 1], changes[n])
    IN  rows

ApplyAll(array, changes) == RowsDuring(array, changes)[Len(changes)]

\* The row a change names by its old index is the row of that document.
FitsRow(array, change) ==
    /\ array # Trap
    /\ change.type = "added" => change.newIndex <= Len(array)
    /\ change.type # "added" => /\ change.oldIndex < Len(array)
                                /\ array[change.oldIndex + 1].id = change.doc.id
Fits(array, changes) ==
    \A n \in 1..Len(changes) :
        FitsRow(RowsDuring(array, changes)[n - 1], changes[n])
==============================================================================
