------------------------- MODULE CatalogEditorProofs -------------------------
(***************************************************************************)
(* What the editor's forms keep to for any documents, names, forms and     *)
(* presses.                                                                *)
(***************************************************************************)
EXTENDS CatalogEditor, TLAPS, FiniteSetTheorems, SequenceTheorems, WellFoundedInduction

------------------------------------------------------------------------------
(* The invariant. *)

\* A form to edit something knows what, and a new category's form does not.
FormsInv ==
    /\ \A f \in 1..opened : ~forms[f].new => forms[f].toEdit # NoId
    /\ kind = "category" => \A f \in 1..opened : forms[f].new => forms[f].toEdit = NoId
    /\ selected # Nothing => selected.id \in Ids

\* Calls under way are of forms that were opened, and a document's image is stored.
CallsInv ==
    /\ IsFiniteSet(uploads)
    /\ \A u \in uploads : u.form \in 1..opened /\ (u.stored => u.image \in stored)
    /\ \A w \in Range(writes) : w.form \in 1..opened /\ w.image \in stored

\* A form that is not pressed again keeps the name its image travels under.
HeldInv ==
    kind = "product" =>
        \A u \in uploads : ~forms[u.form].again => u.image = forms[u.form].held

IInv ==
    /\ TypeOK /\ FormsInv /\ CallsInv /\ HeldInv
    /\ ImagesExist /\ EditsStayInPlace /\ ImageMatchesName
------------------------------------------------------------------------------
(* Sequences, and the names that are shown. *)

LEMMA RangeFacts ==
    ASSUME NEW S, NEW q \in Seq(S)
    PROVE  /\ \A e \in S : /\ Append(q, e) \in Seq(S) /\ Len(Append(q, e)) = Len(q) + 1
                           /\ Range(Append(q, e)) = Range(q) \cup {e}
                           /\ Last(Append(q, e)) = e
           /\ q # <<>> => /\ Tail(q) \in Seq(S) /\ Len(Tail(q)) = Len(q) - 1
                          /\ Range(Tail(q)) \subseteq Range(q) /\ Head(q) \in Range(q)
           /\ Range(q) \subseteq S /\ Len(q) \in Nat /\ DOMAIN q = 1..Len(q)
<1>1. Len(q) \in Nat /\ DOMAIN q = 1..Len(q) /\ \A i \in 1..Len(q) : q[i] \in S
  BY LenProperties, ElementOfSeq
<1>2. ASSUME NEW e \in S
      PROVE  /\ Append(q, e) \in Seq(S) /\ Len(Append(q, e)) = Len(q) + 1
             /\ Range(Append(q, e)) = Range(q) \cup {e}
             /\ Last(Append(q, e)) = e
  <2> DEFINE a == Append(q, e)
  <2>1. /\ a \in Seq(S) /\ Len(a) = Len(q) + 1 /\ a[Len(q) + 1] = e
        /\ \A i \in 1..Len(q) : a[i] = q[i]
    BY AppendProperties
  <2>2. DOMAIN a = 1..Len(q) + 1
    BY <2>1, LenProperties
  <2> HIDE DEF a
  <2>3. Range(a) \subseteq Range(q) \cup {e}
    BY <1>1, <2>1, <2>2 DEF Range
  <2>4. \A i \in 1..Len(q) : i \in DOMAIN a /\ a[i] = q[i]
    BY <1>1, <2>1, <2>2
  <2>5. Len(q) + 1 \in DOMAIN a /\ a[Len(q) + 1] = e
    BY <1>1, <2>1, <2>2
  <2>6. Range(q) \subseteq Range(a) /\ e \in Range(a)
    BY <1>1, <2>4, <2>5 DEF Range
  <2>7. Last(a) = e
    BY <2>1 DEF Last
  <2> QED BY <2>1, <2>3, <2>6, <2>7 DEF a
<1>3. ASSUME q # <<>>
      PROVE  /\ Tail(q) \in Seq(S) /\ Len(Tail(q)) = Len(q) - 1
             /\ Range(Tail(q)) \subseteq Range(q) /\ Head(q) \in Range(q)
  <2>1. /\ Tail(q) \in Seq(S) /\ Len(Tail(q)) = Len(q) - 1 /\ Len(q) # 0
        /\ \A i \in 1..(Len(q) - 1) : Tail(q)[i] = q[i + 1]
    BY <1>3, HeadTailProperties, EmptySeq
  <2>2. DOMAIN Tail(q) = 1..(Len(q) - 1)
    BY <2>1, LenProperties
  <2>3. \A i \in 1..(Len(q) - 1) : i + 1 \in DOMAIN q /\ Tail(q)[i] = q[i + 1]
    BY <1>1, <2>1
  <2>4. Range(Tail(q)) \subseteq Range(q)
    BY <2>2, <2>3 DEF Range
  <2>5. Head(q) = q[1] /\ 1 \in DOMAIN q
    BY <1>1, <1>3, <2>1
  <2>6. Head(q) \in Range(q)
    BY <2>5 DEF Range
  <2> QED BY <2>1, <2>4, <2>6
<1>4. Range(q) \subseteq S
  BY <1>1 DEF Range
<1> QED BY <1>1, <1>2, <1>3, <1>4

\* A set of positions has a last one.
LEMMA MaxFacts ==
    ASSUME NEW n \in Nat, NEW S, S \subseteq 1..n, S # {}
    PROVE  Max(S) \in S
<1> DEFINE R == {ss \in Nat \X Nat : ss[1] < ss[2]}
           T == {k \in Nat : n - k \in S}
<1>1. IsWellFoundedOn(R, Nat)
  BY NatLessThanWellFounded DEF OpToRel
<1>2. T \subseteq Nat /\ T # {}
  <2>1. PICK i \in S : TRUE
    OBVIOUS
  <2>2. n - i \in Nat /\ n - (n - i) = i
    BY <2>1
  <2> QED BY <2>1, <2>2
<1>3. PICK k \in T : \A j \in T : ~(<<j, k>> \in R)
  <2> HIDE DEF R, T
  <2> QED BY <1>1, <1>2, WFMin
<1>4. \A j \in T : ~(j < k)
  BY <1>3
<1>5. n - k \in S /\ \A i \in S : n - k >= i
  <2>1. ASSUME NEW i \in S PROVE n - k >= i
    <3>1. n - i \in T
      <4>1. n - i \in Nat /\ n - (n - i) = i
        OBVIOUS
      <4> QED BY <4>1
    <3>2. ~(n - i < k) /\ k \in Nat /\ i \in 1..n
      BY <1>4, <3>1
    <3> QED BY <3>2
  <2> QED BY <2>1
<1> QED BY <1>5 DEF Max

LEMMA ShownFacts ==
    ASSUME TypeOK, NEW id \in DOMAIN Shown
    PROVE  id \in Ids /\ Shown[id] \in Texts
<1>1. /\ writes \in Seq(Write) /\ DOMAIN items \subseteq Ids
      /\ \A i \in DOMAIN items : items[i].name \in Texts
  BY DEF TypeOK, Item
<1>2. /\ Range(writes) \subseteq Write /\ Len(writes) \in Nat /\ DOMAIN writes = 1..Len(writes)
      /\ \A i \in 1..Len(writes) : writes[i] \in Write
  BY <1>1, RangeFacts, ElementOfSeq
<1>3. /\ id \in DOMAIN items \cup {w.id : w \in Range(writes)}
      /\ Shown[id] = IF WritesOf(id) = {} THEN items[id].name
                                          ELSE writes[Max(WritesOf(id))].name
  BY DEF Shown
<1>4. id \in Ids
  BY <1>1, <1>2, <1>3 DEF Write
<1>5. CASE WritesOf(id) = {}
  <2>1. id \notin {w.id : w \in Range(writes)}
    BY <1>5 DEF WritesOf, Range
  <2> QED BY <1>1, <1>3, <1>4, <1>5, <2>1
<1>6. CASE WritesOf(id) # {}
  <2>1. WritesOf(id) \subseteq 1..Len(writes)
    BY <1>2 DEF WritesOf
  <2>2. Max(WritesOf(id)) \in 1..Len(writes)
    BY <1>2, <1>6, <2>1, MaxFacts
  <2>3. writes[Max(WritesOf(id))].name \in Texts
    BY <1>2, <2>2 DEF Write
  <2> QED BY <1>3, <1>4, <1>6, <2>3
<1> QED BY <1>5, <1>6
------------------------------------------------------------------------------
(* What the steps have in common. *)

LEMMA EditorInitially == Init => IInv
<1> SUFFICES ASSUME Init PROVE IInv
  OBVIOUS
<1>1. PICK existing \in SUBSET Ids :
         /\ items \in [existing -> {i \in Item : i.name = i.image}]
         /\ stored = {items[id].image : id \in existing}
  BY DEF Init
<1>2. /\ kind \in {"category", "product"} /\ selected = Nothing /\ forms = <<>> /\ opened = 0
      /\ top = 0 /\ alert = FALSE /\ uploads = {} /\ writes = <<>> /\ presses = 0
  BY DEF Init
<1>3. /\ DOMAIN items \subseteq Ids /\ \A id \in DOMAIN items : items[id] \in Item
      /\ stored \subseteq Names /\ ImagesExist
  BY <1>1 DEF Item, ImagesExist
<1>4. /\ 1..opened = {} /\ forms \in [1..opened -> FormState]
  <2>1. forms \in Seq(FormState) /\ Len(forms) = 0
    BY <1>2, EmptySeq
  <2>2. forms \in [1..0 -> FormState]
    BY <2>1, LenProperties, ElementOfSeq
  <2> QED BY <1>2, <2>2
<1>5. /\ writes \in Seq(Write) /\ Len(writes) = 0 /\ Range(writes) = {}
  <2>1. writes \in Seq(Write) /\ Len(writes) = 0
    BY <1>2, EmptySeq
  <2>2. DOMAIN writes = {}
    BY <2>1, LenProperties
  <2> QED BY <2>1, <2>2 DEF Range
<1>6. IsFiniteSet(uploads) /\ Cardinality(uploads) = 0
  BY <1>2, FS_EmptySet
<1>7. selected \in [id : Ids \cup {NoId}, name : Texts]
  BY <1>2 DEF Nothing, Texts
<1>8. TypeOK
  <2>1. opened \in 0..MaxForms /\ presses \in 0..MaxPresses /\ top \in {0, opened}
    BY <1>2, EditorAssumption
  <2>2. Len(writes) + Cardinality(uploads) <= presses
    BY <1>2, <1>5, <1>6
  <2>3. alert \in BOOLEAN /\ uploads \subseteq Upload /\ kind \in {"category", "product"}
    BY <1>2
  <2> QED BY <1>3, <1>4, <1>5, <1>7, <2>1, <2>2, <2>3 DEF TypeOK
<1> QED
  BY <1>2, <1>3, <1>4, <1>5, <1>6, <1>8
     DEF IInv, FormsInv, CallsInv, HeldInv, EditsStayInPlace, ImageMatchesName

\* Something is typed, dismissed or left, or a call ends without a document.
LEMMA FormStep ==
    ASSUME IInv, UNCHANGED <<kind, items, stored, selected, opened, presses>>,
           top' \in {0, opened}, alert' \in BOOLEAN, forms' \in [1..opened -> FormState],
           \A f \in 1..opened :
               /\ forms'[f].toEdit = forms[f].toEdit /\ forms'[f].new = forms[f].new
               /\ forms'[f].held = forms[f].held /\ forms'[f].again = forms[f].again,
           uploads' \subseteq uploads, writes' \in Seq(Write), Len(writes') <= Len(writes),
           Range(writes') \subseteq Range(writes)
    PROVE  IInv'
<1>1. /\ IsFiniteSet(uploads') /\ Cardinality(uploads') <= Cardinality(uploads)
      /\ Cardinality(uploads) \in Nat /\ Cardinality(uploads') \in Nat
  BY FS_Subset, FS_CardinalityType DEF IInv, CallsInv
<1>2. Len(writes) \in Nat /\ Len(writes') \in Nat
  BY LenProperties DEF IInv, TypeOK
<1>3. Len(writes') + Cardinality(uploads') <= presses'
  <2>1. Len(writes) + Cardinality(uploads) <= presses /\ presses \in Nat /\ presses' = presses
    BY EditorAssumption DEF IInv, TypeOK
  <2> QED BY <1>1, <1>2, <2>1
<1>4. TypeOK'
  BY <1>3 DEF IInv, TypeOK
<1>5. FormsInv' /\ CallsInv'
  BY <1>1 DEF IInv, FormsInv, CallsInv
<1>6. HeldInv'
  BY DEF IInv, CallsInv, HeldInv
<1>7. ImagesExist' /\ EditsStayInPlace' /\ ImageMatchesName'
  BY DEF IInv, CallsInv, ImagesExist, EditsStayInPlace, ImageMatchesName
<1> QED BY <1>4, <1>5, <1>6, <1>7 DEF IInv

\* A form is opened over the screens.
LEMMA OpenStep ==
    ASSUME IInv, NEW toEdit \in Ids \cup {NoId}, NEW name \in Texts, NEW new \in BOOLEAN,
           OpenForm(toEdit, name, new),
           selected' \in [id : Ids \cup {NoId}, name : Texts],
           selected' # Nothing => selected'.id \in Ids,
           ~new => toEdit # NoId,
           kind = "category" /\ new => toEdit = NoId
    PROVE  IInv'
<1> DEFINE form == [toEdit |-> toEdit, text |-> name, held |-> Empty, hasImage |-> FALSE,
                    spinner |-> FALSE, new |-> new, again |-> FALSE]
<1>1. /\ opened < MaxForms /\ opened' = opened + 1 /\ top' = opened + 1
      /\ forms' = [f \in 1..opened + 1 |-> IF f <= opened THEN forms[f] ELSE form]
      /\ UNCHANGED <<kind, items, stored, alert, uploads, writes, presses>>
  BY DEF OpenForm
<1>2. opened \in Nat /\ MaxForms \in Nat /\ opened \in 0..MaxForms /\ forms \in [1..opened -> FormState]
  BY EditorAssumption DEF IInv, TypeOK
<1>3. form \in FormState /\ form.toEdit = toEdit /\ form.new = new
  BY DEF FormState, Texts
<1> HIDE DEF form
<1>4. /\ \A f \in 1..opened : f \in 1..opened' /\ forms'[f] = forms[f]
      /\ \A f \in 1..opened' : f \in 1..opened \/ forms'[f] = form
      /\ forms' \in [1..opened' -> FormState]
  BY <1>1, <1>2, <1>3
<1>5. TypeOK'
  <2>1. opened' \in 0..MaxForms /\ top' \in {0, opened'}
    BY <1>1, <1>2
  <2> QED BY <1>1, <1>4, <2>1 DEF IInv, TypeOK
<1>6. FormsInv'
  <2>1. ASSUME NEW f \in 1..opened'
        PROVE  /\ ~forms'[f].new => forms'[f].toEdit # NoId
               /\ kind = "category" /\ forms'[f].new => forms'[f].toEdit = NoId
    <3>1. CASE f \in 1..opened
      BY <1>4, <3>1 DEF IInv, FormsInv
    <3>2. CASE forms'[f] = form
      BY <1>3, <3>2
    <3> QED BY <1>4, <3>1, <3>2
  <2> QED BY <1>1, <2>1 DEF FormsInv
<1>7. CallsInv' /\ HeldInv'
  BY <1>1, <1>4 DEF IInv, CallsInv, HeldInv
<1>8. ImagesExist' /\ EditsStayInPlace' /\ ImageMatchesName'
  BY <1>1, <1>4 DEF IInv, CallsInv, ImagesExist, EditsStayInPlace, ImageMatchesName
<1> QED BY <1>5, <1>6, <1>7, <1>8 DEF IInv

\* Only what is selected changes.
LEMMA SelectStep ==
    ASSUME IInv, selected' \in [id : Ids \cup {NoId}, name : Texts],
           selected' # Nothing => selected'.id \in Ids,
           UNCHANGED <<kind, items, stored, forms, opened, top, alert, uploads, writes, presses>>
    PROVE  IInv'
<1>1. TypeOK'
  BY DEF IInv, TypeOK
<1>2. FormsInv' /\ CallsInv' /\ HeldInv'
  BY DEF IInv, FormsInv, CallsInv, HeldInv
<1>3. ImagesExist' /\ EditsStayInPlace' /\ ImageMatchesName'
  BY DEF IInv, ImagesExist, EditsStayInPlace, ImageMatchesName
<1> QED BY <1>1, <1>2, <1>3 DEF IInv

LEMMA ScreensStep == ASSUME IInv, Screens PROVE IInv'
<1>1. /\ selected \in [id : Ids \cup {NoId}, name : Texts] /\ TypeOK
      /\ selected # Nothing => selected.id \in Ids
      /\ Empty \in Texts /\ Nothing \in [id : Ids \cup {NoId}, name : Texts]
  BY DEF IInv, TypeOK, FormsInv, Texts, Nothing
<1>2. ASSUME NEW id \in Ids, SelectCategory(id) PROVE IInv'
  <2>1. id \in DOMAIN Shown /\ selected' = [id |-> id, name |-> Shown[id]]
    BY <1>2 DEF SelectCategory
  <2>2. /\ selected' \in [id : Ids \cup {NoId}, name : Texts]
        /\ selected'.id \in Ids
    BY <1>1, <2>1, ShownFacts
  <2> QED BY <1>2, <2>2, SelectStep DEF SelectCategory
<1>3. ASSUME NEW id \in Ids, DidSelectRow(id) PROVE IInv'
  <2>1. /\ id \in DOMAIN Shown /\ selected' = [id |-> id, name |-> Shown[id]]
        /\ kind = "product"
    BY <1>3 DEF DidSelectRow
  <2>2. /\ selected' \in [id : Ids \cup {NoId}, name : Texts]
        /\ selected'.id \in Ids /\ Shown[id] \in Texts
    BY <1>1, <2>1, ShownFacts
  <2> DEFINE name == Shown[id]
             new == FALSE
  <2>3. OpenForm(id, name, new) /\ name \in Texts /\ new \in BOOLEAN
    BY <1>3, <2>2 DEF DidSelectRow
  <2>4. id \in Ids \cup {NoId} /\ id # NoId /\ kind # "category"
    BY <2>1, EditorAssumption
  <2> HIDE DEF name, new
  <2> QED BY <2>2, <2>3, <2>4, OpenStep
<1>4. ASSUME OnEdditCategoryButtonPressed PROVE IInv'
  <2> DEFINE new == FALSE
  <2>1. /\ OpenForm(selected.id, selected.name, new) /\ ~new /\ new \in BOOLEAN
        /\ selected' = selected /\ selected # Nothing
    BY <1>4 DEF OnEdditCategoryButtonPressed
  <2>2. selected.id \in Ids \cup {NoId} /\ selected.id # NoId /\ selected.name \in Texts
    BY <1>1, <2>1, EditorAssumption
  <2> HIDE DEF new
  <2> QED BY <1>1, <2>1, <2>2, OpenStep
<1>5. ASSUME AddCategory PROVE IInv'
  <2> DEFINE new == TRUE
  <2>1. /\ OpenForm(NoId, Empty, new) /\ new /\ new \in BOOLEAN /\ selected' = selected
    BY <1>5 DEF AddCategory
  <2> HIDE DEF new
  <2> QED BY <1>1, <2>1, OpenStep
<1>6. ASSUME OnNewProductButtonPressed PROVE IInv'
  <2> DEFINE new == TRUE
  <2>1. /\ OpenForm(selected.id, selected.name, new) /\ new /\ new \in BOOLEAN
        /\ selected' = selected /\ kind # "category"
    BY <1>6 DEF OnNewProductButtonPressed
  <2>2. selected.id \in Ids \cup {NoId} /\ selected.name \in Texts
    BY <1>1
  <2> HIDE DEF new
  <2> QED BY <1>1, <2>1, <2>2, OpenStep
<1>7. ASSUME CloseList PROVE IInv'
  BY <1>1, <1>7, SelectStep DEF CloseList
<1> QED BY <1>2, <1>3, <1>4, <1>5, <1>6, <1>7 DEF Screens
------------------------------------------------------------------------------
(* The form. *)

LEMMA TopForm ==
    ASSUME IInv, Touchable
    PROVE  /\ top = opened /\ top \in 1..opened /\ opened \in 1..MaxForms
           /\ forms \in [1..opened -> FormState] /\ forms[top] \in FormState
  BY EditorAssumption DEF IInv, TypeOK, Touchable

\* What a step that leaves the writes and the form's types alone has to cite.
LEMMA NothingSent ==
    ASSUME IInv
    PROVE  /\ writes \in Seq(Write) /\ Len(writes) <= Len(writes)
           /\ top \in {0, opened} /\ alert \in BOOLEAN /\ forms \in [1..opened -> FormState]
<1>1. writes \in Seq(Write) /\ Len(writes) \in Nat
  BY LenProperties DEF IInv, TypeOK
<1> QED BY <1>1 DEF IInv, TypeOK

LEMMA TypeStep == ASSUME IInv, Type PROVE IInv'
<1>1. PICK text \in Texts : forms' = [forms EXCEPT ![top].text = text]
  BY DEF Type
<1>2. /\ UNCHANGED <<kind, items, stored, selected, opened, top, alert, uploads, writes, presses>>
      /\ Touchable
  BY DEF Type
<1>3. /\ [forms[top] EXCEPT !.text = text] \in FormState
      /\ [forms[top] EXCEPT !.text = text].toEdit = forms[top].toEdit
      /\ [forms[top] EXCEPT !.text = text].new = forms[top].new
      /\ [forms[top] EXCEPT !.text = text].held = forms[top].held
      /\ [forms[top] EXCEPT !.text = text].again = forms[top].again
  BY <1>2, TopForm DEF FormState
<1>4. forms' = [forms EXCEPT ![top] = [forms[top] EXCEPT !.text = text]]
  BY <1>1, <1>2, TopForm
<1>5. /\ forms' \in [1..opened -> FormState]
      /\ \A f \in 1..opened :
            /\ forms'[f].toEdit = forms[f].toEdit /\ forms'[f].new = forms[f].new
            /\ forms'[f].held = forms[f].held /\ forms'[f].again = forms[f].again
  BY <1>2, <1>3, <1>4, TopForm
<1> QED BY <1>2, <1>5, NothingSent, FormStep

LEMMA ImageArrivesStep == ASSUME IInv, ImageArrives PROVE IInv'
<1>1. /\ UNCHANGED <<kind, items, stored, selected, opened, top, alert, uploads, writes, presses>>
      /\ Touchable /\ forms' = [forms EXCEPT ![top].hasImage = TRUE]
  BY DEF ImageArrives
<1>2. /\ [forms[top] EXCEPT !.hasImage = TRUE] \in FormState
      /\ [forms[top] EXCEPT !.hasImage = TRUE].toEdit = forms[top].toEdit
      /\ [forms[top] EXCEPT !.hasImage = TRUE].new = forms[top].new
      /\ [forms[top] EXCEPT !.hasImage = TRUE].held = forms[top].held
      /\ [forms[top] EXCEPT !.hasImage = TRUE].again = forms[top].again
  BY <1>1, TopForm DEF FormState
<1>3. forms' = [forms EXCEPT ![top] = [forms[top] EXCEPT !.hasImage = TRUE]]
  BY <1>1, TopForm
<1>4. /\ forms' \in [1..opened -> FormState]
      /\ \A f \in 1..opened :
            /\ forms'[f].toEdit = forms[f].toEdit /\ forms'[f].new = forms[f].new
            /\ forms'[f].held = forms[f].held /\ forms'[f].again = forms[f].again
  BY <1>1, <1>2, <1>3, TopForm
<1> QED BY <1>1, <1>4, NothingSent, FormStep

\* What a press does to its form.
LEMMA PressedFacts ==
    ASSUME NEW f \in FormState
    PROVE  /\ Pressed(f) \in FormState
           /\ Pressed(f).toEdit = f.toEdit /\ Pressed(f).new = f.new
           /\ Pressed(f).held = f.text
           /\ Pressed(f).again <=> f.again \/ \E u \in uploads : u.form = top
<1> DEFINE again == f.again \/ \E u \in uploads : u.form = top
<1>1. again \in BOOLEAN
  OBVIOUS
<1>2. Pressed(f) = [f EXCEPT !.held = f.text, !.spinner = TRUE, !.again = again]
  BY DEF FormState, Pressed
<1> HIDE DEF again
<1>3. /\ Pressed(f) \in FormState
      /\ Pressed(f).toEdit = f.toEdit /\ Pressed(f).new = f.new
      /\ Pressed(f).held = f.text /\ Pressed(f).again = again
  BY <1>1, <1>2 DEF FormState
<1> USE DEF again
<1> QED BY <1>3

LEMMA PressStep == ASSUME IInv, UploadImageThenDocument PROVE IInv'
<1> DEFINE u == NewUpload(forms[top].text)
           g == Pressed(forms[top])
<1>1. /\ Touchable /\ presses < MaxPresses /\ forms[top].text # Empty /\ presses' = presses + 1
      /\ forms' = [forms EXCEPT ![top] = g]
      /\ uploads' = uploads \/ uploads' = uploads \cup {u}
      /\ UNCHANGED <<kind, items, stored, selected, opened, top, alert, writes>>
  BY DEF UploadImageThenDocument
<1>2. /\ top = opened /\ top \in 1..opened /\ opened \in 1..MaxForms
      /\ forms \in [1..opened -> FormState] /\ forms[top] \in FormState
  BY <1>1, TopForm
<1>3. /\ g \in FormState /\ g.toEdit = forms[top].toEdit /\ g.new = forms[top].new
      /\ g.held = forms[top].text
      /\ g.again <=> forms[top].again \/ \E v \in uploads : v.form = top
  BY <1>2, PressedFacts
<1>4. presses \in 0..MaxPresses /\ MaxPresses \in Nat
  BY EditorAssumption DEF IInv, TypeOK
<1>5. /\ u \in Upload /\ u.form = top /\ u.image = forms[top].text /\ ~u.stored
  <2>1. forms[top].text \in Names
    BY <1>1, <1>2 DEF FormState, Texts
  <2>2. presses + 1 \in 1..MaxPresses /\ top \in 1..MaxForms
    BY <1>1, <1>2, <1>4
  <2> QED BY <2>1, <2>2 DEF NewUpload, Upload
<1> HIDE DEF u, g
<1>6. /\ forms' \in [1..opened -> FormState] /\ forms'[top] = g
      /\ \A f \in 1..opened : /\ f # top => forms'[f] = forms[f]
                              /\ forms'[f].toEdit = forms[f].toEdit /\ forms'[f].new = forms[f].new
  BY <1>1, <1>2, <1>3
<1>7. /\ IsFiniteSet(uploads') /\ Cardinality(uploads') <= Cardinality(uploads) + 1
      /\ Cardinality(uploads) \in Nat /\ Cardinality(uploads') \in Nat
  <2>1. IsFiniteSet(uploads) /\ IsFiniteSet(uploads \cup {u})
    BY FS_AddElement DEF IInv, CallsInv
  <2>2. /\ Cardinality(uploads) \in Nat /\ Cardinality(uploads \cup {u}) \in Nat
        /\ Cardinality(uploads \cup {u}) <= Cardinality(uploads) + 1
    BY <2>1, FS_AddElement, FS_CardinalityType
  <2> QED BY <1>1, <2>1, <2>2
<1>8. TypeOK'
  <2>1. Len(writes') + Cardinality(uploads') <= presses' /\ presses' \in 0..MaxPresses
    <3>1. Len(writes) \in Nat /\ Len(writes) + Cardinality(uploads) <= presses
      BY LenProperties DEF IInv, TypeOK
    <3> QED BY <1>1, <1>4, <1>7, <3>1
  <2>2. uploads' \subseteq Upload
    BY <1>1, <1>5 DEF IInv, TypeOK
  <2> QED BY <1>1, <1>6, <2>1, <2>2 DEF IInv, TypeOK
<1>9. FormsInv'
  BY <1>1, <1>6 DEF IInv, FormsInv
<1>10. CallsInv'
  BY <1>1, <1>2, <1>5, <1>7 DEF IInv, CallsInv
<1>11. HeldInv'
  <2>1. ASSUME kind = "product", NEW v \in uploads', ~forms'[v.form].again
        PROVE  v.image = forms'[v.form].held
    <3>1. CASE v \in uploads /\ v.form # top
      BY <1>6, <2>1, <3>1 DEF IInv, CallsInv, HeldInv
    <3>2. CASE v \in uploads /\ v.form = top
      BY <1>3, <1>6, <2>1, <3>2
    <3>3. CASE v = u
      BY <1>3, <1>5, <1>6, <3>3
    <3> QED BY <1>1, <2>1, <3>1, <3>2, <3>3
  <2> QED BY <1>1, <2>1 DEF HeldInv
<1>12. ImagesExist' /\ EditsStayInPlace'
  BY <1>1, <1>6 DEF IInv, CallsInv, ImagesExist, EditsStayInPlace
<1>13. ImageMatchesName'
  <2>1. \A f \in 1..opened : forms[f].again => forms'[f].again
    BY <1>3, <1>6
  <2> QED BY <1>1, <2>1 DEF IInv, CallsInv, ImageMatchesName
<1> QED BY <1>8, <1>9, <1>10, <1>11, <1>12, <1>13 DEF IInv

LEMMA TouchStep == ASSUME IInv, Touch PROVE IInv'
<1>1. ASSUME MissingFields \/ Back \/ AlertOk PROVE IInv'
  <2>1. /\ UNCHANGED <<kind, items, stored, selected, forms, opened, uploads, writes, presses>>
        /\ top' \in {0, top} /\ alert' \in BOOLEAN
    BY <1>1, NothingSent DEF MissingFields, Back, AlertOk
  <2>2. top' \in {0, opened}
    BY <2>1, NothingSent
  <2> QED BY <2>1, <2>2, NothingSent, FormStep
<1> QED BY <1>1, TypeStep, ImageArrivesStep, PressStep DEF Touch
------------------------------------------------------------------------------
(* The answers of Storage and Firestore. *)

LEMMA ImageStoredStep == ASSUME IInv, NEW u \in uploads, ImageStored(u) PROVE IInv'
<1> DEFINE v == [u EXCEPT !.stored = TRUE]
<1>1. /\ stored' = stored \cup {u.image} /\ uploads' = (uploads \ {u}) \cup {v}
      /\ UNCHANGED <<kind, items, selected, forms, opened, top, alert, writes, presses>>
  BY DEF ImageStored
<1>2. u \in Upload
  BY DEF IInv, TypeOK
<1>3. /\ v \in Upload /\ v.form = u.form /\ v.image = u.image /\ u.image \in Names
  BY <1>2 DEF Upload
<1> HIDE DEF v
<1>4. /\ IsFiniteSet(uploads') /\ Cardinality(uploads') <= Cardinality(uploads)
      /\ Cardinality(uploads) \in Nat /\ Cardinality(uploads') \in Nat
  <2>1. /\ IsFiniteSet(uploads) /\ IsFiniteSet(uploads \ {u})
        /\ Cardinality(uploads \ {u}) = Cardinality(uploads) - 1
    BY FS_RemoveElement DEF IInv, CallsInv
  <2>2. /\ IsFiniteSet((uploads \ {u}) \cup {v})
        /\ Cardinality((uploads \ {u}) \cup {v}) = IF v \in uploads \ {u}
              THEN Cardinality(uploads \ {u}) ELSE Cardinality(uploads \ {u}) + 1
    BY <2>1, FS_AddElement
  <2>3. Cardinality(uploads) \in Nat /\ Cardinality((uploads \ {u}) \cup {v}) \in Nat
    BY <2>1, <2>2, FS_CardinalityType
  <2> QED BY <1>1, <2>1, <2>2, <2>3
<1>5. TypeOK'
  <2>1. Len(writes') + Cardinality(uploads') <= presses'
    <3>1. /\ Len(writes) \in Nat /\ Len(writes) + Cardinality(uploads) <= presses
          /\ presses \in Nat
      BY LenProperties, EditorAssumption DEF IInv, TypeOK
    <3> QED BY <1>1, <1>4, <3>1
  <2>2. uploads' \subseteq Upload /\ stored' \subseteq Names
    BY <1>1, <1>3 DEF IInv, TypeOK
  <2> QED BY <1>1, <2>1, <2>2 DEF IInv, TypeOK
<1>6. FormsInv' /\ HeldInv'
  BY <1>1, <1>3 DEF IInv, FormsInv, HeldInv
<1>7. CallsInv'
  BY <1>1, <1>3, <1>4 DEF IInv, CallsInv
<1>8. ImagesExist' /\ EditsStayInPlace' /\ ImageMatchesName'
  BY <1>1 DEF IInv, ImagesExist, EditsStayInPlace, ImageMatchesName
<1> QED BY <1>5, <1>6, <1>7, <1>8 DEF IInv

\* A document is written: the one its form was opened for.
LEMMA WriteStep ==
    ASSUME IInv, NEW u \in uploads, NEW id \in Ids, u.stored, WriteDocument(u, id),
           ~forms[u.form].new => id = forms[u.form].toEdit
    PROVE  IInv'
<1> DEFINE w == [form |-> u.form, id |-> id, name |-> SavedName(u.form), image |-> u.image]
<1>1. /\ uploads' = uploads \ {u} /\ writes' = Append(writes, w)
      /\ UNCHANGED <<kind, items, stored, selected, forms, opened, top, alert, presses>>
  BY DEF WriteDocument
<1>2. /\ u \in Upload /\ u.form \in 1..opened /\ u.image \in stored
      /\ forms \in [1..opened -> FormState] /\ writes \in Seq(Write)
  BY DEF IInv, TypeOK, CallsInv
<1>3. /\ w \in Write /\ w.form = u.form /\ w.id = id /\ w.image = u.image
      /\ w.name = SavedName(u.form)
  <2>1. forms[u.form] \in FormState
    BY <1>2
  <2>2. SavedName(u.form) \in Texts
    BY <2>1 DEF SavedName, CategoryName, ProductName, FormState
  <2> QED BY <1>2, <2>2 DEF Write, Upload
<1> HIDE DEF w
<1>4. /\ writes' \in Seq(Write) /\ Len(writes') = Len(writes) + 1 /\ Len(writes) \in Nat
      /\ Range(writes') = Range(writes) \cup {w}
  BY <1>1, <1>2, <1>3, RangeFacts
<1>5. /\ IsFiniteSet(uploads') /\ Cardinality(uploads') = Cardinality(uploads) - 1
      /\ Cardinality(uploads) \in Nat
  BY <1>1, FS_RemoveElement, FS_CardinalityType DEF IInv, CallsInv
<1>6. TypeOK'
  <2>1. Len(writes') + Cardinality(uploads') <= presses'
    <3>1. Len(writes) + Cardinality(uploads) <= presses /\ presses \in Nat
      BY EditorAssumption DEF IInv, TypeOK
    <3> QED BY <1>1, <1>4, <1>5, <3>1
  <2> QED BY <1>1, <1>4, <2>1 DEF IInv, TypeOK
<1>7. FormsInv' /\ HeldInv'
  BY <1>1 DEF IInv, FormsInv, HeldInv
<1>8. CallsInv'
  BY <1>1, <1>2, <1>3, <1>4, <1>5 DEF IInv, CallsInv
<1>9. ImagesExist' /\ EditsStayInPlace'
  BY <1>1, <1>3, <1>4 DEF IInv, ImagesExist, EditsStayInPlace
<1>10. ImageMatchesName'
  <2>1. kind = "product" /\ ~forms[u.form].again => w.name = w.image
    BY <1>3 DEF IInv, HeldInv, SavedName, ProductName
  <2> QED BY <1>1, <1>3, <1>4, <2>1 DEF IInv, ImageMatchesName
<1> QED BY <1>6, <1>7, <1>8, <1>9, <1>10 DEF IInv

LEMMA DocumentSavedStep == ASSUME IInv, DocumentSaved PROVE IInv'
<1> DEFINE w == Head(writes)
<1>1. /\ writes # <<>> /\ writes' = Tail(writes)
      /\ items' = [id \in DOMAIN items \cup {w.id} |->
                     IF id = w.id THEN [name |-> w.name, image |-> w.image] ELSE items[id]]
      /\ top' \in {0, top}
      /\ UNCHANGED <<kind, stored, selected, forms, opened, alert, uploads, presses>>
  BY DEF DocumentSaved
<1>2. writes \in Seq(Write)
  BY DEF IInv, TypeOK
<1>3. /\ writes' \in Seq(Write) /\ Len(writes') = Len(writes) - 1 /\ Len(writes) \in Nat
      /\ Range(writes') \subseteq Range(writes)
      /\ w \in Range(writes) /\ w \in Write
  BY <1>1, <1>2, RangeFacts
<1>4. w.image \in stored
  BY <1>3 DEF IInv, CallsInv
<1> HIDE DEF w
<1>5. ASSUME NEW id \in DOMAIN items'
      PROVE  id \in Ids /\ items'[id] \in Item /\ items'[id].image \in stored'
  BY <1>1, <1>3, <1>4 DEF IInv, TypeOK, ImagesExist, Item, Write
<1>6. TypeOK'
  <2>1. Len(writes') + Cardinality(uploads') <= presses'
    <3>1. /\ Len(writes) + Cardinality(uploads) <= presses /\ presses \in Nat
          /\ Cardinality(uploads) \in Nat
      BY FS_CardinalityType, EditorAssumption DEF IInv, TypeOK, CallsInv
    <3> QED BY <1>1, <1>3, <3>1
  <2>2. top' \in {0, opened'}
    BY <1>1 DEF IInv, TypeOK
  <2> QED BY <1>1, <1>3, <1>5, <2>1, <2>2 DEF IInv, TypeOK
<1>7. FormsInv' /\ CallsInv' /\ HeldInv'
  BY <1>1, <1>3 DEF IInv, FormsInv, CallsInv, HeldInv
<1>8. ImagesExist' /\ EditsStayInPlace' /\ ImageMatchesName'
  BY <1>1, <1>3, <1>5 DEF IInv, ImagesExist, EditsStayInPlace, ImageMatchesName
<1> QED BY <1>6, <1>7, <1>8 DEF IInv

LEMMA ErrorFacts ==
    ASSUME IInv, NEW f \in 1..opened, HandleError(f)
    PROVE  /\ alert' \in BOOLEAN /\ forms' \in [1..opened -> FormState]
           /\ \A g \in 1..opened :
                 /\ forms'[g].toEdit = forms[g].toEdit /\ forms'[g].new = forms[g].new
                 /\ forms'[g].held = forms[g].held /\ forms'[g].again = forms[g].again
<1>1. alert' \in BOOLEAN
  BY DEF HandleError
<1>2. forms \in [1..opened -> FormState] /\ forms[f] \in FormState
  BY DEF IInv, TypeOK
<1>3. forms' = [forms EXCEPT ![f] = [forms[f] EXCEPT !.spinner = FALSE]]
  BY <1>2 DEF HandleError
<1>4. /\ [forms[f] EXCEPT !.spinner = FALSE] \in FormState
      /\ [forms[f] EXCEPT !.spinner = FALSE].toEdit = forms[f].toEdit
      /\ [forms[f] EXCEPT !.spinner = FALSE].new = forms[f].new
      /\ [forms[f] EXCEPT !.spinner = FALSE].held = forms[f].held
      /\ [forms[f] EXCEPT !.spinner = FALSE].again = forms[f].again
  BY <1>2 DEF FormState
<1> QED BY <1>1, <1>2, <1>3, <1>4

LEMMA AnswersStep == ASSUME IInv, Answers PROVE IInv'
<1>1. ASSUME NEW u \in uploads, UploadDocument(u) PROVE IInv'
  <2>1. u.form \in 1..opened /\ forms[u.form] \in FormState
    BY DEF IInv, CallsInv, TypeOK
  <2>2. CASE forms[u.form].toEdit # NoId /\ WriteDocument(u, forms[u.form].toEdit)
    <3>1. forms[u.form].toEdit \in Ids
      BY <2>1, <2>2 DEF FormState
    <3> QED BY <1>1, <2>2, <3>1, WriteStep DEF UploadDocument
  <2>3. ASSUME forms[u.form].toEdit = NoId, NEW id \in FreshIds, WriteDocument(u, id) PROVE IInv'
    <3>1. id \in Ids
      BY DEF FreshIds
    <3>2. forms[u.form].new
      BY <2>1, <2>3 DEF IInv, FormsInv
    <3> QED BY <1>1, <2>3, <3>1, <3>2, WriteStep DEF UploadDocument
  <2> QED BY <1>1, <2>2, <2>3 DEF UploadDocument
<1>2. ASSUME NEW u \in uploads, UploadFails(u) PROVE IInv'
  <2>1. u.form \in 1..opened /\ HandleError(u.form) /\ uploads' \subseteq uploads
    BY <1>2 DEF UploadFails, IInv, CallsInv
  <2> QED BY <1>2, <2>1, ErrorFacts, NothingSent, FormStep DEF UploadFails
<1>3. ASSUME DocumentRefused PROVE IInv'
  <2>1. /\ writes # <<>> /\ writes' = Tail(writes) /\ HandleError(Head(writes).form)
        /\ UNCHANGED <<kind, items, stored, selected, opened, top, uploads, presses>>
    BY <1>3 DEF DocumentRefused
  <2>2. writes \in Seq(Write)
    BY DEF IInv, TypeOK
  <2>3. /\ writes' \in Seq(Write) /\ Len(writes') = Len(writes) - 1 /\ Len(writes) \in Nat
        /\ Range(writes') \subseteq Range(writes) /\ Head(writes) \in Range(writes)
    BY <2>1, <2>2, RangeFacts
  <2>4. Head(writes).form \in 1..opened /\ Len(writes') <= Len(writes)
    BY <2>3 DEF IInv, CallsInv
  <2> QED BY <2>1, <2>3, <2>4, ErrorFacts, NothingSent, FormStep
<1> QED BY <1>1, <1>2, <1>3, ImageStoredStep, DocumentSavedStep DEF Answers, ImageAnswers

LEMMA EditorStep == ASSUME IInv, [Next]_vars PROVE IInv'
<1>1. CASE UNCHANGED vars
  BY <1>1, SelectStep DEF vars, IInv, TypeOK, FormsInv
<1> QED BY <1>1, ScreensStep, TouchStep, AnswersStep DEF Next

LEMMA EditorInductive == Spec => []IInv
  BY EditorInitially, EditorStep, PTL DEF Spec

\* A category's form to add one writes, of all steps, a document that is not shown.
LEMMA CategoryAdds == ASSUME IInv, [Next]_vars, kind = "category" PROVE AddsNew
<1>1. SUFFICES ASSUME NEW u \in uploads, u \notin uploads', Len(writes') > Len(writes),
                      forms[u.form].new
               PROVE  Last(writes').id \notin DOMAIN Shown
  BY DEF AddsNew
<1>2. writes \in Seq(Write) /\ Len(writes) \in Nat
  BY LenProperties DEF IInv, TypeOK
<1>3. writes' # writes
  BY <1>1, <1>2
<1>4. ~ (writes # <<>> /\ writes' = Tail(writes))
  <2>1. writes # <<>> => Len(Tail(writes)) = Len(writes) - 1
    BY <1>2, RangeFacts
  <2> QED BY <1>1, <1>2, <2>1
<1>5. \E v \in uploads : UploadDocument(v)
  BY <1>3, <1>4
     DEF Next, vars, Screens, SelectCategory, DidSelectRow, OnEdditCategoryButtonPressed, AddCategory,
         OnNewProductButtonPressed, OpenForm, CloseList, Touch, Type, ImageArrives, MissingFields,
         UploadImageThenDocument, Back, AlertOk, Answers, ImageAnswers, ImageStored, UploadFails,
         DocumentSaved, DocumentRefused
<1>6. PICK v \in uploads : UploadDocument(v)
  BY <1>5
<1>7. v = u
  BY <1>1, <1>6 DEF UploadDocument, WriteDocument
<1>8. u.form \in 1..opened /\ forms[u.form].toEdit = NoId
  BY <1>1 DEF IInv, CallsInv, FormsInv
<1>9. PICK id \in FreshIds : WriteDocument(u, id)
  BY <1>6, <1>7, <1>8 DEF UploadDocument
<1> DEFINE w == [form |-> u.form, id |-> id, name |-> SavedName(u.form), image |-> u.image]
<1>10. writes' = Append(writes, w) /\ w.id = id
  BY <1>9 DEF WriteDocument
<1> HIDE DEF w
<1>11. Last(writes') = w
  <2>1. /\ Len(Append(writes, w)) = Len(writes) + 1
        /\ Append(writes, w)[Len(writes) + 1] = w
    BY <1>2
  <2> QED BY <1>10, <2>1 DEF Last
<1>12. id \notin DOMAIN Shown
  BY DEF FreshIds
<1> QED BY <1>10, <1>11, <1>12
------------------------------------------------------------------------------
(* What follows. *)

\* The state of the editor stays within its types.
THEOREM EditorTypeCorrect == Spec => []TypeOK
<1>1. IInv => TypeOK
  BY DEF IInv
<1> QED BY <1>1, EditorInductive, PTL

\* No document of the catalogue names an image that has not been stored: each call
\* of uploadImageThenDocument waits for the one before, whatever fails or overlaps.
THEOREM ImagesExistAlways == Spec => []ImagesExist
<1>1. IInv => ImagesExist
  BY DEF IInv
<1> QED BY <1>1, EditorInductive, PTL

\* A form opened to edit a document writes that one (uploadDocument), even when it
\* has been left and others have been opened before the write.
THEOREM EditsStayInPlaceAlways == Spec => []EditsStayInPlace
<1>1. IInv => EditsStayInPlace
  BY DEF IInv
<1> QED BY <1>1, EditorInductive, PTL

\* A product's form that is not pressed again while its image travels writes the
\* name the image is stored under, whatever is typed meanwhile.
THEOREM ImageMatchesNameAlways == Spec => []ImageMatchesName
<1>1. IInv => ImageMatchesName
  BY DEF IInv
<1> QED BY <1>1, EditorInductive, PTL

\* The form of addCategory overwrites no category, whatever has been edited before.
THEOREM NewCategoryIsNewAlways == Spec => NewCategoryIsNew
<1>1. IInv /\ [Next]_vars => [kind = "category" => AddsNew]_vars
  BY CategoryAdds
<1> QED BY <1>1, EditorInductive, PTL DEF Spec, NewCategoryIsNew
==============================================================================
