---------------------------- MODULE CatalogEditor ----------------------------
(***************************************************************************)
(* The two forms of the admin app: AddEdditCategory and AddEdditProducts.  *)
(* A press of the form's button stores the image, asks for its URL and     *)
(* writes the document, one asynchronous call after the other, while the   *)
(* form stays editable and may be pressed again or left.  The forms differ *)
(* in when the document's name is read, and in what the screens before     *)
(* them hand over.                                                         *)
(***************************************************************************)
EXTENDS Naturals, SequencesExt

CONSTANTS
    Ids,        \* document ids
    NoId,       \* no document: nothing selected, nothing to edit
    Names,      \* what may be typed as a name
    Empty,      \* the empty text field
    MaxForms,   \* bound on forms opened in a run
    MaxPresses  \* bound on presses of the button

ASSUME EditorAssumption ==
    /\ NoId \notin Ids /\ Empty \notin Names
    /\ MaxForms \in Nat /\ MaxPresses \in Nat

VARIABLES
    kind,      \* which catalogue is edited: "category" or "product"
    items,     \* the collection: id -> name, and the name its image is under
    stored,    \* names an image is stored under (Firebase Storage)
    selected,  \* selectedProduct, or the category of the product list
    forms,     \* every form opened
    opened,    \* how many were; the last may be on the stack
    top,       \* the form on the stack, 0 for none
    alert,     \* an alert is presented over it
    uploads,   \* presses whose image is on its way
    writes,    \* documents written and not yet acknowledged, in order
    presses    \* how many presses there were

vars == <<kind, items, stored, selected, forms, opened, top, alert, uploads, writes, presses>>

Texts == Names \cup {Empty}
Item  == [name : Texts, image : Names]

\* toEdit is categoryToEdit or productToEdit; held is the product form's name
\* property; text stands for every field the form asks for. Two history
\* fields: new, the form was opened to add something, and again, it has been
\* pressed while an upload of it was on its way.
FormState == [toEdit : Ids \cup {NoId}, text : Texts, held : Texts,
              hasImage : BOOLEAN, spinner : BOOLEAN,
              new : BOOLEAN, again : BOOLEAN]

Upload == [press : 1..MaxPresses, form : 1..MaxForms, image : Names, stored : BOOLEAN]

Write == [form : 1..MaxForms, id : Ids, name : Texts, image : Names]

TypeOK ==
    /\ kind \in {"category", "product"}
    /\ DOMAIN items \subseteq Ids
    /\ \A id \in DOMAIN items : items[id] \in Item
    /\ stored \subseteq Names
    /\ selected \in [id : Ids \cup {NoId}, name : Texts]
    /\ opened \in 0..MaxForms
    /\ forms \in [1..opened -> FormState]
    /\ top \in {0, opened}
    /\ alert \in BOOLEAN
    /\ uploads \subseteq Upload
    /\ writes \in Seq(Write) /\ Len(writes) + Cardinality(uploads) <= presses
    /\ presses \in 0..MaxPresses

Nothing == [id |-> NoId, name |-> Empty]

Init ==
    /\ kind \in {"category", "product"}
    /\ \E existing \in SUBSET Ids :
          /\ items \in [existing -> {i \in Item : i.name = i.image}]
          /\ stored = {items[id].image : id \in existing}
    /\ selected = Nothing
    /\ forms = <<>> /\ opened = 0 /\ top = 0
    /\ alert = FALSE
    /\ uploads = {} /\ writes = <<>> /\ presses = 0
------------------------------------------------------------------------------
(* The screens before the forms. *)

\* viewDidLoad of a form: filled in if there is something to edit.
OpenForm(toEdit, name, new) ==
    /\ top = 0
    /\ opened < MaxForms
    /\ opened' = opened + 1
    /\ top' = opened + 1
    /\ forms' = [f \in 1..opened + 1 |->
          IF f <= opened THEN forms[f]
          ELSE [toEdit |-> toEdit, text |-> name, held |-> Empty,
                hasImage |-> FALSE, spinner |-> FALSE,
                new |-> new, again |-> FALSE]]
    /\ UNCHANGED <<kind, items, stored, alert, uploads, writes, presses>>

\* The names of the collection as this device shows them: its own writes are
\* applied before the server has acknowledged them.
WritesOf(id) == {i \in DOMAIN writes : writes[i].id = id}

Shown ==
    [id \in DOMAIN items \cup {w.id : w \in Range(writes)} |->
        IF WritesOf(id) = {} THEN items[id].name ELSE writes[Max(WritesOf(id))].name]

\* A category is tapped: the product list gets a copy of it.
SelectCategory(id) ==
    /\ kind = "category" /\ top = 0 /\ selected = Nothing
    /\ id \in DOMAIN Shown
    /\ selected' = [id |-> id, name |-> Shown[id]]
    /\ UNCHANGED <<kind, items, stored, forms, opened, top, alert, uploads, writes, presses>>

\* "Eddit Category" of the product list.
OnEdditCategoryButtonPressed ==
    /\ kind = "category" /\ selected # Nothing
    /\ OpenForm(selected.id, selected.name, FALSE)
    /\ UNCHANGED selected

\* Mutant: the home screen hands over what was edited last.
AddCategoryEditsLast ==
    /\ kind = "category" /\ selected = Nothing
    /\ OpenForm(IF opened = 0 THEN NoId ELSE forms[opened].toEdit, Empty, TRUE)
    /\ UNCHANGED selected

\* "Add Category" of the home screen.
AddCategory ==
    /\ kind = "category" /\ selected = Nothing
    /\ OpenForm(NoId, Empty, TRUE)
    /\ UNCHANGED selected

\* A product is tapped.
DidSelectRow(id) ==
    /\ kind = "product"
    /\ id \in DOMAIN Shown
    /\ selected' = [id |-> id, name |-> Shown[id]]
    /\ OpenForm(id, Shown[id], FALSE)

\* "+ Product": the form is handed what was selected last, too.
OnNewProductButtonPressed ==
    /\ kind = "product"
    /\ OpenForm(selected.id, selected.name, TRUE)
    /\ UNCHANGED selected

\* The product list is left.
CloseList ==
    /\ top = 0 /\ selected # Nothing
    /\ selected' = Nothing
    /\ UNCHANGED <<kind, items, stored, forms, opened, top, alert, uploads, writes, presses>>
------------------------------------------------------------------------------
(* The form. *)

Touchable == top # 0 /\ ~alert

Type ==
    /\ Touchable
    /\ \E text \in Texts : forms' = [forms EXCEPT ![top].text = text]
    /\ UNCHANGED <<kind, items, stored, selected, opened, top, alert, uploads, writes, presses>>

\* The image of the item has been loaded, or one has been picked.
ImageArrives ==
    /\ Touchable
    /\ forms' = [forms EXCEPT ![top].hasImage = TRUE]
    /\ UNCHANGED <<kind, items, stored, selected, opened, top, alert, uploads, writes, presses>>

\* uploadImageThenDocument: an alert if something is missing; then nothing
\* but the spinner if the image cannot be encoded.
MissingFields ==
    /\ Touchable
    /\ ~forms[top].hasImage \/ forms[top].text = Empty
    /\ alert' = TRUE
    /\ UNCHANGED <<kind, items, stored, selected, forms, opened, top, uploads, writes, presses>>

Pressed(f) == [f EXCEPT !.held = f.text, !.spinner = TRUE,
                        !.again = @ \/ \E u \in uploads : u.form = top]

NewUpload(image) ==
    [press |-> presses + 1, form |-> top, image |-> image, stored |-> FALSE]

UploadImageThenDocument ==
    /\ Touchable
    /\ presses < MaxPresses
    /\ forms[top].hasImage /\ forms[top].text # Empty
    /\ presses' = presses + 1
    /\ forms' = [forms EXCEPT ![top] = Pressed(@)]
    /\ uploads' \in {uploads, uploads \cup {NewUpload(forms[top].text)}}
    /\ UNCHANGED <<kind, items, stored, selected, opened, top, alert, writes>>

Back ==
    /\ Touchable
    /\ top' = 0
    /\ UNCHANGED <<kind, items, stored, selected, forms, opened, alert, uploads, writes, presses>>

AlertOk ==
    /\ alert
    /\ alert' = FALSE
    /\ UNCHANGED <<kind, items, stored, selected, forms, opened, top, uploads, writes, presses>>
------------------------------------------------------------------------------
(* The calls of an upload, each in the block of the one before. *)

\* putData: an image of the same name is replaced.
ImageStored(u) ==
    /\ ~u.stored
    /\ stored' = stored \cup {u.image}
    /\ uploads' = (uploads \ {u}) \cup {[u EXCEPT !.stored = TRUE]}
    /\ UNCHANGED <<kind, items, selected, forms, opened, top, alert, writes, presses>>

\* The name of a category is read from the text field now; that of a product
\* was kept at the last press.
CategoryName(f) == forms[f].text
ProductName(f) == forms[f].held

SavedName(f) == IF kind = "category" THEN CategoryName(f) ELSE ProductName(f)

\* document() makes an id nobody has had.
FreshIds == Ids \ (DOMAIN Shown \cup {selected.id} \cup {forms[f].toEdit : f \in 1..opened})

\* setData.
WriteDocument(u, id) ==
    /\ uploads' = uploads \ {u}
    /\ writes' = Append(writes, [form |-> u.form, id |-> id,
                                 name |-> SavedName(u.form), image |-> u.image])
    /\ UNCHANGED <<kind, items, stored, selected, forms, opened, top, alert, presses>>

\* Mutant: the document to edit is written even if there is none.
UploadDocumentEdits(u) == u.stored /\ WriteDocument(u, forms[u.form].toEdit)

\* Mutant: the document to edit is not looked at.
UploadDocumentNew(u) == u.stored /\ \E id \in FreshIds : WriteDocument(u, id)

\* Mutant: the document does not wait for its image.
UploadDocumentAtOnce(u) ==
    \/ forms[u.form].toEdit # NoId /\ WriteDocument(u, forms[u.form].toEdit)
    \/ forms[u.form].toEdit = NoId /\ \E id \in FreshIds : WriteDocument(u, id)

\* downloadURL, and uploadDocument.
UploadDocument(u) ==
    /\ u.stored
    /\ \/ forms[u.form].toEdit # NoId /\ WriteDocument(u, forms[u.form].toEdit)
       \/ forms[u.form].toEdit = NoId /\ \E id \in FreshIds : WriteDocument(u, id)

\* The server acknowledges writes in order. The form is popped, unless it is
\* gone.
DocumentSaved ==
    /\ writes # <<>>
    /\ LET w == Head(writes) IN
        /\ items' = [id \in DOMAIN items \cup {w.id} |->
                       IF id = w.id THEN [name |-> w.name, image |-> w.image] ELSE items[id]]
        /\ top' = IF w.form = top THEN 0 ELSE top
    /\ writes' = Tail(writes)
    /\ UNCHANGED <<kind, stored, selected, forms, opened, alert, uploads, presses>>

\* Mutant: the error is only logged.
HandleErrorSilently(f) == UNCHANGED <<alert, forms>>

\* handleError.
HandleError(f) ==
    /\ alert' = (alert \/ f = top)
    /\ forms' = [forms EXCEPT ![f].spinner = FALSE]

UploadFails(u) ==
    /\ uploads' = uploads \ {u}
    /\ HandleError(u.form)
    /\ UNCHANGED <<kind, items, stored, selected, opened, top, writes, presses>>

DocumentRefused ==
    /\ writes # <<>>
    /\ writes' = Tail(writes)
    /\ HandleError(Head(writes).form)
    /\ UNCHANGED <<kind, items, stored, selected, opened, top, uploads, presses>>
------------------------------------------------------------------------------
Screens ==
    \/ \E id \in Ids : SelectCategory(id) \/ DidSelectRow(id)
    \/ OnEdditCategoryButtonPressed \/ AddCategory
    \/ OnNewProductButtonPressed \/ CloseList

Touch ==
    \/ Type \/ ImageArrives \/ MissingFields \/ UploadImageThenDocument
    \/ Back \/ AlertOk

ImageAnswers == \E u \in uploads : ImageStored(u) \/ UploadDocument(u) \/ UploadFails(u)

Answers == ImageAnswers \/ DocumentSaved \/ DocumentRefused

Next == Screens \/ Touch \/ Answers

Spec == Init /\ [][Next]_vars

\* Storage and Firestore answer.
FairSpec == Spec /\ WF_vars(ImageAnswers) /\ WF_vars(DocumentSaved \/ DocumentRefused)
------------------------------------------------------------------------------
\* No document of the catalogue names an image that is not there: whatever
\* overlaps or fails, a document follows its image.
ImagesExist == \A id \in DOMAIN items : items[id].image \in stored

\* What was opened to edit a document writes that document and no other, even
\* when the form has been left, and another one opened, before it is written.
EditsStayInPlace ==
    \A w \in Range(writes) : ~forms[w.form].new => w.id = forms[w.form].toEdit

\* A form that was opened to add something writes a document that is not there
\* yet: "// add new product".
AddsNew ==
    \A u \in uploads :
        u \notin uploads' /\ Len(writes') > Len(writes) /\ forms[u.form].new
        => Last(writes').id \notin DOMAIN Shown

\* The add form of the home screen overwrites no category, whatever has been
\* edited before; and that of the products ...
NewCategoryIsNew == [][kind = "category" => AddsNew]_vars

\* ... overwrites no product.
NewProductIsNew == [][kind = "product" => AddsNew]_vars

\* A product whose form was not pressed again meanwhile is shown with the
\* image uploaded for its name, whatever is typed while the image travels.
ImageMatchesName ==
    kind = "product" =>
        \A w \in Range(writes) : ~forms[w.form].again => w.name = w.image

\* An upload ends for its form: it is left, popped, or its spinner stops.
UploadsEnd ==
    \A f \in 1..MaxForms :
        (\E u \in uploads : u.form = f)
        ~> (top # f \/ (f \in DOMAIN forms /\ ~forms[f].spinner))
==============================================================================
