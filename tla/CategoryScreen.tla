---------------------------- MODULE CategoryScreen ----------------------------
(***************************************************************************)
(* The list of categories on the home screen: a listener that is added     *)
(* whenever the screen appears and removed, with the rows, whenever it is  *)
(* about to disappear (behind a pushed screen or the login flow).          *)
(***************************************************************************)
EXTENDS QueryListeners

VARIABLES categoryArray,     \* the rows, or Trap
          listener,          \* the registration the screen holds
          visible,           \* between viewDidAppear and viewWillDisappear
          selectedCategory   \* id of the category last tapped, 0 for nil

vars == <<queryVars, categoryArray, listener, visible, selectedCategory>>

TypeOK ==
    /\ QueryTypeOK
    /\ categoryArray = Trap \/ categoryArray \in Seq(Docs)
    /\ listener \in Nat \cup {NoReg}
    /\ visible \in BOOLEAN
    /\ selectedCategory \in DocIds \cup {0}

Init ==
    /\ QueryInit
    /\ categoryArray = <<>> /\ listener = NoReg /\ visible = FALSE /\ selectedCategory = 0

\* viewDidAppear, setCategoriesListner.
ViewDidAppear ==
    /\ ~visible
    /\ visible' = TRUE
    /\ AddListener
    /\ listener' = FreshReg
    /\ UNCHANGED <<docs, writes, categoryArray, selectedCategory>>

\* Mutant: the rows are cleared, the listener stays.
HideWithoutRemove ==
    /\ visible' = FALSE
    /\ categoryArray' = <<>>
    /\ UNCHANGED <<docs, writes, live, listener>>

\* Mutant: the listener is removed, the rows stay.
HideWithoutClear ==
    /\ visible' = FALSE
    /\ live' = Removed(listener)
    /\ UNCHANGED <<docs, writes, listener, categoryArray>>

\* viewWillDisappear.
Hide ==
    /\ visible' = FALSE
    /\ live' = Removed(listener)
    /\ categoryArray' = <<>>
    /\ UNCHANGED <<docs, writes, listener>>

\* The login flow, the cart or the favourites cover the screen.
ViewWillDisappear ==
    /\ visible
    /\ Hide
    /\ UNCHANGED selectedCategory

\* A row is tapped: the category is passed on and the product screen pushed.
DidSelectItem ==
    /\ visible /\ categoryArray # Trap
    /\ \E i \in 1..Len(categoryArray) : selectedCategory' = categoryArray[i].id
    /\ Hide

\* The snapshot callback.
Snapshot(reg) ==
    /\ Deliver(reg)
    /\ categoryArray' = ApplyAll(categoryArray, NextChanges(reg))
    /\ UNCHANGED <<docs, writes, listener, visible, selectedCategory>>

\* The callback gets an error and returns; Firestore ends the listener.
ListenerFails(reg) ==
    /\ reg \in DOMAIN live
    /\ live' = Removed(reg)
    /\ UNCHANGED <<docs, writes, categoryArray, listener, visible, selectedCategory>>

CollectionChanges ==
    /\ Write
    /\ UNCHANGED <<categoryArray, listener, visible, selectedCategory>>

Next ==
    \/ ViewDidAppear \/ ViewWillDisappear \/ DidSelectItem \/ CollectionChanges
    \/ \E reg \in DOMAIN live : Snapshot(reg) \/ ListenerFails(reg)

Spec == Init /\ [][Next]_vars

\* The main queue is drained.
FairSpec == Spec /\ WF_live(\E reg \in DOMAIN live : Deliver(reg))
------------------------------------------------------------------------------
\* The rows always are a result of the query, in query order, shown in turn;
\* whatever the interleaving of snapshots with the screen's coming and going.
Mirror == INSTANCE ListMirror WITH
    Results  <- Views,
    InOrder  <- Ordered,
    current  <- docs,
    upcoming <- IF listener \in DOMAIN live THEN live[listener].queue ELSE <<>>,
    screen   <- IF ~visible THEN "hidden"
                ELSE IF listener \in DOMAIN live THEN "watching" ELSE "frozen",
    rows     <- categoryArray

MirrorSpec == Mirror!Spec

\* Every change of a snapshot names the row of the document it changes, so no
\* handler traps or overwrites another category.
ChangesFitRows ==
    \A reg \in DOMAIN live :
        Pending(reg) => Fits(categoryArray, NextChanges(reg))

\* A screen that stays and whose listener lives ends up showing the result,
\* which changes no more after MaxWrites changes.
EventuallyCurrent ==
    (visible /\ listener \in DOMAIN live)
    ~> (categoryArray = Ordered(docs) \/ ~visible \/ listener \notin DOMAIN live)
==============================================================================
