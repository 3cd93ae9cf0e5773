---------------------------- MODULE ProductScreen ----------------------------
(***************************************************************************)
(* The product screen of one category.  Its listener is added whenever the *)
(* screen appears, but removed on the way out only if there are rows; with *)
(* no rows the screen asks its navigation controller to pop instead.  The  *)
(* listener's block keeps its screen alive, so a screen that has been left *)
(* may go on applying changes to its array.                                *)
(***************************************************************************)
EXTENDS QueryListeners

CONSTANTS
    MaxScreens,  \* bound on product screens opened in a run
    MaxExits     \* bound on how often each disappears without rows

ASSUME ScreenAssumption == MaxScreens \in Nat \ {0} /\ MaxExits \in Nat

VARIABLES
    opened,         \* number of screens opened; the last one is on the stack
    state,          \* of the last one: "visible", "covered" or "closed"
    category,       \* whether it was given a category (favourites is not)
    productsArray,  \* rows of every screen, or Trap
    listener,       \* registration the last screen holds
    owner,          \* the screen whose block a registration runs
    emptyExits      \* history: how often a screen of a category
                    \* disappeared without rows

vars == <<queryVars, opened, state, category, productsArray, listener, owner, emptyExits>>

Screens == 1..MaxScreens

TypeOK ==
    /\ QueryTypeOK
    /\ opened \in 0..MaxScreens
    /\ state \in {"visible", "covered", "closed"}
    /\ category \in BOOLEAN
    /\ DOMAIN productsArray = Screens
    /\ \A s \in Screens : productsArray[s] = Trap \/ productsArray[s] \in Seq(Docs)
    /\ listener \in Nat \cup {NoReg}
    /\ owner \in [DOMAIN live -> 1..opened]
    /\ emptyExits \in [Screens -> 0..MaxExits]

Alive == \A s \in Screens : productsArray[s] # Trap

Init ==
    /\ QueryInit
    /\ opened = 0 /\ state = "closed" /\ category = FALSE /\ listener = NoReg
    /\ productsArray = [s \in Screens |-> <<>>]
    /\ owner = <<>>
    /\ emptyExits = [s \in Screens |-> 0]

\* A category, or the favourites button, pushes a new screen.
Open ==
    /\ Alive
    /\ state = "closed" /\ opened < MaxScreens
    /\ opened' = opened + 1
    /\ state' = "covered"
    /\ category' \in BOOLEAN
    /\ listener' = NoReg
    /\ UNCHANGED <<queryVars, productsArray, owner, emptyExits>>

\* viewDidAppear: setProductListener does nothing without a category.
ViewDidAppear ==
    /\ Alive
    /\ state = "covered"
    /\ state' = "visible"
    /\ IF category
       THEN /\ AddListener
            /\ listener' = FreshReg
            /\ owner' = [r \in DOMAIN live' |-> IF r = FreshReg THEN opened ELSE owner[r]]
       ELSE UNCHANGED <<live, listener, owner>>
    /\ UNCHANGED <<docs, writes, opened, category, productsArray, emptyExits>>

Forget(reg) ==
    /\ live' = Removed(reg)
    /\ owner' = [r \in DOMAIN live' |-> owner[r]]

EmptyExit ==
    /\ emptyExits[opened] < MaxExits
    /\ emptyExits' = [emptyExits EXCEPT ![opened] = @ + 1]

\* Mutant: the rows are cleared, the listener stays.
ViewWillDisappearKeepsListener ==
    /\ Alive
    /\ state = "visible"
    /\ state' \in {"covered", "closed"}
    /\ productsArray' = [productsArray EXCEPT ![opened] = <<>>]
    /\ IF productsArray[opened] = <<>> /\ category THEN EmptyExit ELSE UNCHANGED emptyExits
    /\ UNCHANGED <<docs, writes, live, opened, category, listener, owner>>

\* viewWillDisappear, behind the cart or an editor, or for good.  The pop
\* that an empty screen asks for in the middle of the transition takes away
\* whichever of the two is on top: that is the same choice again.
ViewWillDisappear ==
    /\ Alive
    /\ state = "visible"
    /\ state' \in {"covered", "closed"}
    /\ \/ /\ productsArray[opened] # <<>>
          /\ Forget(listener)
          /\ productsArray' = [productsArray EXCEPT ![opened] = <<>>]
          /\ UNCHANGED emptyExits
       \/ /\ productsArray[opened] = <<>>
          /\ IF category THEN EmptyExit ELSE UNCHANGED emptyExits
          /\ UNCHANGED <<live, owner, productsArray>>
    /\ UNCHANGED <<docs, writes, opened, category, listener>>

\* The snapshot callback, with onAddedDocument, onModifieDocument and
\* onRemoveDocument: the same as on the home screen.
Snapshot(reg) ==
    /\ Alive
    /\ Deliver(reg)
    /\ productsArray' = [productsArray EXCEPT ![owner[reg]] = ApplyAll(@, NextChanges(reg))]
    /\ UNCHANGED <<docs, writes, opened, state, category, listener, owner, emptyExits>>

\* The callback gets an error and returns; Firestore ends the listener.
ListenerFails(reg) ==
    /\ Alive
    /\ Forget(reg)
    /\ UNCHANGED <<docs, writes, opened, state, category, productsArray, listener, emptyExits>>

CollectionChanges ==
    /\ Alive
    /\ Write
    /\ UNCHANGED <<opened, state, category, productsArray, listener, owner, emptyExits>>

Next ==
    \/ Open \/ ViewDidAppear \/ ViewWillDisappear \/ CollectionChanges
    \/ \E reg \in DOMAIN live : Snapshot(reg) \/ ListenerFails(reg)

Spec == Init /\ [][Next]_vars

\* While the process lives, the main queue is drained.
FairSpec == Spec /\ WF_live(Alive /\ \E reg \in DOMAIN live : Deliver(reg))
------------------------------------------------------------------------------
\* Every exit of a screen without rows: the screen, and its how-manieth it was.
EmptyExits == {exit \in Screens \X (1..MaxExits) : exit[2] <= emptyExits[exit[1]]}

\* Exactly the exits without rows leak: Firestore never serves more listeners
\* than there were such exits, plus the one of the visible screen.
LeaksAreEmptyExits ==
    Cardinality(DOMAIN live)
        <= Cardinality(EmptyExits) + IF state = "visible" /\ category THEN 1 ELSE 0

\* A screen that never disappeared without rows applies every change to the
\* row of the document it is about, whatever other screens have left behind.
ChangesFitRows ==
    \A reg \in DOMAIN live :
        Pending(reg) /\ emptyExits[owner[reg]] = 0
        => Fits(productsArray[owner[reg]], NextChanges(reg))

\* Such a screen that stays, and whose listener lives, ends up showing the
\* result of the query, after having been covered, too.  (The result changes
\* no more after MaxWrites changes.)
EventuallyCurrent ==
    (state = "visible" /\ listener \in DOMAIN live /\ emptyExits[opened] = 0)
    ~> (state # "visible" \/ listener \notin DOMAIN live
        \/ productsArray[opened] = Ordered(docs) \/ ~Alive)

==============================================================================
