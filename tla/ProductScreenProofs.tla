------------------------- MODULE ProductScreenProofs -------------------------
(***************************************************************************)
(* What holds of the product screens for any documents, screens, exits and *)
(* listeners: only an exit without rows leaks a listener, one each, and a  *)
(* screen that never had such an exit has every change applied to the row  *)
(* of its document.                                                        *)
(***************************************************************************)
EXTENDS ProductScreen, TLAPS, FiniteSetTheorems

-----------------------------------------------------------------------------
(* What is known of rows. *)

\* The home screen's handlers are the same: what its theorems say of the changes
\* of a snapshot and of rows is used here.  Its variables play no part in that.
Home == INSTANCE CategoryScreenProofs WITH
    categoryArray <- <<>>, visible <- FALSE, selectedCategory <- 0

\* The operators those theorems are about are those of this module.
LEMMA SameResults ==
    /\ Views = Home!Views
    /\ \A v : Ordered(v) = Home!Ordered(v)
    /\ \A old, new : Changes(old, new) = Home!Changes(old, new)
<1>1. Views = Home!Views
    BY DEF Views, Home!Views, IsFiniteSet, Home!IsFiniteSet, Docs, Home!Docs
<1>2. /\ \A v, d : IndexIn(v, d) = Home!IndexIn(v, d)
      /\ \A v : Ordered(v) = Home!Ordered(v)
      /\ \A type, v : Typed(type, v) = Home!Typed(type, v)
    BY DEF Cardinality, Home!Cardinality, Before, Home!Before, IndexIn, Home!IndexIn,
           Ordered, Home!Ordered, Typed, Home!Typed
<1>3. \A v : IdsOf(v) = Home!IdsOf(v)
    BY DEF IdsOf, Home!IdsOf
<1>4. \A kinds, old : Tracking(old, kinds) = Home!Tracking(old, kinds)
    BY DEF Tracking, Home!Tracking, Tracked, Home!Tracked
<1>5. \A v, w, kind : ChangeBetween(v, w, kind) = Home!ChangeBetween(v, w, kind)
    BY <1>2 DEF ChangeBetween, Home!ChangeBetween
<1>6. ASSUME NEW old, NEW new PROVE Changes(old, new) = Home!Changes(old, new)
    <2> DEFINE kinds == Kinds(old, new)
               view == Tracking(old, kinds)
    <2>1. kinds = Home!Kinds(old, new)
        BY <1>2, <1>3 DEF Kinds, Home!Kinds
    <2>2. view = Home!Tracking(old, Home!Kinds(old, new))
        BY <1>4, <2>1
    <2>3. Changes(old, new) = [n \in 1..Len(kinds) |-> ChangeBetween(view[n - 1], view[n], kinds[n])]
        BY DEF Changes
    <2>4. Home!Changes(old, new)
            = [n \in 1..Len(kinds) |-> Home!ChangeBetween(view[n - 1], view[n], kinds[n])]
        BY <2>1, <2>2 DEF Home!Changes
    <2> HIDE DEF kinds, view
    <2> QED
        BY <1>5, <2>3, <2>4
<1> QED
    BY <1>1, <1>2, <1>6

LEMMA SameRows ==
    /\ \A array, changes : Fits(array, changes) = Home!Fits(array, changes)
    /\ \A array, changes : ApplyAll(array, changes) = Home!ApplyAll(array, changes)
    BY DEF Fits, Home!Fits, FitsRow, Home!FitsRow, ApplyAll, Home!ApplyAll,
           RowsDuring, Home!RowsDuring, Apply, Home!Apply, InsertAt, Home!InsertAt,
           RemoveAt, Home!RemoveAt, onAddDocument, Home!onAddDocument,
           onModifiedDocument, Home!onModifiedDocument, onRemoveDocument, Home!onRemoveDocument

\* Rows, or the end of the process.
RowsOrTrap == Seq(Docs) \cup {Trap}

LEMMA ChangesFacts ==
    ASSUME NEW old \in Views, NEW new \in Views
    PROVE  /\ Fits(Ordered(old), Changes(old, new))
           /\ ApplyAll(Ordered(old), Changes(old, new)) = Ordered(new)
           /\ \A array \in RowsOrTrap : ApplyAll(array, Changes(old, new)) \in RowsOrTrap
<1>1. old \in Home!Views /\ new \in Home!Views
    BY SameResults
<1>2. /\ Home!Fits(Home!Ordered(old), Home!Changes(old, new))
      /\ Home!ApplyAll(Home!Ordered(old), Home!Changes(old, new)) = Home!Ordered(new)
    BY <1>1, Home!ChangesFacts, DocumentAssumption, ListenerAssumption
<1>3. \A array \in Home!RowsOrTrap :
          Home!ApplyAll(array, Home!Changes(old, new)) \in Home!RowsOrTrap
    BY <1>1, Home!ApplyAllTyped, DocumentAssumption, ListenerAssumption
<1>4. Home!RowsOrTrap = RowsOrTrap
    BY DEF RowsOrTrap, Home!RowsOrTrap, Docs, Home!Docs
<1> QED
    BY <1>2, <1>3, <1>4, SameResults, SameRows

LEMMA NoDocuments ==
    {} \in Views /\ Ordered({}) = <<>> /\ <<>> \in Seq(Docs) /\ <<>> # Trap
<1>1. /\ {} \in Home!Views /\ Home!Ordered({}) = <<>>
      /\ <<>> \in Seq(Home!Docs) /\ <<>> # Trap
    BY Home!NoDocuments, DocumentAssumption, ListenerAssumption
<1> QED
    BY <1>1, SameResults DEF Docs, Home!Docs

-----------------------------------------------------------------------------
(* The invariant. *)

\* The registration of the screen that is visible, and all the others.
Held == IF state = "visible" /\ category THEN {listener} ELSE {}
Leaked == DOMAIN live \ Held

\* A screen that is on the stack has been counted.
OpenIsCounted == state # "closed" => opened # 0

\* What the visible screen holds runs its own block.
HeldIsOwn == \A reg \in DOMAIN live \cap Held : owner[reg] = opened

\* What leaked did so in an exit without rows, and no exit leaked twice.
LeakedByExit == \A reg \in Leaked : emptyExits[owner[reg]] > 0
FewLeaks == Cardinality(Leaked) <= Cardinality(EmptyExits)

\* A screen without such an exit shows what its registration was told of, and
\* nothing while it is not visible.
CleanRows ==
    \A reg \in DOMAIN live :
        emptyExits[owner[reg]] = 0 => productsArray[owner[reg]] = Ordered(live[reg].seen)
CleanAway ==
    \A s \in Screens :
        emptyExits[s] = 0 /\ (s > opened \/ (s = opened /\ state # "visible"))
        => productsArray[s] = <<>>

Inv ==
    /\ TypeOK /\ IsFiniteSet(DOMAIN live) /\ OpenIsCounted /\ HeldIsOwn
    /\ LeakedByExit /\ FewLeaks /\ CleanRows /\ CleanAway

\* A set with one more member has at most one more.
LEMMA OneMore ==
    ASSUME NEW S, IsFiniteSet(S), NEW x
    PROVE  /\ IsFiniteSet(S \cup {x}) /\ Cardinality(S) \in Nat
           /\ Cardinality(S \cup {x}) \in Nat /\ Cardinality(S \cup {x}) <= Cardinality(S) + 1
<1>1. Cardinality(S) \in Nat
    BY FS_CardinalityType
<1>2. CASE x \in S
    <2> DEFINE T == S \cup {x}
    <2>1. T = S
        BY <1>2
    <2> HIDE DEF T
    <2>2. IsFiniteSet(T) /\ Cardinality(T) = Cardinality(S)
        BY <2>1
    <2>3. Cardinality(T) \in Nat /\ Cardinality(T) <= Cardinality(S) + 1
        BY <1>1, <2>2
    <2> QED
        BY <1>1, <2>2, <2>3 DEF T
<1>3. CASE x \notin S
    <2>1. IsFiniteSet(S \cup {x}) /\ Cardinality(S \cup {x}) = Cardinality(S) + 1
        BY <1>3, FS_AddElement
    <2> QED
        BY <1>1, <2>1
<1> QED
    BY <1>2, <1>3

LEMMA NothingServed == live = <<>> => DOMAIN live = {}
    OBVIOUS

LEMMA NoOwners == owner = <<>> => owner = [reg \in {} |-> 0]
    OBVIOUS

\* The exits without rows, counted.
LEMMA ExitFacts ==
    ASSUME TypeOK
    PROVE  /\ IsFiniteSet(EmptyExits) /\ Cardinality(EmptyExits) \in Nat
           /\ \A s \in Screens : emptyExits[s] \in 0..MaxExits
<1> DEFINE all == Screens \X (1..MaxExits)
<1>1. IsFiniteSet(Screens) /\ IsFiniteSet(1..MaxExits)
    BY ScreenAssumption, FS_Interval DEF Screens
<1>2. IsFiniteSet(all)
    BY <1>1, FS_Product
<1>3. EmptyExits \in SUBSET all
    BY DEF EmptyExits
<1> HIDE DEF all
<1>4. IsFiniteSet(EmptyExits)
    BY <1>2, <1>3, FS_Subset
<1>5. \A s \in Screens : emptyExits[s] \in 0..MaxExits
    BY DEF TypeOK
<1> QED
    BY <1>4, <1>5, FS_CardinalityType

LEMMA ExitCounted ==
    ASSUME TypeOK, opened # 0, EmptyExit
    PROVE  /\ opened \in Screens /\ emptyExits'[opened] > 0
           /\ emptyExits' \in [Screens -> 0..MaxExits]
           /\ \A s \in Screens : s # opened => emptyExits'[s] = emptyExits[s]
           /\ Cardinality(EmptyExits') = Cardinality(EmptyExits) + 1
<1> DEFINE n == emptyExits[opened]
           new == <<opened, n + 1>>
<1>1. opened \in Screens /\ emptyExits \in [Screens -> 0..MaxExits]
    BY ScreenAssumption DEF TypeOK, Screens
<1>2. n \in 0..MaxExits /\ n < MaxExits /\ n + 1 \in 1..MaxExits
    BY <1>1, ScreenAssumption DEF EmptyExit
<1>3. emptyExits' = [emptyExits EXCEPT ![opened] = n + 1]
    BY DEF EmptyExit
<1> HIDE DEF n
<1>4. /\ emptyExits'[opened] = n + 1
      /\ emptyExits' \in [Screens -> 0..MaxExits]
      /\ \A s \in Screens : s # opened => emptyExits'[s] = emptyExits[s]
    BY <1>1, <1>2, <1>3
<1>5. new \notin EmptyExits
    BY <1>2 DEF EmptyExits, n
<1>6. EmptyExits' = EmptyExits \cup {new}
    <2>1. ASSUME NEW s \in Screens, NEW i \in 1..MaxExits
          PROVE  i <= emptyExits'[s] <=> i <= emptyExits[s] \/ <<s, i>> = new
        <3>1. CASE s # opened
            BY <1>4, <3>1
        <3>2. CASE s = opened
            <4>1. emptyExits'[s] = n + 1 /\ emptyExits[s] = n
                BY <1>4, <3>2 DEF n
            <4>2. i <= n + 1 <=> i <= n \/ i = n + 1
                BY <1>2
            <4>3. <<s, i>> = new <=> i = n + 1
                BY <3>2
            <4> QED
                BY <4>1, <4>2, <4>3
        <3> QED
            BY <3>1, <3>2
    <2>2. new \in Screens \X (1..MaxExits)
        BY <1>1, <1>2
    <2>3. ASSUME NEW e \in Screens \X (1..MaxExits)
          PROVE  e[2] <= emptyExits'[e[1]] <=> e[2] <= emptyExits[e[1]] \/ e = new
        <3>1. PICK s \in Screens, i \in 1..MaxExits : e = <<s, i>>
            OBVIOUS
        <3> HIDE DEF new
        <3> QED
            BY <2>1, <3>1
    <2> HIDE DEF new
    <2> QED
        BY <2>2, <2>3 DEF EmptyExits
<1>7. Cardinality(EmptyExits') = Cardinality(EmptyExits) + 1
    <2> HIDE DEF new
    <2> QED
        BY <1>5, <1>6, ExitFacts, FS_AddElement
<1> QED
    BY <1>1, <1>2, <1>4, <1>7

\* There always is a registration to be given.
LEMMA FreshFacts ==
    ASSUME IsFiniteSet(DOMAIN live)
    PROVE  FreshReg \in Nat /\ FreshReg \notin DOMAIN live
<1> DEFINE D == DOMAIN live
           n == Cardinality(D)
           R == 1..n + 1
<1>1. n \in Nat
    BY FS_CardinalityType
<1>2. IsFiniteSet(R) /\ Cardinality(R) = n + 1
    <2>1. 1 \in Int /\ n + 1 \in Int
        BY <1>1
    <2> HIDE DEF n
    <2> QED
        BY <1>1, <2>1, FS_Interval
<1>3. \E r \in R : r \notin D
    <2>1. SUFFICES ASSUME R \subseteq D PROVE FALSE
        OBVIOUS
    <2> HIDE DEF R, D
    <2>2. Cardinality(R) <= Cardinality(D)
        BY <2>1, FS_Subset DEF D
    <2> QED
        BY <1>1, <1>2, <2>2 DEF n
<1>4. FreshReg = CHOOSE r \in R : r \notin D
    BY DEF FreshReg
<1> HIDE DEF R, D
<1>5. FreshReg \in R /\ FreshReg \notin D
    BY <1>3, <1>4
<1> QED
    BY <1>1, <1>5 DEF R, D

LEMMA LeakFacts ==
    ASSUME TypeOK, IsFiniteSet(DOMAIN live)
    PROVE  /\ IsFiniteSet(Leaked) /\ Cardinality(Leaked) \in Nat
           /\ Leaked \subseteq DOMAIN live
           /\ \A S : S \subseteq Leaked => IsFiniteSet(S) /\ Cardinality(S) <= Cardinality(Leaked)
           /\ \A reg \in DOMAIN live : owner[reg] \in 1..opened /\ owner[reg] \in Screens
                                       /\ emptyExits[owner[reg]] \in 0..MaxExits
           /\ \A s \in Screens : productsArray[s] \in RowsOrTrap
<1>1. Leaked \subseteq DOMAIN live
    BY DEF Leaked
<1>2. IsFiniteSet(Leaked)
    BY <1>1, FS_Subset
<1>3. ASSUME NEW S, S \subseteq Leaked
      PROVE  IsFiniteSet(S) /\ Cardinality(S) <= Cardinality(Leaked)
    BY <1>2, <1>3, FS_Subset
<1>4. ASSUME NEW reg \in DOMAIN live
      PROVE  owner[reg] \in 1..opened /\ owner[reg] \in Screens
             /\ emptyExits[owner[reg]] \in 0..MaxExits
    <2>1. owner[reg] \in 1..opened /\ opened \in 0..MaxScreens
        BY DEF TypeOK
    <2>2. owner[reg] \in Screens
        BY <2>1, ScreenAssumption DEF Screens
    <2> QED
        BY <2>1, <2>2, ExitFacts
<1>5. \A s \in Screens : productsArray[s] \in RowsOrTrap
    BY DEF TypeOK, RowsOrTrap
<1> QED
    BY <1>1, <1>2, <1>3, <1>4, <1>5, FS_CardinalityType

\* Before the first product screen there are no listeners and no rows.
THEOREM InitInv == Init => Inv
<1> SUFFICES ASSUME Init PROVE Inv
    OBVIOUS
<1>1. DOMAIN live = {} /\ IsFiniteSet(DOMAIN live)
    BY NothingServed, FS_EmptySet DEF Init, QueryInit
<1>2. /\ opened = 0 /\ state = "closed" /\ category = FALSE /\ listener = NoReg
      /\ DOMAIN productsArray = Screens /\ \A s \in Screens : productsArray[s] = <<>>
      /\ DOMAIN emptyExits = Screens /\ emptyExits = [s \in Screens |-> 0]
    BY DEF Init
<1>3. QueryTypeOK
    BY <1>1, ListenerAssumption DEF Init, QueryInit, QueryTypeOK
<1>4. owner \in [DOMAIN live -> 1..opened]
    BY <1>1, NoOwners DEF Init
<1>5. emptyExits \in [Screens -> 0..MaxExits]
    BY <1>2, ScreenAssumption
<1>6. \A s \in Screens : productsArray[s] \in Seq(Docs)
    BY <1>2, NoDocuments
<1>7. TypeOK
    <2>1. opened \in 0..MaxScreens
        BY <1>2, ScreenAssumption
    <2>2. category \in BOOLEAN
        BY <1>2
    <2> QED
        BY <1>2, <1>3, <1>4, <1>5, <1>6, <2>1, <2>2 DEF TypeOK
<1>8. Leaked = {}
    BY <1>1 DEF Leaked
<1>9. FewLeaks
    <2>1. Cardinality(Leaked) = 0
        BY <1>8, FS_EmptySet
    <2>2. Cardinality(EmptyExits) \in Nat
        BY <1>7, ExitFacts
    <2> QED
        BY <2>1, <2>2 DEF FewLeaks
<1>10. HeldIsOwn /\ LeakedByExit /\ CleanRows
    BY <1>1, <1>8 DEF HeldIsOwn, LeakedByExit, CleanRows
<1>11. OpenIsCounted /\ CleanAway
    BY <1>2 DEF OpenIsCounted, CleanAway
<1> QED
    BY <1>1, <1>7, <1>9, <1>10, <1>11 DEF Inv

LEMMA OpenStep ==
    ASSUME Inv, Open
    PROVE  Inv'
<1>1. /\ state = "closed" /\ state' = "covered" /\ opened' = opened + 1 /\ opened < MaxScreens
      /\ listener' = NoReg /\ category' \in BOOLEAN
      /\ docs' = docs /\ writes' = writes /\ live' = live /\ productsArray' = productsArray
      /\ owner' = owner /\ emptyExits' = emptyExits
    BY DEF Open, queryVars
<1>2. opened \in 0..MaxScreens /\ opened' \in 0..MaxScreens /\ opened' # 0
    BY <1>1, ScreenAssumption DEF Inv, TypeOK
<1>3. owner' \in [DOMAIN live' -> 1..opened']
    <2>1. 1..opened \subseteq 1..opened'
        BY <1>1, <1>2
    <2>2. owner \in [DOMAIN live -> 1..opened]
        BY DEF Inv, TypeOK
    <2> HIDE DEF Inv
    <2>3. owner \in [DOMAIN live -> 1..opened']
        BY <2>1, <2>2
    <2> QED
        BY <1>1, <2>3
<1>4. TypeOK'
    BY <1>1, <1>2, <1>3 DEF Inv, TypeOK, QueryTypeOK
<1>5. Leaked' = DOMAIN live /\ Leaked = DOMAIN live /\ Held' = {}
    BY <1>1 DEF Leaked, Held
<1>6. LeakedByExit' /\ FewLeaks' /\ HeldIsOwn' /\ CleanRows'
    BY <1>1, <1>5 DEF Inv, LeakedByExit, FewLeaks, HeldIsOwn, CleanRows, EmptyExits
<1>7. CleanAway'
    <2>1. \A s \in Screens : s > opened' \/ s = opened' => s > opened
        BY <1>1, <1>2, ScreenAssumption DEF Screens
    <2> QED
        BY <1>1, <2>1 DEF Inv, CleanAway
<1> QED
    BY <1>1, <1>2, <1>4, <1>6, <1>7 DEF Inv, OpenIsCounted

LEMMA AppearStep ==
    ASSUME Inv, ViewDidAppear
    PROVE  Inv'
<1>1. /\ state = "covered" /\ state' = "visible" /\ opened # 0
      /\ docs' = docs /\ writes' = writes /\ opened' = opened /\ category' = category
      /\ productsArray' = productsArray /\ emptyExits' = emptyExits
    BY DEF ViewDidAppear, Inv, OpenIsCounted
<1>2. TypeOK /\ opened \in 1..opened /\ opened \in Screens /\ opened \in Nat
    BY <1>1, ScreenAssumption DEF Inv, TypeOK, Screens
<1>3. Leaked = DOMAIN live
    BY <1>1 DEF Leaked, Held
<1>4. CleanAway' /\ OpenIsCounted'
    BY <1>1 DEF Inv, CleanAway, OpenIsCounted
<1>5. CASE ~category
    <2>1. live' = live /\ listener' = listener /\ owner' = owner
        BY <1>5 DEF ViewDidAppear
    <2>2. Leaked' = DOMAIN live /\ Held' = {}
        BY <1>1, <1>5, <2>1 DEF Leaked, Held
    <2>3. TypeOK'
        BY <1>1, <2>1 DEF Inv, TypeOK, QueryTypeOK
    <2>4. LeakedByExit' /\ FewLeaks' /\ HeldIsOwn' /\ CleanRows'
        BY <1>1, <1>3, <2>1, <2>2 DEF Inv, LeakedByExit, FewLeaks, HeldIsOwn, CleanRows, EmptyExits
    <2> QED
        BY <1>4, <2>1, <2>3, <2>4 DEF Inv
<1>6. CASE category
    <2> DEFINE f == FreshReg
               first == [seen |-> {}, queue |-> <<docs>>]
    <2>1. f \in Nat /\ f \notin DOMAIN live
        BY FreshFacts DEF Inv
    <2>2. /\ live' = [r \in DOMAIN live \cup {f} |-> IF r = f THEN first ELSE live[r]]
          /\ listener' = f
          /\ owner' = [r \in DOMAIN live' |-> IF r = f THEN opened ELSE owner[r]]
        BY <1>6 DEF ViewDidAppear, AddListener
    <2>3. first.seen = {} /\ first \in [seen : Views, queue : Seq(Views)]
        BY NoDocuments DEF Inv, TypeOK, QueryTypeOK
    <2> HIDE DEF f, first
    <2>4. /\ DOMAIN live' = DOMAIN live \cup {f} /\ live'[f] = first /\ owner'[f] = opened
          /\ \A r \in DOMAIN live : r # f /\ live'[r] = live[r] /\ owner'[r] = owner[r]
        BY <2>1, <2>2
    <2>5. IsFiniteSet(DOMAIN live')
        BY <2>4, FS_AddElement DEF Inv
    <2>6. QueryTypeOK'
        BY <1>1, <2>1, <2>3, <2>4 DEF Inv, TypeOK, QueryTypeOK
    <2>7. owner' \in [DOMAIN live' -> 1..opened']
        <3>1. \A r \in DOMAIN live : owner[r] \in 1..opened
            BY <1>2 DEF TypeOK
        <3>2. \A r \in DOMAIN live' : (IF r = f THEN opened ELSE owner[r]) \in 1..opened'
            BY <1>1, <1>2, <2>4, <3>1
        <3> QED
            BY <2>2, <3>2
    <2>8. TypeOK'
        BY <1>1, <2>1, <2>2, <2>6, <2>7 DEF Inv, TypeOK
    <2>9. Held' = {f} /\ Leaked' = DOMAIN live
        BY <1>1, <1>6, <2>1, <2>2, <2>4 DEF Held, Leaked
    <2>10. LeakedByExit' /\ FewLeaks'
        BY <1>1, <1>3, <2>4, <2>9 DEF Inv, LeakedByExit, FewLeaks, EmptyExits
    <2>11. HeldIsOwn'
        BY <1>1, <2>4, <2>9 DEF HeldIsOwn
    <2>12. CleanRows'
        <3>1. emptyExits[opened] = 0 => productsArray[opened] = <<>>
            BY <1>1, <1>2 DEF Inv, CleanAway
        <3>2. emptyExits[opened] = 0 => productsArray[opened] = Ordered(live'[f].seen)
            BY <2>3, <2>4, <3>1, NoDocuments
        <3>3. \A r \in DOMAIN live : emptyExits[owner[r]] = 0
                => productsArray[owner[r]] = Ordered(live[r].seen)
            BY DEF Inv, CleanRows
        <3> QED
            BY <1>1, <2>4, <3>2, <3>3 DEF CleanRows
    <2> QED
        BY <1>4, <2>5, <2>8, <2>10, <2>11, <2>12 DEF Inv
<1> QED
    BY <1>5, <1>6 DEF Inv, TypeOK

\* Without a registration everything else stays as it is.
LEMMA ForgetFacts ==
    ASSUME Inv, NEW reg, Forget(reg)
    PROVE  /\ DOMAIN live' = DOMAIN live \ {reg} /\ IsFiniteSet(DOMAIN live')
           /\ \A r \in DOMAIN live' : live'[r] = live[r] /\ owner'[r] = owner[r]
           /\ owner' \in [DOMAIN live' -> 1..opened]
           /\ docs' = docs /\ writes' = writes => QueryTypeOK'
<1>1. live' = [r \in DOMAIN live \ {reg} |-> live[r]] /\ owner' = [r \in DOMAIN live' |-> owner[r]]
    BY DEF Forget, Removed
<1>2. /\ DOMAIN live' = DOMAIN live \ {reg}
      /\ \A r \in DOMAIN live' : live'[r] = live[r] /\ owner'[r] = owner[r]
    BY <1>1
<1>3. IsFiniteSet(DOMAIN live')
    BY <1>2, FS_RemoveElement DEF Inv
<1>4. owner' \in [DOMAIN live' -> 1..opened]
    BY <1>1, <1>2 DEF Inv, TypeOK
<1>5. docs' = docs /\ writes' = writes => QueryTypeOK'
    BY <1>2 DEF Inv, TypeOK, QueryTypeOK
<1> QED
    BY <1>2, <1>3, <1>4, <1>5

LEMMA LeaveStep ==
    ASSUME Inv, ViewWillDisappear
    PROVE  Inv'
<1>1. /\ state = "visible" /\ state' \in {"covered", "closed"} /\ opened # 0
      /\ docs' = docs /\ writes' = writes /\ opened' = opened /\ category' = category
      /\ listener' = listener
    BY DEF ViewWillDisappear, Inv, OpenIsCounted
<1>2. TypeOK /\ opened \in Screens /\ IsFiniteSet(DOMAIN live) /\ opened \in Nat
    BY <1>1, ScreenAssumption DEF Inv, TypeOK, Screens
<1>3. Held' = {} /\ Leaked' = DOMAIN live' /\ OpenIsCounted'
    BY <1>1 DEF Held, Leaked, OpenIsCounted
<1>4. HeldIsOwn'
    BY <1>3 DEF HeldIsOwn
<1>5. CASE productsArray[opened] # <<>>
    <2>1. /\ Forget(listener) /\ productsArray' = [productsArray EXCEPT ![opened] = <<>>]
          /\ emptyExits' = emptyExits
        BY <1>5 DEF ViewWillDisappear
    <2>2. /\ DOMAIN live' = DOMAIN live \ {listener} /\ IsFiniteSet(DOMAIN live')
          /\ \A r \in DOMAIN live' : live'[r] = live[r] /\ owner'[r] = owner[r]
          /\ owner' \in [DOMAIN live' -> 1..opened] /\ QueryTypeOK'
        BY <1>1, <2>1, ForgetFacts
    <2>3. /\ DOMAIN productsArray' = Screens /\ productsArray'[opened] = <<>>
          /\ \A s \in Screens : s # opened => productsArray'[s] = productsArray[s]
        BY <1>2, <2>1 DEF TypeOK
    <2>4. TypeOK'
        <3>1. \A s \in Screens : productsArray'[s] = Trap \/ productsArray'[s] \in Seq(Docs)
            BY <1>2, <2>3, NoDocuments DEF TypeOK
        <3> QED
            BY <1>1, <1>2, <2>1, <2>2, <2>3, <3>1 DEF TypeOK
    <2>5. Leaked' \subseteq Leaked
        BY <1>3, <2>2 DEF Leaked, Held
    <2>6. LeakedByExit'
        BY <1>3, <2>1, <2>2, <2>5 DEF Inv, LeakedByExit
    <2>7. FewLeaks'
        <3>1. Cardinality(Leaked') <= Cardinality(Leaked) /\ Cardinality(Leaked) \in Nat
              /\ IsFiniteSet(Leaked')
            BY <1>2, <2>5, LeakFacts
        <3>2. Cardinality(Leaked') \in Nat /\ Cardinality(EmptyExits) \in Nat
            BY <1>2, <3>1, FS_CardinalityType, ExitFacts
        <3>3. Cardinality(Leaked) <= Cardinality(EmptyExits) /\ EmptyExits' = EmptyExits
            BY <2>1 DEF Inv, FewLeaks, EmptyExits
        <3>4. Cardinality(Leaked') <= Cardinality(EmptyExits')
            BY <3>1, <3>2, <3>3
        <3> QED
            BY <3>4 DEF FewLeaks
    <2>8. CleanRows'
        <3>1. \A r \in DOMAIN live' : emptyExits[owner[r]] > 0 /\ owner[r] \in Screens
                                     /\ emptyExits[owner[r]] \in 0..MaxExits
            BY <1>2, <1>3, <2>2, <2>5, LeakFacts DEF Inv, LeakedByExit
        <3>2. \A r \in DOMAIN live' : ~(emptyExits'[owner'[r]] = 0)
            BY <2>1, <2>2, <3>1
        <3> QED
            BY <3>2 DEF CleanRows
    <2>9. CleanAway'
        BY <1>1, <1>2, <2>1, <2>3 DEF Inv, CleanAway
    <2> QED
        BY <1>3, <1>4, <2>2, <2>4, <2>6, <2>7, <2>8, <2>9 DEF Inv
<1>6. CASE productsArray[opened] = <<>>
    <2>1. /\ live' = live /\ owner' = owner /\ productsArray' = productsArray
          /\ IF category THEN EmptyExit ELSE emptyExits' = emptyExits
        BY <1>6 DEF ViewWillDisappear
    <2>2. /\ emptyExits' \in [Screens -> 0..MaxExits]
          /\ \A s \in Screens : s # opened => emptyExits'[s] = emptyExits[s]
          /\ \A s \in Screens : emptyExits[s] > 0 => emptyExits'[s] > 0
          /\ category => emptyExits'[opened] > 0
          /\ ~category => emptyExits' = emptyExits
          /\ Cardinality(EmptyExits') \in Nat /\ Cardinality(EmptyExits) \in Nat
          /\ Cardinality(EmptyExits') = IF category THEN Cardinality(EmptyExits) + 1
                                        ELSE Cardinality(EmptyExits)
        <3>0. Cardinality(EmptyExits) \in Nat /\ emptyExits \in [Screens -> 0..MaxExits]
            BY <1>2, ExitFacts DEF TypeOK
        <3>1. CASE category
            <4>1. EmptyExit
                BY <2>1, <3>1
            <4>2. /\ emptyExits'[opened] > 0 /\ emptyExits' \in [Screens -> 0..MaxExits]
                  /\ \A s \in Screens : s # opened => emptyExits'[s] = emptyExits[s]
                  /\ Cardinality(EmptyExits') = Cardinality(EmptyExits) + 1
                BY <1>1, <1>2, <4>1, ExitCounted
            <4> QED
                BY <3>0, <3>1, <4>2
        <3>2. CASE ~category
            <4>1. emptyExits' = emptyExits /\ EmptyExits' = EmptyExits
                BY <2>1, <3>2 DEF EmptyExits
            <4> QED
                BY <3>0, <3>2, <4>1
        <3> QED
            BY <3>1, <3>2 DEF Inv, TypeOK
    <2>3. TypeOK'
        BY <1>1, <1>2, <2>1, <2>2 DEF TypeOK, QueryTypeOK
    <2>4. ASSUME NEW r \in Leaked' 
          PROVE  emptyExits'[owner'[r]] > 0 /\ (r \in Leaked \/ (category /\ r = listener))
        <3>1. r \in DOMAIN live /\ owner'[r] = owner[r] /\ owner[r] \in Screens
            BY <1>2, <1>3, <2>1, LeakFacts
        <3>2. CASE r \in Leaked
            <4>1. emptyExits[owner[r]] > 0
                BY <3>2 DEF Inv, LeakedByExit
            <4>2. emptyExits'[owner'[r]] > 0
                BY <2>2, <3>1, <4>1
            <4> QED
                BY <3>2, <4>2
        <3>3. CASE r \notin Leaked
            <4>1. category /\ r = listener /\ r \in DOMAIN live \cap Held
                BY <1>1, <3>1, <3>3 DEF Leaked, Held
            <4>2. owner[r] = opened
                BY <4>1 DEF Inv, HeldIsOwn
            <4> QED
                BY <2>2, <3>1, <4>1, <4>2
        <3> QED
            BY <3>2, <3>3
    <2>5. LeakedByExit'
        BY <2>4 DEF LeakedByExit
    <2>6. FewLeaks'
        <3>1. Leaked' \subseteq Leaked \cup {listener} /\ (~category => Leaked' \subseteq Leaked)
            BY <2>4
        <3>2. /\ IsFiniteSet(Leaked) /\ Cardinality(Leaked) \in Nat
              /\ Cardinality(Leaked) <= Cardinality(EmptyExits)
            BY <1>2, LeakFacts DEF Inv, FewLeaks
        <3>3. /\ IsFiniteSet(Leaked \cup {listener})
              /\ Cardinality(Leaked \cup {listener}) <= Cardinality(Leaked) + 1
              /\ Cardinality(Leaked \cup {listener}) \in Nat
            BY <3>2, OneMore
        <3>4. /\ IsFiniteSet(Leaked') /\ Cardinality(Leaked') \in Nat
              /\ Cardinality(Leaked') <= Cardinality(Leaked \cup {listener})
            BY <3>1, <3>3, FS_Subset, FS_CardinalityType
        <3>5. ~category => Cardinality(Leaked') <= Cardinality(Leaked)
            BY <3>1, <3>2, FS_Subset
        <3>6. Cardinality(Leaked') <= Cardinality(EmptyExits')
            BY <2>2, <3>2, <3>3, <3>4, <3>5
        <3> QED
            BY <3>6 DEF FewLeaks
    <2>7. CleanRows'
        <3>1. \A r \in DOMAIN live' : owner'[r] \in Screens /\ emptyExits'[owner'[r]] > 0
                                     /\ emptyExits'[owner'[r]] \in 0..MaxExits
            BY <1>2, <1>3, <2>1, <2>2, <2>4, LeakFacts
        <3>2. \A r \in DOMAIN live' : ~(emptyExits'[owner'[r]] = 0)
            BY <3>1
        <3> QED
            BY <3>2 DEF CleanRows
    <2>8. CleanAway'
        <3>1. \A s \in Screens : s > opened => s # opened
            BY <1>2 DEF Screens
        <3> QED
            BY <1>1, <1>6, <2>1, <2>2, <3>1 DEF Inv, CleanAway
    <2> QED
        BY <1>2, <1>3, <1>4, <2>1, <2>3, <2>5, <2>6, <2>7, <2>8 DEF Inv
<1> QED
    BY <1>5, <1>6

\* What a registration of such a screen is told of next fits its rows.
LEMMA NextFits ==
    ASSUME Inv, NEW reg \in DOMAIN live, Pending(reg)
    PROVE  /\ Head(live[reg].queue) \in Views /\ Tail(live[reg].queue) \in Seq(Views)
           /\ \A array \in RowsOrTrap : ApplyAll(array, NextChanges(reg)) \in RowsOrTrap
           /\ emptyExits[owner[reg]] = 0 =>
                 /\ Fits(productsArray[owner[reg]], NextChanges(reg))
                 /\ ApplyAll(productsArray[owner[reg]], NextChanges(reg))
                       = Ordered(Head(live[reg].queue))
<1>1. live[reg].seen \in Views /\ live[reg].queue \in Seq(Views) /\ live[reg].queue # <<>>
    BY DEF Inv, TypeOK, QueryTypeOK, Pending
<1>2. Head(live[reg].queue) \in Views /\ Tail(live[reg].queue) \in Seq(Views)
    BY <1>1
<1>3. emptyExits[owner[reg]] = 0 => productsArray[owner[reg]] = Ordered(live[reg].seen)
    BY DEF Inv, CleanRows
<1>4. \A array \in RowsOrTrap : ApplyAll(array, NextChanges(reg)) \in RowsOrTrap
    BY <1>1, <1>2, ChangesFacts DEF NextChanges
<1> QED
    BY <1>1, <1>2, <1>3, <1>4, ChangesFacts DEF NextChanges

LEMMA SnapshotStep ==
    ASSUME Inv, NEW reg \in DOMAIN live, Snapshot(reg)
    PROVE  Inv'
<1> DEFINE told == [seen |-> Head(live[reg].queue), queue |-> Tail(live[reg].queue)]
           s == owner[reg]
           array == ApplyAll(productsArray[s], NextChanges(reg))
<1>1. /\ docs' = docs /\ writes' = writes /\ opened' = opened /\ state' = state
      /\ category' = category /\ listener' = listener /\ owner' = owner /\ emptyExits' = emptyExits
      /\ live' = [live EXCEPT ![reg] = told] /\ Pending(reg)
      /\ productsArray' = [productsArray EXCEPT ![s] = array]
    BY DEF Snapshot, Deliver
<1>2. TypeOK /\ IsFiniteSet(DOMAIN live)
    BY DEF Inv
<1>3. s \in Screens /\ productsArray[s] \in RowsOrTrap
    BY <1>2, LeakFacts
<1>4. /\ told \in [seen : Views, queue : Seq(Views)] /\ told.seen = Head(live[reg].queue)
      /\ array \in RowsOrTrap
      /\ emptyExits[s] = 0 => array = Ordered(told.seen)
    BY <1>1, <1>3, NextFits
<1> HIDE DEF told, s, array
<1>5. /\ DOMAIN live' = DOMAIN live /\ live'[reg] = told
      /\ \A r \in DOMAIN live : r # reg => live'[r] = live[r]
    BY <1>1
<1>6. /\ DOMAIN productsArray' = Screens /\ productsArray'[s] = array
      /\ \A x \in Screens : x # s => productsArray'[x] = productsArray[x]
    BY <1>1, <1>2, <1>3 DEF TypeOK
<1>7. QueryTypeOK'
    BY <1>1, <1>2, <1>4, <1>5 DEF TypeOK, QueryTypeOK
<1>8. TypeOK'
    <2>1. \A x \in Screens : productsArray'[x] = Trap \/ productsArray'[x] \in Seq(Docs)
        BY <1>2, <1>4, <1>6 DEF TypeOK, RowsOrTrap
    <2> QED
        BY <1>1, <1>2, <1>5, <1>6, <1>7, <2>1 DEF TypeOK
<1>9. Leaked' = Leaked /\ Held' = Held /\ EmptyExits' = EmptyExits
    BY <1>1, <1>5 DEF Leaked, Held, EmptyExits
<1>10. OpenIsCounted' /\ HeldIsOwn' /\ LeakedByExit' /\ FewLeaks'
    BY <1>1, <1>5, <1>9 DEF Inv, OpenIsCounted, HeldIsOwn, LeakedByExit, FewLeaks
<1>11. ASSUME emptyExits[s] = 0
       PROVE  state = "visible" /\ s = opened /\ \A r \in DOMAIN live : owner[r] = s => r = reg
    <2>1. \A r \in DOMAIN live : owner[r] = s => r \notin Leaked
        <3>1. ASSUME NEW r \in Leaked, owner[r] = s PROVE FALSE
            <4>1. emptyExits[s] > 0
                BY <3>1 DEF Inv, LeakedByExit
            <4> QED
                BY <1>11, <4>1
        <3> QED
            BY <3>1
    <2>2. \A r \in DOMAIN live : owner[r] = s => r \in Held
        BY <2>1 DEF Leaked
    <2>3. reg \in Held /\ reg \in DOMAIN live /\ owner[reg] = s
        BY <2>2 DEF s
    <2>4. state = "visible" /\ reg = listener /\ \A r \in Held : r = listener
        BY <2>3 DEF Held
    <2>5. owner[reg] = opened
        BY <2>3 DEF Inv, HeldIsOwn
    <2> QED
        BY <2>2, <2>3, <2>4, <2>5
<1>12. CleanRows'
    <2>1. ASSUME NEW r \in DOMAIN live, emptyExits[owner[r]] = 0
          PROVE  productsArray'[owner[r]] = Ordered(live'[r].seen)
        <3>1. CASE r = reg
            BY <1>4, <1>5, <1>6, <2>1, <3>1 DEF s
        <3>2. CASE r # reg
            <4>1. owner[r] # s /\ owner[r] \in Screens
                BY <1>2, <1>11, <2>1, <3>2, LeakFacts
            <4>2. productsArray[owner[r]] = Ordered(live[r].seen)
                BY <2>1 DEF Inv, CleanRows
            <4> QED
                BY <1>5, <1>6, <3>2, <4>1, <4>2
        <3> QED
            BY <3>1, <3>2
    <2> QED
        BY <1>1, <1>5, <2>1 DEF CleanRows
<1>13. CleanAway'
    <2>1. ASSUME NEW x \in Screens, emptyExits[x] = 0,
                 x > opened \/ (x = opened /\ state # "visible")
          PROVE  productsArray'[x] = <<>>
        <3>1. productsArray[x] = <<>>
            BY <2>1 DEF Inv, CleanAway
        <3>2. x # s
            <4>1. SUFFICES ASSUME x = s PROVE FALSE
                OBVIOUS
            <4>2. state = "visible" /\ x = opened
                BY <1>11, <2>1, <4>1
            <4> QED
                BY <2>1, <4>2, <1>2 DEF TypeOK
        <3> QED
            BY <1>6, <3>1, <3>2
    <2> QED
        BY <1>1, <2>1 DEF CleanAway
<1> QED
    BY <1>2, <1>5, <1>8, <1>10, <1>12, <1>13 DEF Inv

LEMMA FailStep ==
    ASSUME Inv, NEW reg \in DOMAIN live, ListenerFails(reg)
    PROVE  Inv'
<1>1. /\ docs' = docs /\ writes' = writes /\ opened' = opened /\ state' = state
      /\ category' = category /\ listener' = listener /\ productsArray' = productsArray
      /\ emptyExits' = emptyExits /\ Forget(reg)
    BY DEF ListenerFails
<1>2. /\ DOMAIN live' = DOMAIN live \ {reg} /\ IsFiniteSet(DOMAIN live')
      /\ \A r \in DOMAIN live' : r \in DOMAIN live /\ live'[r] = live[r] /\ owner'[r] = owner[r]
      /\ owner' \in [DOMAIN live' -> 1..opened] /\ QueryTypeOK'
    BY <1>1, ForgetFacts
<1>3. TypeOK /\ IsFiniteSet(DOMAIN live)
    BY DEF Inv
<1>4. TypeOK'
    BY <1>1, <1>2, <1>3 DEF TypeOK
<1>5. Held' = Held /\ Leaked' \subseteq Leaked /\ EmptyExits' = EmptyExits
    BY <1>1, <1>2 DEF Held, Leaked, EmptyExits
<1>6. LeakedByExit'
    BY <1>1, <1>2, <1>5 DEF Inv, LeakedByExit, Leaked
<1>7. FewLeaks'
    <2>1. /\ Cardinality(Leaked') <= Cardinality(Leaked) /\ Cardinality(Leaked) \in Nat
          /\ IsFiniteSet(Leaked')
        BY <1>3, <1>5, LeakFacts
    <2>2. Cardinality(Leaked') \in Nat /\ Cardinality(EmptyExits) \in Nat
        BY <1>3, <2>1, FS_CardinalityType, ExitFacts
    <2>3. Cardinality(Leaked) <= Cardinality(EmptyExits)
        BY DEF Inv, FewLeaks
    <2>4. Cardinality(Leaked') <= Cardinality(EmptyExits')
        BY <1>5, <2>1, <2>2, <2>3
    <2> QED
        BY <2>4 DEF FewLeaks
<1>8. OpenIsCounted' /\ HeldIsOwn' /\ CleanRows' /\ CleanAway'
    BY <1>1, <1>2, <1>5 DEF Inv, OpenIsCounted, HeldIsOwn, CleanRows, CleanAway
<1> QED
    BY <1>2, <1>4, <1>6, <1>7, <1>8 DEF Inv

LEMMA ChangeStep ==
    ASSUME Inv, CollectionChanges
    PROVE  Inv'
<1>1. /\ opened' = opened /\ state' = state /\ category' = category /\ listener' = listener
      /\ productsArray' = productsArray /\ owner' = owner /\ emptyExits' = emptyExits
      /\ writes < MaxWrites /\ writes' = writes + 1 /\ docs' \in Views
      /\ live' = [r \in DOMAIN live |-> [live[r] EXCEPT !.queue = Append(@, docs')]]
    BY DEF CollectionChanges, Write
<1>2. TypeOK /\ \A r \in DOMAIN live : live[r] \in [seen : Views, queue : Seq(Views)]
    BY DEF Inv, TypeOK, QueryTypeOK
<1>3. DOMAIN live' = DOMAIN live
    BY <1>1
<1>4. ASSUME NEW r \in DOMAIN live
      PROVE  live'[r].seen = live[r].seen /\ live'[r] \in [seen : Views, queue : Seq(Views)]
    <2> DEFINE lr == live[r]
               q == Append(lr.queue, docs')
    <2>1. lr \in [seen : Views, queue : Seq(Views)]
        BY <1>2
    <2>2. q \in Seq(Views)
        BY <1>1, <2>1
    <2>3. live'[r] = [lr EXCEPT !.queue = q]
        BY <1>1
    <2> HIDE DEF q, lr
    <2>4. live'[r].seen = lr.seen /\ live'[r] \in [seen : Views, queue : Seq(Views)]
        BY <2>1, <2>2, <2>3
    <2> QED
        BY <2>4 DEF lr
<1>5. QueryTypeOK'
    <2>1. writes' \in 0..MaxWrites
        BY <1>1, <1>2, ListenerAssumption DEF TypeOK, QueryTypeOK
    <2> QED
        BY <1>1, <1>2, <1>3, <1>4, <2>1 DEF TypeOK, QueryTypeOK
<1>6. TypeOK'
    BY <1>1, <1>2, <1>3, <1>5 DEF TypeOK
<1>7. Held' = Held /\ Leaked' = Leaked /\ EmptyExits' = EmptyExits
    BY <1>1, <1>3 DEF Held, Leaked, EmptyExits
<1>8. OpenIsCounted' /\ HeldIsOwn' /\ LeakedByExit' /\ FewLeaks' /\ CleanAway'
    BY <1>1, <1>3, <1>7 DEF Inv, OpenIsCounted, HeldIsOwn, LeakedByExit, FewLeaks, CleanAway
<1>9. CleanRows'
    BY <1>1, <1>3, <1>4 DEF Inv, CleanRows
<1> QED
    BY <1>3, <1>6, <1>8, <1>9 DEF Inv

\* No callback of a product screen and no change of the products breaks it.
THEOREM StepInv == Inv /\ [Next]_vars => Inv'
<1> SUFFICES ASSUME Inv, [Next]_vars PROVE Inv'
    OBVIOUS
<1>1. CASE Open
    BY <1>1, OpenStep
<1>2. CASE ViewDidAppear
    BY <1>2, AppearStep
<1>3. CASE ViewWillDisappear
    BY <1>3, LeaveStep
<1>4. CASE CollectionChanges
    BY <1>4, ChangeStep
<1>5. ASSUME NEW reg \in DOMAIN live, Snapshot(reg) PROVE Inv'
    BY <1>5, SnapshotStep
<1>6. ASSUME NEW reg \in DOMAIN live, ListenerFails(reg) PROVE Inv'
    BY <1>6, FailStep
<1>7. CASE UNCHANGED vars
    <2> USE <1>7 DEF vars, queryVars
    <2>1. TypeOK' /\ (IsFiniteSet(DOMAIN live))' /\ OpenIsCounted'
        BY DEF Inv, TypeOK, QueryTypeOK, OpenIsCounted
    <2>2. HeldIsOwn' /\ LeakedByExit' /\ FewLeaks'
        BY DEF Inv, HeldIsOwn, LeakedByExit, FewLeaks, Held, Leaked, EmptyExits
    <2>3. CleanRows' /\ CleanAway'
        BY DEF Inv, CleanRows, CleanAway
    <2> QED
        BY <2>1, <2>2, <2>3 DEF Inv
<1> QED
    BY <1>1, <1>2, <1>3, <1>4, <1>5, <1>6, <1>7 DEF Next

\* Listeners and rows of product screens are always accounted for.
THEOREM InvHolds == Spec => []Inv
<1> QED
    BY InitInv, StepInv, PTL DEF Spec

\* Every reachable state of the product screens is well typed.
THEOREM TypeCorrect == Spec => []TypeOK
<1>1. Inv => TypeOK
    BY DEF Inv
<1> QED
    BY <1>1, InvHolds, PTL

\* There are at most as many registrations as viewWillDisappear had no rows and
\* kept one, and one more while a screen of a category is visible.
THEOREM OnlyEmptyExitsLeak == Spec => []LeaksAreEmptyExits
<1>1. Inv => LeaksAreEmptyExits
    <2>1. SUFFICES ASSUME Inv PROVE LeaksAreEmptyExits
        OBVIOUS
    <2>2. /\ IsFiniteSet(Leaked) /\ Cardinality(Leaked) \in Nat /\ Cardinality(EmptyExits) \in Nat
          /\ Cardinality(Leaked) <= Cardinality(EmptyExits)
        BY <2>1, LeakFacts, ExitFacts DEF Inv, FewLeaks
    <2>3. CASE state = "visible" /\ category
        <3>1. DOMAIN live \subseteq Leaked \cup {listener}
            BY <2>3 DEF Leaked, Held
        <3>2. /\ IsFiniteSet(Leaked \cup {listener})
              /\ Cardinality(Leaked \cup {listener}) <= Cardinality(Leaked) + 1
              /\ Cardinality(Leaked \cup {listener}) \in Nat
            BY <2>2, OneMore
        <3>3. Cardinality(DOMAIN live) \in Nat
              /\ Cardinality(DOMAIN live) <= Cardinality(Leaked \cup {listener})
            BY <3>1, <3>2, FS_Subset, FS_CardinalityType
        <3>4. Cardinality(DOMAIN live) <= Cardinality(EmptyExits) + 1
            BY <2>2, <3>2, <3>3
        <3> QED
            BY <2>3, <3>4 DEF LeaksAreEmptyExits
    <2>4. CASE ~(state = "visible" /\ category)
        <3>1. Leaked = DOMAIN live
            BY <2>4 DEF Leaked, Held
        <3> QED
            BY <2>2, <2>4, <3>1 DEF LeaksAreEmptyExits
    <2> QED
        BY <2>3, <2>4
<1> QED
    BY <1>1, InvHolds, PTL

\* On a screen that always had rows when it disappeared, each change of the next
\* snapshot names by its old index the row of its document.
THEOREM RowsFitChanges == Spec => []ChangesFitRows
<1>1. Inv => ChangesFitRows
    BY NextFits DEF ChangesFitRows
<1> QED
    BY <1>1, InvHolds, PTL
==============================================================================
