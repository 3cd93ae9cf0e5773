--------------------------- MODULE StarTriviaProofs ---------------------------
(***************************************************************************)
(* What holds of Star Trivia for any people and any lists: a pager asks    *)
(* for no address outside its list, because an enabled button says that    *)
(* there is one more in its direction.  On the starships' screen a swipe   *)
(* that was taken back breaks exactly that.  And what is shown is what the *)
(* buttons stand at, because the youngest request in flight is for that    *)
(* address; a spinner always has a request, or a failure, to answer for it.*)
(***************************************************************************)
EXTENDS StarTrivia, TLAPS, SequenceTheorems

\* The buttons lead to an address.
ButtonsLead(s) ==
    s.kind \in Pagers /\ ~(s.kind = "starships" /\ s.reappeared) =>
        /\ s.preview => 0 < s.index /\ s.index < Addresses(s)
        /\ s.next => s.index + 1 < Addresses(s)

HasDetails(s) == s.of # NoPerson => Addresses(s) > 0

IInv ==
    /\ TypeOK
    /\ CrashNeedsSwipe
    /\ place \in {"detail", "leaving"} => ButtonsLead(screen) /\ HasDetails(screen)
    /\ place = "home" => requests = <<>>
    /\ person # NoPerson => \A kind \in enabled : Count[person][kind] > 0
------------------------------------------------------------------------------
(* The data. *)

LEMMA ScreenFacts ==
    ASSUME NEW s \in Screens
    PROVE  Addresses(s) \in Nat
    BY CountAssumption DEF Screens, Addresses

LEMMA NewScreenFacts ==
    ASSUME NEW kind \in Kinds, NEW p \in Persons \cup {NoPerson}
    PROVE  NewScreen(kind, p) \in Screens
    BY DEF Screens, NewScreen, Blank

LEMMA RemoveAtFacts ==
    ASSUME NEW q \in Seq(Nat), NEW i \in 1..Len(q)
    PROVE  RemoveAt(q, i) \in Seq(Nat) /\ Len(RemoveAt(q, i)) = Len(q) - 1
<1> DEFINE front == SubSeq(q, 1, i - 1)
           back == SubSeq(q, i + 1, Len(q))
<1>1. Len(q) \in Nat /\ i \in Int /\ i - 1 \in Int /\ i + 1 \in Int /\ Len(q) \in Int
    OBVIOUS
<1>2. /\ \A k \in 1..(i - 1) : q[k] \in Nat
      /\ \A k \in (i + 1)..Len(q) : q[k] \in Nat
    BY <1>1
<1>3. front \in Seq(Nat) /\ Len(front) = i - 1
    <2>1. front \in Seq(Nat) /\ Len(front) = IF 1 <= i - 1 THEN i - 1 - 1 + 1 ELSE 0
        BY <1>1, <1>2, SubSeqProperties
    <2> QED
        BY <2>1, <1>1
<1>4. back \in Seq(Nat) /\ Len(back) = Len(q) - i
    <2>1. /\ back \in Seq(Nat)
          /\ Len(back) = IF i + 1 <= Len(q) THEN Len(q) - (i + 1) + 1 ELSE 0
        BY <1>1, <1>2, SubSeqProperties
    <2> QED
        BY <2>1, <1>1
<1>5. RemoveAt(q, i) = front \o back
    BY DEF RemoveAt
<1> HIDE DEF front, back
<1>6. front \o back \in Seq(Nat) /\ Len(front \o back) = Len(front) + Len(back)
    BY <1>3, <1>4, ConcatProperties
<1> QED
    BY <1>1, <1>3, <1>4, <1>5, <1>6

LEMMA Initially == Init => IInv
<1> SUFFICES ASSUME Init PROVE IInv
    OBVIOUS
<1>1. screen \in Screens
    BY NewScreenFacts DEF Init, Kinds, Pagers
<1>2. homeSpinner \in BOOLEAN /\ homeFailed \in BOOLEAN
    BY Zenon DEF Init
<1>3. TypeOK
    BY <1>1, <1>2, BoundAssumption DEF Init, TypeOK
<1> QED
    BY <1>3 DEF Init, IInv, CrashNeedsSwipe
------------------------------------------------------------------------------
(* The screens over the home screen. *)

\* What setting the first address up leaves of the screen s.
LEMMA SetupFirstFacts ==
    ASSUME NEW s \in Screens, setupFirst(s),
           requests \in Seq(Nat), Len(requests) < MaxInFlight
    PROVE  /\ screen' \in Screens
           /\ screen'.kind = s.kind /\ screen'.of = s.of /\ screen'.index = s.index
           /\ (screen'.reappeared <=> s.reappeared)
           /\ screen'.shown = s.shown /\ (screen'.orderly <=> s.orderly)
           /\ ~screen'.preview /\ (screen'.next => Addresses(s) > 1)
           /\ Addresses(screen') = Addresses(s)
           /\ requests' \in Seq(Nat) /\ Len(requests') <= MaxInFlight
<1> DEFINE t == Loading(s)
           n == Addresses(s) > 1
           u == [t EXCEPT !.preview = FALSE, !.next = n]
<1>1. /\ t \in Screens /\ t.kind = s.kind /\ t.of = s.of /\ t.index = s.index
      /\ (t.reappeared <=> s.reappeared) /\ t.shown = s.shown /\ (t.orderly <=> s.orderly)
    <2> DEFINE spins == s.spinner \/ s.kind # "vehicles" \/ Addresses(s) > 0
    <2>1. spins \in BOOLEAN /\ t = [s EXCEPT !.spinner = spins]
        BY DEF Loading
    <2> HIDE DEF spins, t
    <2> QED
        BY <2>1 DEF Screens
<1>2. screen' = u
    BY DEF setupFirst
<1> HIDE DEF t, n
<1>3. /\ u \in Screens /\ u.kind = t.kind /\ u.of = t.of /\ u.index = t.index
      /\ (u.reappeared <=> t.reappeared) /\ u.shown = t.shown /\ (u.orderly <=> t.orderly)
      /\ ~u.preview /\ (u.next <=> n)
    <2> DEFINE off == FALSE
    <2>1. n \in BOOLEAN /\ off \in BOOLEAN
        BY DEF n
    <2>2. u = [t EXCEPT !.preview = off, !.next = n]
        OBVIOUS
    <2> HIDE DEF u, off
    <2>3. /\ u \in Screens /\ u.kind = t.kind /\ u.of = t.of /\ u.index = t.index
          /\ (u.reappeared <=> t.reappeared) /\ u.shown = t.shown /\ (u.orderly <=> t.orderly)
          /\ (u.preview <=> off) /\ (u.next <=> n)
        <3>1. t \in Screens
            BY <1>1
        <3> QED
            BY ONLY <3>1, <2>1, <2>2 DEF Screens
    <2> QED
        BY <2>3 DEF off
<1>4. Addresses(u) = Addresses(s)
    BY <1>1, <1>3 DEF Addresses
<1>5. requests' \in Seq(Nat) /\ Len(requests') <= MaxInFlight
    BY BoundAssumption DEF setupFirst
<1>6. u.next => Addresses(s) > 1
    BY <1>3 DEF n
<1> HIDE DEF u
<1> QED
    BY <1>1, <1>2, <1>3, <1>4, <1>5, <1>6

LEMMA OpenStep ==
    ASSUME IInv, NEW kind \in Kinds, Open(kind)
    PROVE  IInv'
<1> DEFINE s == NewScreen(kind, person)
<1>1. /\ place = "home" /\ kind \in enabled /\ place' = "detail"
      /\ setupFirst(s)
      /\ UNCHANGED homeVars
    BY DEF Open
<1>2. /\ s \in Screens /\ s.kind = kind /\ s.of = person /\ s.index = 0
      /\ requests = <<>> /\ person \in Persons \cup {NoPerson}
    BY <1>1, NewScreenFacts DEF IInv, TypeOK, NewScreen
<1> HIDE DEF s
<1>3. requests \in Seq(Nat) /\ Len(requests) < MaxInFlight
    BY <1>2, BoundAssumption
<1>4. /\ screen' \in Screens
      /\ screen'.of = person /\ screen'.index = 0
      /\ ~screen'.preview /\ (screen'.next => Addresses(s) > 1)
      /\ Addresses(screen') = Addresses(s)
      /\ requests' \in Seq(Nat) /\ Len(requests') <= MaxInFlight
    BY <1>1, <1>2, <1>3, SetupFirstFacts
<1>5. Addresses(s) \in Nat
    BY <1>2, ScreenFacts
<1>6. ButtonsLead(screen')
    BY <1>4, <1>5 DEF ButtonsLead
<1>7. HasDetails(screen')
    <2> SUFFICES ASSUME person # NoPerson PROVE Addresses(s) > 0
        BY <1>4 DEF HasDetails
    <2>1. Count[person][kind] > 0
        BY <1>1 DEF IInv
    <2> QED
        BY <2>1, <1>2 DEF Addresses
<1>8. TypeOK'
    BY <1>1, <1>4 DEF IInv, TypeOK, homeVars
<1> QED
    BY <1>1, <1>6, <1>7, <1>8 DEF IInv, CrashNeedsSwipe, homeVars

\* A step to an index; outside the list only after a swipe that was taken back.
LEMMA PageStep ==
    ASSUME IInv, Pageable, UNCHANGED homeVars,
           NEW index \in Int, setupButtons(index),
           \/ index \in 0..(Addresses(screen) - 1)
           \/ screen.kind = "starships" /\ screen.reappeared
    PROVE  IInv'
<1>1. /\ screen \in Screens /\ requests \in Seq(Nat) /\ Len(requests) < MaxInFlight
      /\ place = "detail" /\ Addresses(screen) \in Nat
      /\ ButtonsLead(screen) /\ HasDetails(screen)
    BY ScreenFacts DEF IInv, TypeOK, Pageable
<1>2. CASE index \in 0..(Addresses(screen) - 1)
    <2> DEFINE p == index # 0
               n == index # LastIndex
               u == [screen EXCEPT !.index = index, !.preview = p, !.next = n,
                                   !.spinner = TRUE]
    <2>1. /\ screen' = u
          /\ requests' = Append(requests, index)
          /\ UNCHANGED place
        BY <1>2 DEF setupButtons
    <2>2. /\ u \in Screens /\ u.kind = screen.kind /\ u.of = screen.of
          /\ u.reappeared = screen.reappeared /\ u.index = index
          /\ u.preview = p /\ u.next = n
        <3>1. p \in BOOLEAN /\ n \in BOOLEAN /\ index \in Nat /\ screen \in Screens
            BY <1>1, <1>2
        <3> HIDE DEF p, n
        <3>2. u = [screen EXCEPT !.index = index, !.preview = p, !.next = n,
                                 !.spinner = TRUE]
            OBVIOUS
        <3> HIDE DEF u
        <3> QED
            BY ONLY <3>1, <3>2 DEF Screens
    <2>7. (u.preview => index # 0) /\ (u.next => index # LastIndex)
        BY <2>2
    <2> HIDE DEF u
    <2>3. Addresses(u) = Addresses(screen)
        BY <2>2 DEF Addresses
    <2>4. ButtonsLead(u) /\ HasDetails(u)
        BY <1>1, <1>2, <2>2, <2>3, <2>7 DEF ButtonsLead, HasDetails, LastIndex
    <2>5. requests' \in Seq(Nat) /\ Len(requests') <= MaxInFlight
        BY <1>1, <1>2, <2>1, BoundAssumption
    <2>6. TypeOK'
        BY <2>1, <2>2, <2>5 DEF IInv, TypeOK, homeVars
    <2> QED
        BY <1>1, <2>1, <2>4, <2>6 DEF IInv, CrashNeedsSwipe, homeVars
<1>3. CASE index \notin 0..(Addresses(screen) - 1)
    <2>1. place' = "crashed" /\ UNCHANGED <<screen, requests>>
        BY <1>3 DEF setupButtons
    <2>2. TypeOK'
        BY <2>1 DEF IInv, TypeOK, homeVars
    <2> QED
        BY <1>3, <2>1, <2>2 DEF IInv, CrashNeedsSwipe, homeVars
<1> QED
    BY <1>2, <1>3

LEMMA PressStep ==
    ASSUME IInv, PressPreviewButton \/ PressNextButton
    PROVE  IInv'
<1>1. /\ screen \in Screens /\ Addresses(screen) \in Nat /\ screen.index \in Nat
      /\ Pageable => screen.kind \in Pagers /\ ButtonsLead(screen)
    BY ScreenFacts DEF IInv, TypeOK, Pageable, Screens
<1>2. CASE PressPreviewButton
    <2>1. /\ Pageable /\ screen.preview /\ setupButtons(screen.index - 1)
          /\ UNCHANGED homeVars
        BY <1>2 DEF PressPreviewButton
    <2>2. \/ screen.index - 1 \in 0..(Addresses(screen) - 1)
          \/ screen.kind = "starships" /\ screen.reappeared
        BY <1>1, <2>1 DEF ButtonsLead
    <2>3. screen.index - 1 \in Int
        BY <1>1
    <2> QED
        BY <2>1, <2>2, <2>3, PageStep
<1>3. CASE PressNextButton
    <2>1. /\ Pageable /\ screen.next /\ setupButtons(screen.index + 1)
          /\ UNCHANGED homeVars
        BY <1>3 DEF PressNextButton
    <2>2. \/ screen.index + 1 \in 0..(Addresses(screen) - 1)
          \/ screen.kind = "starships" /\ screen.reappeared
        BY <1>1, <2>1 DEF ButtonsLead
    <2>3. screen.index + 1 \in Int
        BY <1>1
    <2> QED
        BY <2>1, <2>2, <2>3, PageStep
<1> QED
    BY <1>2, <1>3

\* An answer changes what is shown, and nothing the buttons depend on.
LEMMA AnswerStep ==
    ASSUME IInv, NEW i \in 1..Len(requests),
           DetailsArrive(i) \/ NothingArrives(i) \/ DetailsFail(i)
    PROVE  IInv'
<1>1. /\ IsAnswered(i) /\ screen \in Screens
      /\ requests \in Seq(Nat) /\ Len(requests) <= MaxInFlight
    BY DEF IInv, TypeOK, DetailsArrive, NothingArrives, DetailsFail
<1>2. /\ requests' \in Seq(Nat) /\ Len(requests') <= MaxInFlight
      /\ UNCHANGED <<place, homeVars>>
      /\ place \in {"detail", "leaving"}
    <2>1. /\ RemoveAt(requests, i) \in Seq(Nat)
          /\ Len(RemoveAt(requests, i)) = Len(requests) - 1
        BY <1>1, RemoveAtFacts
    <2> QED
        BY <1>1, <2>1, BoundAssumption DEF IsAnswered
<1>3. /\ screen' \in Screens /\ screen'.kind = screen.kind /\ screen'.of = screen.of
      /\ screen'.index = screen.index /\ screen'.reappeared = screen.reappeared
      /\ screen'.preview = screen.preview /\ screen'.next = screen.next
    <2>1. CASE DetailsArrive(i)
        <3> DEFINE u == updateDetailsOf(screen, requests[i])
        <3>1. /\ u \in Screens /\ u.kind = screen.kind /\ u.of = screen.of
              /\ u.index = screen.index /\ u.reappeared = screen.reappeared
              /\ u.preview = screen.preview /\ u.next = screen.next
            <4>1. requests[i] \in Int
                BY <1>1
            <4> QED
                BY <1>1, <4>1 DEF updateDetailsOf, Screens
        <3>2. screen' = [u EXCEPT !.orderly = @ /\ i = 1]
            BY <2>1 DEF DetailsArrive
        <3> HIDE DEF u
        <3> QED
            BY <3>1, <3>2 DEF Screens
    <2>2. CASE NothingArrives(i)
        BY <2>2, <1>1 DEF NothingArrives, Screens
    <2>3. CASE DetailsFail(i)
        BY <2>3, <1>1 DEF DetailsFail, Screens
    <2> QED
        BY <2>1, <2>2, <2>3
<1>4. Addresses(screen') = Addresses(screen)
    BY <1>3 DEF Addresses
<1>5. ButtonsLead(screen') /\ HasDetails(screen')
    <2>1. ButtonsLead(screen) /\ HasDetails(screen)
        BY <1>2 DEF IInv
    <2> QED
        BY <2>1, <1>3, <1>4 DEF ButtonsLead, HasDetails
<1>6. TypeOK'
    BY <1>2, <1>3 DEF IInv, TypeOK, homeVars
<1> QED
    BY <1>2, <1>5, <1>6 DEF IInv, CrashNeedsSwipe, homeVars

LEMMA TakeBackStep ==
    ASSUME IInv, TakeBack
    PROVE  IInv'
<1> DEFINE s == [screen EXCEPT !.reappeared = TRUE]
<1>1. /\ place = "leaving" /\ place' = "detail" /\ UNCHANGED homeVars
      /\ screen \in Screens /\ requests \in Seq(Nat)
      /\ ButtonsLead(screen) /\ HasDetails(screen)
    BY DEF TakeBack, IInv, TypeOK
<1>2. /\ s \in Screens /\ s.kind = screen.kind /\ s.of = screen.of
      /\ s.index = screen.index /\ s.reappeared = TRUE
      /\ s.preview = screen.preview /\ s.next = screen.next
    BY <1>1 DEF Screens
<1>3. CASE screen.kind = "starships"
    <2>1. Len(requests) < MaxInFlight /\ setupFirst(s)
        BY <1>3 DEF TakeBack
    <2> HIDE DEF s
    <2>2. /\ screen' \in Screens
          /\ screen'.kind = s.kind /\ screen'.of = s.of
          /\ (screen'.reappeared <=> s.reappeared)
          /\ Addresses(screen') = Addresses(s)
          /\ requests' \in Seq(Nat) /\ Len(requests') <= MaxInFlight
        BY <1>1, <1>2, <2>1, SetupFirstFacts
    <2>3. Addresses(s) = Addresses(screen)
        BY <1>2 DEF Addresses
    <2>4. ButtonsLead(screen') /\ HasDetails(screen')
        BY <1>1, <1>2, <1>3, <2>2, <2>3 DEF ButtonsLead, HasDetails
    <2>5. TypeOK'
        BY <1>1, <2>2 DEF IInv, TypeOK, homeVars
    <2> QED
        BY <1>1, <2>4, <2>5 DEF IInv, CrashNeedsSwipe, homeVars
<1>4. CASE screen.kind # "starships"
    <2>1. screen' = s /\ UNCHANGED requests
        BY <1>4 DEF TakeBack
    <2> HIDE DEF s
    <2>2. Addresses(s) = Addresses(screen)
        BY <1>2 DEF Addresses
    <2>3. ButtonsLead(screen') /\ HasDetails(screen')
        BY <1>1, <1>2, <1>4, <2>1, <2>2 DEF ButtonsLead, HasDetails
    <2>4. TypeOK'
        BY <1>1, <1>2, <2>1 DEF IInv, TypeOK, homeVars
    <2> QED
        BY <1>1, <2>3, <2>4 DEF IInv, CrashNeedsSwipe, homeVars
<1> QED
    BY <1>3, <1>4
------------------------------------------------------------------------------
(* The home screen. *)

LEMMA HomeStep ==
    ASSUME IInv,
           \/ PressRandomButton \/ StartBack \/ NobodyArrives \/ PersonFails
           \/ \E p \in Persons : PersonArrives(p)
    PROVE  IInv'
<1>1. loading \in Nat /\ loading <= MaxInFlight /\ MaxInFlight \in Nat
    BY BoundAssumption DEF IInv, TypeOK
<1>2. CASE PressRandomButton
    <2>1. TypeOK'
        BY <1>1, <1>2 DEF IInv, TypeOK, PressRandomButton, generateRandomPerson
    <2> QED
        BY <1>2, <2>1 DEF IInv, CrashNeedsSwipe, PressRandomButton, generateRandomPerson
<1>3. CASE StartBack
    <2>1. TypeOK'
        BY <1>1, <1>3 DEF IInv, TypeOK, StartBack, generateRandomPerson
    <2> QED
        BY <1>3, <2>1 DEF IInv, CrashNeedsSwipe, StartBack, generateRandomPerson
<1>4. CASE NobodyArrives
    <2>0. homeSpinner' \in BOOLEAN /\ homeFailed' \in BOOLEAN
        BY <1>4, Zenon DEF NobodyArrives
    <2>1. TypeOK'
        BY <1>1, <1>4, <2>0 DEF IInv, TypeOK, NobodyArrives, Answered
    <2> QED
        BY <1>4, <2>1 DEF IInv, CrashNeedsSwipe, NobodyArrives
<1>5. CASE PersonFails
    <2>1. TypeOK'
        BY <1>1, <1>5 DEF IInv, TypeOK, PersonFails, Answered
    <2> QED
        BY <1>5, <2>1 DEF IInv, CrashNeedsSwipe, PersonFails
<1>6. ASSUME NEW p \in Persons, PersonArrives(p) PROVE IInv'
    <2>0. homeSpinner' \in BOOLEAN /\ homeFailed' \in BOOLEAN
        BY <1>6, Zenon DEF PersonArrives, update
    <2>1. TypeOK'
        BY <1>1, <1>6, <2>0 DEF IInv, TypeOK, PersonArrives, update, Answered
    <2>2. person' = p /\ enabled' = {kind \in Kinds : Count[p][kind] > 0}
          /\ UNCHANGED <<place, screen, requests>>
        BY <1>6 DEF PersonArrives, update
    <2> QED
        BY <2>1, <2>2 DEF IInv, CrashNeedsSwipe
<1> QED
    BY <1>2, <1>3, <1>4, <1>5, <1>6

LEMMA FreshStep ==
    ASSUME IInv, FinishBack \/ Relaunch
    PROVE  IInv'
<1>1. NewScreen("films", NoPerson) \in Screens
    BY NewScreenFacts DEF Kinds, Pagers
<1>2. CASE FinishBack
    <2>1. TypeOK'
        BY <1>1, <1>2, BoundAssumption DEF IInv, TypeOK, FinishBack, homeVars
    <2> QED
        BY <1>2, <2>1 DEF IInv, CrashNeedsSwipe, FinishBack, homeVars
<1>3. CASE Relaunch
    <2>0. homeSpinner' \in BOOLEAN /\ homeFailed' \in BOOLEAN
        BY <1>3, Zenon DEF Relaunch
    <2>1. TypeOK'
        BY <1>1, <1>3, <2>0, BoundAssumption DEF IInv, TypeOK, Relaunch
    <2> QED
        BY <1>3, <2>1 DEF IInv, CrashNeedsSwipe, Relaunch
<1> QED
    BY <1>2, <1>3

LEMMA Inductive == IInv /\ [Next]_vars => IInv'
<1> SUFFICES ASSUME IInv, [Next]_vars PROVE IInv'
    OBVIOUS
<1>1. ASSUME NEW kind \in Kinds, Open(kind) PROVE IInv'
    BY <1>1, OpenStep
<1>2. CASE PressPreviewButton \/ PressNextButton
    BY <1>2, PressStep
<1>3. CASE Answers
    BY <1>3, AnswerStep DEF Answers
<1>4. CASE TakeBack
    BY <1>4, TakeBackStep
<1>5. CASE PressRandomButton \/ StartBack \/ NobodyArrives \/ PersonFails
    BY <1>5, HomeStep
<1>6. ASSUME NEW p \in Persons, PersonArrives(p) PROVE IInv'
    BY <1>6, HomeStep
<1>7. CASE FinishBack \/ Relaunch
    BY <1>7, FreshStep
<1>8. CASE UNCHANGED vars
    BY <1>8 DEF vars, homeVars, IInv, TypeOK, CrashNeedsSwipe
<1> QED
    BY <1>1, <1>2, <1>3, <1>4, <1>5, <1>6, <1>7, <1>8 DEF Next

LEMMA Invariance == Spec => []IInv
    BY Initially, Inductive, PTL DEF Spec
------------------------------------------------------------------------------
\* Whatever lists the people have and however answers, presses and swipes
\* interleave, the process ends for a wrong subscript on the starships' screen
\* only, and only after a swipe that was taken back.
THEOREM SubscriptSafe == Spec => []CrashNeedsSwipe
<1>1. IInv => CrashNeedsSwipe
    BY DEF IInv
<1> QED
    BY <1>1, Invariance, PTL

\* A screen that was opened for a person has something to show.
THEOREM SomethingToShow == Spec => []OpenedHasDetails
<1>1. IInv => OpenedHasDetails
    BY DEF IInv, HasDetails, OpenedHasDetails
<1> QED
    BY <1>1, Invariance, PTL
------------------------------------------------------------------------------
(* What is shown, and the spinners. *)

Restarted(s) == s.kind = "starships" /\ s.reappeared

\* The youngest request is for the address the buttons stand at; when there is
\* none left, its answer is what is shown.
LastIsCurrent ==
    /\ place \in {"detail", "leaving"} /\ screen.orderly
    /\ Addresses(screen) > 0 /\ ~Restarted(screen)
    => IF requests = <<>> THEN screen.shown = screen.index
       ELSE requests[Len(requests)] = screen.index

SpinsForAReason ==
    /\ homeSpinner /\ place # "crashed" => loading > 0 \/ homeFailed
    /\ place \in {"detail", "leaving"} /\ screen.spinner
       => requests # <<>> \/ ~screen.orderly \/ screen.of = NoPerson

ShownInv == LastIsCurrent /\ SpinsForAReason

\* What is left of the requests when the oldest is answered.
LEMMA RemoveFirstFacts ==
    ASSUME NEW q \in Seq(Nat), 1 \in 1..Len(q)
    PROVE  IF Len(q) = 1 THEN RemoveAt(q, 1) = <<>>
           ELSE /\ RemoveAt(q, 1) # <<>>
                /\ RemoveAt(q, 1)[Len(RemoveAt(q, 1))] = q[Len(q)]
<1> DEFINE front == SubSeq(q, 1, 1 - 1)
           back == SubSeq(q, 1 + 1, Len(q))
           rest == RemoveAt(q, 1)
<1>1. rest \in Seq(Nat) /\ Len(rest) = Len(q) - 1 /\ Len(q) \in Nat
    BY RemoveAtFacts
<1>2. front = <<>>
    BY SubSeqEmpty
<1>3. /\ back \in Seq(Nat)
      /\ \A i \in 1..(Len(q) - (1 + 1) + 1) : back[i] = q[1 + 1 + i - 1]
    <2>1. \A k \in (1 + 1)..Len(q) : q[k] \in Nat
        OBVIOUS
    <2>2. 1 + 1 \in Int /\ Len(q) \in Int
        BY <1>1
    <2> QED
        BY <2>1, <2>2, SubSeqProperties
<1>4. rest = back
    <2>1. rest = front \o back
        BY DEF RemoveAt
    <2> HIDE DEF front, back, rest
    <2> QED
        BY <2>1, <1>2, <1>3, ConcatEmptySeq
<1> HIDE DEF front, back, rest
<1>5. CASE Len(q) = 1
    BY <1>1, <1>5, EmptySeq DEF rest
<1>6. CASE Len(q) # 1
    <2>1. Len(rest) \in 1..(Len(q) - (1 + 1) + 1) /\ 1 + 1 + Len(rest) - 1 = Len(q)
        BY <1>1, <1>6
    <2>2. rest[Len(rest)] = q[Len(q)]
        BY <2>1, <1>3, <1>4
    <2>3. rest # <<>>
        BY <1>1, <1>6, EmptySeq
    <2> QED
        BY <1>6, <2>2, <2>3 DEF rest
<1> QED
    BY <1>5, <1>6

LEMMA ShownInitially == Init => ShownInv
    BY DEF Init, ShownInv, LastIsCurrent, SpinsForAReason

\* A new request is the youngest.
LEMMA AppendFacts ==
    ASSUME NEW q \in Seq(Nat), NEW e \in Nat
    PROVE  Append(q, e) # <<>> /\ Append(q, e)[Len(Append(q, e))] = e
<1>1. /\ Append(q, e) # <<>> /\ Len(Append(q, e)) = Len(q) + 1
      /\ Append(q, e)[Len(q) + 1] = e
    BY AppendProperties
<1> QED
    BY <1>1

LEMMA OpenShows ==
    ASSUME IInv, ShownInv, NEW kind \in Kinds, Open(kind)
    PROVE  ShownInv'
<1> DEFINE s == NewScreen(kind, person)
<1>1. /\ place = "home" /\ kind \in enabled /\ place' = "detail"
      /\ setupFirst(s)
      /\ UNCHANGED homeVars
    BY DEF Open
<1>2. /\ s \in Screens /\ s.kind = kind /\ s.of = person /\ s.index = 0
      /\ requests = <<>> /\ person \in Persons \cup {NoPerson}
    BY <1>1, NewScreenFacts DEF IInv, TypeOK, NewScreen
<1>3. requests' = IF Addresses(s) > 0 THEN Append(requests, 0) ELSE requests
    BY <1>1 DEF setupFirst
<1> HIDE DEF s
<1>4. requests \in Seq(Nat) /\ Len(requests) < MaxInFlight
    BY <1>2, BoundAssumption
<1>5. /\ screen'.of = person /\ screen'.index = 0
      /\ Addresses(screen') = Addresses(s)
    BY <1>1, <1>2, <1>4, SetupFirstFacts
<1>6. person # NoPerson => Addresses(s) > 0
    <2> SUFFICES ASSUME person # NoPerson PROVE Addresses(s) > 0
        OBVIOUS
    <2>1. Count[person][kind] > 0
        BY <1>1 DEF IInv
    <2> QED
        BY <2>1, <1>2 DEF Addresses
<1>7. Addresses(s) > 0 => requests' # <<>> /\ requests'[Len(requests')] = 0
    BY <1>3, <1>4, AppendFacts
<1>8. LastIsCurrent'
    BY <1>5, <1>7 DEF LastIsCurrent
<1>9. SpinsForAReason'
    BY <1>1, <1>5, <1>6, <1>7 DEF ShownInv, SpinsForAReason, homeVars
<1> QED
    BY <1>8, <1>9 DEF ShownInv

LEMMA PageShows ==
    ASSUME IInv, ShownInv, UNCHANGED homeVars, Pageable,
           NEW index \in Int, setupButtons(index)
    PROVE  ShownInv'
<1>1. screen \in Screens /\ requests \in Seq(Nat) /\ Addresses(screen) \in Nat
    BY ScreenFacts DEF IInv, TypeOK
<1>2. CASE index \in 0..(Addresses(screen) - 1)
    <2> DEFINE u == [screen EXCEPT !.index = index, !.preview = index # 0,
                                   !.next = index # LastIndex, !.spinner = TRUE]
    <2>1. screen' = u /\ requests' = Append(requests, index) /\ UNCHANGED place
        BY <1>2 DEF setupButtons
    <2>2. u.index = index
        BY <1>1 DEF Screens
    <2> HIDE DEF u
    <2>3. requests' # <<>> /\ requests'[Len(requests')] = index
        BY <1>1, <1>2, <2>1, AppendFacts
    <2>4. LastIsCurrent'
        BY <2>1, <2>2, <2>3 DEF LastIsCurrent
    <2>5. SpinsForAReason'
        BY <2>1, <2>3 DEF ShownInv, SpinsForAReason, homeVars
    <2> QED
        BY <2>4, <2>5 DEF ShownInv
<1>3. CASE index \notin 0..(Addresses(screen) - 1)
    <2>1. place' = "crashed"
        BY <1>3 DEF setupButtons
    <2> QED
        BY <2>1 DEF ShownInv, LastIsCurrent, SpinsForAReason
<1> QED
    BY <1>2, <1>3

LEMMA PressShows ==
    ASSUME IInv, ShownInv, PressPreviewButton \/ PressNextButton
    PROVE  ShownInv'
<1>1. screen.index - 1 \in Int /\ screen.index + 1 \in Int
    BY DEF IInv, TypeOK, Screens
<1> QED
    BY <1>1, PageShows DEF PressPreviewButton, PressNextButton

\* An answer in its turn shows the address it was for; any other, and a
\* failure, is remembered.
LEMMA AnswerShows ==
    ASSUME IInv, ShownInv, NEW i \in 1..Len(requests),
           DetailsArrive(i) \/ NothingArrives(i) \/ DetailsFail(i)
    PROVE  ShownInv'
<1>1. /\ requests' = RemoveAt(requests, i) /\ UNCHANGED <<place, homeVars>>
      /\ place \in {"detail", "leaving"}
      /\ screen \in Screens /\ requests \in Seq(Nat)
    BY DEF IInv, TypeOK, DetailsArrive, NothingArrives, DetailsFail, IsAnswered
<1>2. CASE DetailsArrive(i)
    <2> DEFINE u == updateDetailsOf(screen, requests[i])
               v == [u EXCEPT !.orderly = @ /\ i = 1]
    <2>1. /\ u \in Screens /\ u.kind = screen.kind /\ u.of = screen.of
          /\ u.index = screen.index /\ u.reappeared = screen.reappeared
          /\ ~u.spinner /\ u.orderly = screen.orderly /\ u.shown = requests[i]
        <3>1. requests[i] \in Int
            BY <1>1
        <3> QED
            BY <1>1, <3>1 DEF updateDetailsOf, Screens
    <2>2. screen' = v
        BY <1>2 DEF DetailsArrive
    <2> HIDE DEF u
    <2>3. /\ v.kind = u.kind /\ v.of = u.of /\ v.index = u.index
          /\ v.reappeared = u.reappeared /\ ~v.spinner /\ v.shown = u.shown
          /\ v.orderly => u.orderly /\ i = 1
        BY <2>1 DEF Screens
    <2>4. Addresses(v) = Addresses(screen)
        BY <2>1, <2>3 DEF Addresses
    <2> HIDE DEF v
    <2>5. SpinsForAReason'
        BY <1>1, <2>2, <2>3 DEF ShownInv, SpinsForAReason, homeVars
    <2>6. ASSUME v.orderly, Addresses(v) > 0, ~Restarted(v)
          PROVE  IF requests' = <<>> THEN v.shown = v.index
                 ELSE requests'[Len(requests')] = v.index
        <3>1. /\ screen.orderly /\ i = 1 /\ Addresses(screen) > 0 /\ ~Restarted(screen)
              /\ v.shown = requests[1] /\ v.index = screen.index
            BY <2>1, <2>3, <2>4, <2>6 DEF Restarted
        <3>2. requests # <<>> /\ Len(requests) \in Nat /\ Len(requests) # 0
            BY <1>1
        <3>3. requests[Len(requests)] = screen.index
            BY <1>1, <3>1, <3>2 DEF ShownInv, LastIsCurrent
        <3>4. IF Len(requests) = 1 THEN requests' = <<>>
              ELSE requests' # <<>> /\ requests'[Len(requests')] = requests[Len(requests)]
            BY <1>1, <3>1, <3>2, RemoveFirstFacts
        <3> QED
            BY <3>1, <3>3, <3>4
    <2>7. LastIsCurrent'
        BY <2>2, <2>6 DEF LastIsCurrent, Restarted
    <2> QED
        BY <2>5, <2>7 DEF ShownInv
<1>3. CASE NothingArrives(i) \/ DetailsFail(i)
    <2>1. ~screen'.orderly
        BY <1>1, <1>3 DEF NothingArrives, DetailsFail, Screens
    <2>2. LastIsCurrent'
        BY <2>1 DEF LastIsCurrent
    <2>3. SpinsForAReason'
        BY <1>1, <2>1 DEF ShownInv, SpinsForAReason, homeVars
    <2> QED
        BY <2>2, <2>3 DEF ShownInv
<1> QED
    BY <1>2, <1>3

LEMMA TakeBackShows ==
    ASSUME IInv, ShownInv, TakeBack
    PROVE  ShownInv'
<1> DEFINE s == [screen EXCEPT !.reappeared = TRUE]
<1>1. /\ place = "leaving" /\ place' = "detail" /\ UNCHANGED homeVars
      /\ screen \in Screens /\ requests \in Seq(Nat)
      /\ HasDetails(screen)
    BY DEF TakeBack, IInv, TypeOK
<1>2. /\ s \in Screens /\ s.kind = screen.kind /\ s.of = screen.of
      /\ s.index = screen.index /\ s.reappeared /\ s.shown = screen.shown
      /\ s.orderly = screen.orderly /\ s.spinner = screen.spinner
    BY <1>1 DEF Screens
<1>3. Addresses(s) = Addresses(screen) /\ Addresses(s) \in Nat
    <2> HIDE DEF s
    <2>1. Addresses(s) = Addresses(screen)
        BY <1>2 DEF Addresses
    <2> QED
        BY <1>1, <2>1, ScreenFacts
<1>4. CASE screen.kind = "starships"
    <2>1. Len(requests) < MaxInFlight /\ setupFirst(s)
        BY <1>4 DEF TakeBack
    <2> HIDE DEF s
    <2>2. screen'.kind = s.kind /\ screen'.of = s.of /\ (screen'.reappeared <=> s.reappeared)
        BY <1>1, <1>2, <2>1, SetupFirstFacts
    <2>3. LastIsCurrent'
        BY <1>2, <1>4, <2>2 DEF LastIsCurrent, Restarted
    <2>4. s.of # NoPerson => requests' # <<>>
        <3>1. requests' = IF Addresses(s) > 0 THEN Append(requests, 0) ELSE requests
            BY <2>1 DEF setupFirst
        <3> QED
            BY <1>1, <1>2, <1>3, <3>1, AppendFacts DEF HasDetails
    <2>5. SpinsForAReason'
        BY <1>1, <2>2, <2>4 DEF ShownInv, SpinsForAReason, homeVars
    <2> QED
        BY <2>3, <2>5 DEF ShownInv
<1>5. CASE screen.kind # "starships"
    <2>1. screen' = s /\ UNCHANGED requests
        BY <1>5 DEF TakeBack
    <2> HIDE DEF s
    <2>2. LastIsCurrent'
        BY <1>1, <1>2, <1>3, <1>5, <2>1 DEF ShownInv, LastIsCurrent, Restarted
    <2>3. SpinsForAReason'
        BY <1>1, <1>2, <2>1 DEF ShownInv, SpinsForAReason, homeVars
    <2> QED
        BY <2>2, <2>3 DEF ShownInv
<1> QED
    BY <1>4, <1>5

LEMMA HomeShows ==
    ASSUME IInv, ShownInv,
           \/ PressRandomButton \/ StartBack \/ NobodyArrives \/ PersonFails
           \/ FinishBack \/ Relaunch
           \/ \E p \in Persons : PersonArrives(p)
    PROVE  ShownInv'
<1>1. loading \in Nat
    BY DEF IInv, TypeOK
<1>2. CASE PressRandomButton \/ StartBack
    BY <1>1, <1>2
       DEF ShownInv, LastIsCurrent, SpinsForAReason, PressRandomButton, StartBack,
           generateRandomPerson
<1>3. CASE NobodyArrives \/ PersonFails \/ \E p \in Persons : PersonArrives(p)
    <2>1. UNCHANGED <<place, screen, requests>> /\ (~homeSpinner' \/ homeFailed')
        BY <1>3 DEF NobodyArrives, PersonFails, PersonArrives, update
    <2> QED
        BY <2>1 DEF ShownInv, LastIsCurrent, SpinsForAReason
<1>4. CASE FinishBack \/ Relaunch
    BY <1>4
       DEF ShownInv, LastIsCurrent, SpinsForAReason, FinishBack, Relaunch, homeVars
<1> QED
    BY <1>2, <1>3, <1>4

LEMMA ShownInductive == IInv /\ ShownInv /\ [Next]_vars => ShownInv'
<1> SUFFICES ASSUME IInv, ShownInv, [Next]_vars PROVE ShownInv'
    OBVIOUS
<1>1. ASSUME NEW kind \in Kinds, Open(kind) PROVE ShownInv'
    BY <1>1, OpenShows
<1>2. CASE PressPreviewButton \/ PressNextButton
    BY <1>2, PressShows
<1>3. CASE Answers
    BY <1>3, AnswerShows DEF Answers
<1>4. CASE TakeBack
    BY <1>4, TakeBackShows
<1>5. CASE PressRandomButton \/ StartBack \/ NobodyArrives \/ PersonFails
    BY <1>5, HomeShows
<1>6. ASSUME NEW p \in Persons, PersonArrives(p) PROVE ShownInv'
    BY <1>6, HomeShows
<1>7. CASE FinishBack \/ Relaunch
    BY <1>7, HomeShows
<1>8. CASE UNCHANGED vars
    BY <1>8 DEF vars, homeVars, ShownInv, LastIsCurrent, SpinsForAReason
<1> QED
    BY <1>1, <1>2, <1>3, <1>4, <1>5, <1>6, <1>7, <1>8 DEF Next

LEMMA ShownInvariance == Spec => []ShownInv
    BY ShownInitially, ShownInductive, Invariance, PTL DEF Spec

\* However presses and answers interleave, a pager that has got all its answers
\* in turn shows the address its buttons stand at.
THEOREM PagerShowsCurrent == Spec => []ShowsCurrent
<1>1. ShownInv => ShowsCurrent
    BY DEF ShownInv, LastIsCurrent, ShowsCurrent, Restarted
<1> QED
    BY <1>1, ShownInvariance, PTL

\* No spinner turns for nothing: there is a request it waits for, an answer
\* that failed, or a screen opened before there was a person.
THEOREM SpinnersHaveReasons == Spec => []SpinnerMeansLoading
<1>1. ShownInv => SpinnerMeansLoading
    BY DEF ShownInv, SpinsForAReason, SpinnerMeansLoading
<1> QED
    BY <1>1, ShownInvariance, PTL
==============================================================================
