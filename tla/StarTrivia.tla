------------------------------ MODULE StarTrivia ------------------------------
(***************************************************************************)
(* Star Trivia v0.3: a home screen that loads a random person of the Star  *)
(* Wars API, and a screen for that person's home world, films, vehicles or *)
(* starships, of which the last three page through a list of addresses.    *)
(*                                                                         *)
(* Every request is a closure that keeps its screen; answers come in any   *)
(* order, and a failure is only printed.  The screen that was left goes on *)
(* listening, but nobody sees it: its requests are dropped with it.        *)
(* Swiping back makes the home screen appear at once, and the customer may *)
(* think better of it: then the screen that was being left appears again.  *)
(***************************************************************************)
EXTENDS Integers, Sequences, SequencesExt

CONSTANTS
    Persons,        \* the people of the API
    NoPerson,       \* the home screen's person before the first answer
    Count,          \* how many addresses a person has of each kind
    MaxInFlight     \* bound: requests of one screen that are in flight

Pagers == {"films", "vehicles", "starships"}
Kinds == Pagers \cup {"homeworld"}

ASSUME CountAssumption ==
    /\ Count \in [Persons -> [Kinds -> Nat]]
    /\ \A p \in Persons : Count[p]["homeworld"] <= 1
ASSUME PersonAssumption == NoPerson \notin Persons
ASSUME BoundAssumption == MaxInFlight \in Nat \ {0}

VARIABLES
    place,          \* the screen on top; "leaving" while it is swiped away
    person,         \* HomeController.person
    enabled,        \* the buttons of the home screen that can be pressed
    homeSpinner,    \* whether the home screen's spinner spins
    loading,        \* the home screen's requests in flight
    homeFailed,     \* history: the last answer to the home screen was a failure
    screen,         \* the screen over the home screen
    requests        \* its requests in flight, oldest first

homeVars == <<person, enabled, homeSpinner, loading, homeFailed>>
vars == <<place, homeVars, screen, requests>>

\* A screen: whose it is, the index of the current address (from 0, as in the
\* code), its buttons, its spinner and what is shown (an index, or Blank).
\* History: `orderly' as long as its requests succeeded in the order they were
\* made in; `reappeared' when a swipe was taken back.
Blank == -1
Screens ==
    [kind : Kinds, of : Persons \cup {NoPerson}, index : Nat,
     preview : BOOLEAN, next : BOOLEAN, spinner : BOOLEAN,
     shown : Int, orderly : BOOLEAN, reappeared : BOOLEAN]

\* The addresses the screen has: person?.filmUrls ?? [].
Addresses(s) == IF s.of = NoPerson THEN 0 ELSE Count[s.of][s.kind]

TypeOK ==
    /\ place \in {"home", "detail", "leaving", "crashed"}
    /\ person \in Persons \cup {NoPerson}
    /\ enabled \subseteq Kinds
    /\ homeSpinner \in BOOLEAN /\ loading \in 0..MaxInFlight /\ homeFailed \in BOOLEAN
    /\ screen \in Screens
    /\ requests \in Seq(Nat) /\ Len(requests) <= MaxInFlight

NewScreen(kind, p) ==
    [kind |-> kind, of |-> p, index |-> 0, preview |-> FALSE, next |-> FALSE,
     spinner |-> FALSE, shown |-> Blank, orderly |-> TRUE, reappeared |-> FALSE]

Init ==
    /\ place = "home"
    /\ person = NoPerson /\ enabled = Kinds
    /\ homeSpinner = TRUE /\ loading = 1 /\ homeFailed = FALSE
    /\ screen = NewScreen("films", NoPerson) /\ requests = <<>>
------------------------------------------------------------------------------
(* The home screen. *)

generateRandomPerson ==
    /\ loading < MaxInFlight
    /\ loading' = loading + 1
    /\ homeSpinner' = TRUE
    /\ UNCHANGED <<person, enabled, homeFailed>>

PressRandomButton ==
    /\ place = "home"
    /\ generateRandomPerson
    /\ UNCHANGED <<place, screen, requests>>

Answered == loading > 0 /\ loading' = loading - 1 /\ place # "crashed"

\* Mutant: the buttons stay as they are.
updateWithoutButtons(p) ==
    /\ homeSpinner' = FALSE
    /\ person' = p
    /\ UNCHANGED enabled

\* update(_:) of a person: the labels, and the buttons that lead somewhere.
update(p) ==
    /\ homeSpinner' = FALSE
    /\ person' = p
    /\ enabled' = {kind \in Kinds : Count[p][kind] > 0}

PersonArrives(p) ==
    /\ Answered
    /\ update(p)
    /\ homeFailed' = FALSE
    /\ UNCHANGED <<place, screen, requests>>

\* A success without a person: JSON's null.
NobodyArrives ==
    /\ Answered
    /\ homeSpinner' = FALSE
    /\ homeFailed' = FALSE
    /\ UNCHANGED <<place, person, enabled, screen, requests>>

PersonFails ==
    /\ Answered
    /\ homeFailed' = TRUE
    /\ UNCHANGED <<place, person, enabled, homeSpinner, screen, requests>>
------------------------------------------------------------------------------
(* The screens over it. *)

\* Films and starships start to spin in viewDidLoad, whatever there is to
\* load, and so does the home world; vehicles only when they are loaded.
Loading(s) == [s EXCEPT !.spinner = @ \/ s.kind # "vehicles" \/ Addresses(s) > 0]

\* The array and the buttons are set up, and the first address asked for, if
\* there is one; the index is left alone.
setupFirst(s) ==
    /\ screen' = [Loading(s) EXCEPT !.preview = FALSE, !.next = Addresses(s) > 1]
    /\ requests' = IF Addresses(s) > 0 THEN Append(requests, 0) ELSE requests

\* pressFilmsButton and its like: the coordinator pushes a screen that gets
\* the person as it is now.
Open(kind) ==
    /\ place = "home"
    /\ kind \in enabled
    /\ place' = "detail"
    /\ setupFirst(NewScreen(kind, person))
    /\ UNCHANGED homeVars

\* Mutant: one address too many before the button is disabled.
LastIndexLate == Addresses(screen)

LastIndex == Addresses(screen) - 1

\* Mutant: the address is looked up before the index is stepped.
setupButtonsBeforeStep(index) ==
    /\ screen' = [screen EXCEPT !.index = index, !.preview = index # 0,
                                 !.next = index # LastIndex, !.spinner = TRUE]
    /\ requests' = Append(requests, screen.index)
    /\ UNCHANGED place

\* The index has been stepped: the buttons, and the address there is asked
\* for; where there is none, the array's subscript ends the process.
setupButtons(index) ==
    IF index \in 0..(Addresses(screen) - 1)
    THEN /\ screen' = [screen EXCEPT !.index = index, !.preview = index # 0,
                                     !.next = index # LastIndex, !.spinner = TRUE]
         /\ requests' = Append(requests, index)
         /\ UNCHANGED place
    ELSE place' = "crashed" /\ UNCHANGED <<screen, requests>>

Pageable == place = "detail" /\ screen.kind \in Pagers /\ Len(requests) < MaxInFlight

PressPreviewButton ==
    /\ Pageable /\ screen.preview
    /\ setupButtons(screen.index - 1)
    /\ UNCHANGED homeVars

PressNextButton ==
    /\ Pageable /\ screen.next
    /\ setupButtons(screen.index + 1)
    /\ UNCHANGED homeVars

\* The i-th of the screen's requests is answered.
IsAnswered(i) ==
    /\ place \in {"detail", "leaving"}
    /\ i \in 1..Len(requests)
    /\ requests' = RemoveAt(requests, i)
    /\ UNCHANGED <<place, homeVars>>

\* Mutant: the spinner is left alone.
updateDetailsSpinning(s, index) == [s EXCEPT !.shown = index]

updateDetailsOf(s, index) == [s EXCEPT !.spinner = FALSE, !.shown = index]

DetailsArrive(i) ==
    /\ IsAnswered(i)
    /\ screen' = [updateDetailsOf(screen, requests[i]) EXCEPT !.orderly = @ /\ i = 1]

\* A success without details: JSON's null.
NothingArrives(i) ==
    /\ IsAnswered(i)
    /\ screen' = [screen EXCEPT !.spinner = FALSE, !.orderly = FALSE]

DetailsFail(i) ==
    /\ IsAnswered(i)
    /\ screen' = [screen EXCEPT !.orderly = FALSE]
------------------------------------------------------------------------------
(* Leaving the screen. *)

\* The back button, or a swipe: the home screen appears, for another person.
StartBack ==
    /\ place = "detail"
    /\ place' = "leaving"
    /\ generateRandomPerson
    /\ UNCHANGED <<screen, requests>>

FinishBack ==
    /\ place = "leaving"
    /\ place' = "home"
    /\ screen' = NewScreen("films", NoPerson) /\ requests' = <<>>
    /\ UNCHANGED homeVars

\* The swipe is taken back: the screen appears again.  Only that of the
\* starships loads its first address in viewWillAppear.
TakeBack ==
    /\ place = "leaving"
    /\ place' = "detail"
    /\ IF screen.kind = "starships"
       THEN /\ Len(requests) < MaxInFlight
            /\ setupFirst([screen EXCEPT !.reappeared = TRUE])
       ELSE screen' = [screen EXCEPT !.reappeared = TRUE] /\ UNCHANGED requests
    /\ UNCHANGED homeVars

Relaunch ==
    /\ place = "crashed"
    /\ place' = "home"
    /\ person' = NoPerson /\ enabled' = Kinds
    /\ homeSpinner' = TRUE /\ loading' = 1 /\ homeFailed' = FALSE
    /\ screen' = NewScreen("films", NoPerson) /\ requests' = <<>>
------------------------------------------------------------------------------
Answers ==
    \E i \in 1..Len(requests) : DetailsArrive(i) \/ NothingArrives(i) \/ DetailsFail(i)

Next ==
    \/ PressRandomButton \/ NobodyArrives \/ PersonFails
    \/ \E p \in Persons : PersonArrives(p)
    \/ \E kind \in Kinds : Open(kind)
    \/ PressPreviewButton \/ PressNextButton
    \/ StartBack \/ FinishBack \/ TakeBack \/ Relaunch
    \/ Answers

Spec == Init /\ [][Next]_vars

\* Alamofire answers every request, with a failure if nothing else.
FairSpec == Spec /\ WF_vars(Answers)
------------------------------------------------------------------------------
\* The address asked for is always in the list, however the buttons are
\* pressed, except on the starships' screen after a swipe that was taken back:
\* there the buttons start over and currentStarship does not.
CrashNeedsSwipe ==
    place = "crashed" => screen.kind = "starships" /\ screen.reappeared

\* What is shown is what the buttons stand at, once everything has arrived, if
\* no answer overtook another and none failed.
ShowsCurrent ==
    /\ place = "detail" /\ requests = <<>> /\ screen.orderly
    /\ Addresses(screen) > 0
    /\ ~(screen.kind = "starships" /\ screen.reappeared)
    => screen.shown = screen.index

\* A spinner that spins stands for a request in flight, for an answer that
\* failed, or for a screen opened before there was a person.
SpinnerMeansLoading ==
    /\ homeSpinner /\ place # "crashed" => loading > 0 \/ homeFailed
    /\ place = "detail" /\ screen.spinner
       => requests # <<>> \/ ~screen.orderly \/ screen.of = NoPerson

\* A screen opened for a person has something to show: the buttons are those
\* of the person that is handed on.
OpenedHasDetails ==
    place = "detail" /\ screen.of # NoPerson => Addresses(screen) > 0

\* The spinner of a person's details stops, unless an answer fails.
SpinnerEnds ==
    place = "detail" /\ screen.spinner /\ screen.of # NoPerson
    ~> ~screen.spinner \/ ~screen.orderly \/ place # "detail"
==============================================================================
