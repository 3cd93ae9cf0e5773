------------------------------ MODULE ListMirror ------------------------------
(***************************************************************************)
(* What a list screen promises: while it is visible, its rows are a result *)
(* that the query has had, in query order; results are shown in the order  *)
(* in which they arose, none is shown twice or out of turn; a screen that  *)
(* is not visible shows nothing; one whose listener has failed keeps the   *)
(* rows it had.                                                            *)
(***************************************************************************)
EXTENDS Sequences

CONSTANTS Results,       \* the results a query can have
          InOrder(_)     \* a result as the sequence of its rows

VARIABLES current,       \* the query's result now
          upcoming,      \* results not shown yet, oldest first
          screen,        \* "hidden", "watching" the query, or "frozen"
          rows

mirrorVars == <<current, upcoming, screen, rows>>

Init == current \in Results /\ upcoming = <<>> /\ screen = "hidden" /\ rows = <<>>

\* The collection changes; a watching screen will be shown the new result.
Change ==
    /\ current' \in Results
    /\ upcoming' = IF screen = "watching" THEN Append(upcoming, current') ELSE upcoming
    /\ UNCHANGED <<screen, rows>>

Appear ==
    /\ screen = "hidden"
    /\ screen' = "watching"
    /\ upcoming' = <<current>>
    /\ UNCHANGED <<current, rows>>

Show ==
    /\ upcoming # <<>>
    /\ rows' = InOrder(Head(upcoming))
    /\ upcoming' = Tail(upcoming)
    /\ UNCHANGED <<current, screen>>

Freeze ==
    /\ screen = "watching"
    /\ screen' = "frozen"
    /\ upcoming' = <<>>
    /\ UNCHANGED <<current, rows>>

\* Nothing that was still on its way is shown later.
Disappear ==
    /\ screen # "hidden"
    /\ screen' = "hidden"
    /\ upcoming' = <<>> /\ rows' = <<>>
    /\ UNCHANGED current

Next == Change \/ Appear \/ Show \/ Freeze \/ Disappear

Spec == Init /\ [][Next]_mirrorVars
==============================================================================
