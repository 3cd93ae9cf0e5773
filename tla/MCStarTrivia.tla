----------------------------- MODULE MCStarTrivia -----------------------------
EXTENDS StarTrivia

CONSTANTS p1, p2

\* One person with lists of every length that matters, and one with next to
\* nothing.
MCCount ==
    (p1 :> ("homeworld" :> 1 @@ "films" :> 3 @@ "vehicles" :> 2 @@ "starships" :> 3))
    @@ (p2 :> ("homeworld" :> 1 @@ "films" :> 1 @@ "vehicles" :> 0 @@ "starships" :> 0))
==============================================================================
