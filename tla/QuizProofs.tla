------------------------------ MODULE QuizProofs ------------------------------
(***************************************************************************)
(* What holds of the quiz for any number of questions, any options and any *)
(* right answers.  The results agree with the screens because the answers  *)
(* already do, for every screen but the top one: that is the strengthening *)
(* which makes the properties inductive.                                   *)
(***************************************************************************)
EXTENDS Quiz, TLAPS, FiniteSetTheorems, SequenceTheorems

\* Screens for the first so many questions.
Ordered(s) ==
    /\ s \in Seq(Screens) /\ s # <<>>
    /\ Len(s) <= N
    /\ \A k \in 1..Len(s) : s[k].question = k

\* The Submit button knows what is selected.
Faithful(s) ==
    \A k \in 1..Len(s) :
        /\ s[k].selected \subseteq Options[k]
        /\ k \in Multiple => Range(s[k].model) = s[k].selected

\* The engine knows what is selected on the first n screens.
Recorded(s, n) ==
    \A k \in 1..n : k \in DOMAIN answers /\ Range(answers[k]) = s[k].selected

IInv ==
    /\ TypeOK
    /\ Ordered(stack)
    /\ Faithful(stack)
    /\ Recorded(stack, Len(stack) - 1)
    /\ results # NoResults => Len(stack) = N
    /\ ~crashed
    /\ NoEmptyAnswers
    /\ ResultsMatchScreens

LEMMA Initially == Init => IInv
<1> SUFFICES ASSUME Init PROVE IInv
    OBVIOUS
<1> USE DEF Init, Asked, NoResults
<1>1. /\ Len(stack) = 1 /\ stack[1] = [question |-> 1, selected |-> {}, model |-> <<>>]
      /\ stack # <<>>
    OBVIOUS
<1>2. stack \in Seq(Screens)
    <2>1. Asked(1) \in Screens
        BY NAssumption DEF Screens
    <2> QED
        BY <2>1
<1>3. TypeOK
    <2>1. <<>> \in Seq(AllOptions) /\ Len(<<>>) = 0
        OBVIOUS
    <2>2. <<>> \in [1..0 -> Seq(AllOptions)] /\ DOMAIN <<>> = {}
        <3>1. <<>> \in Seq(Seq(AllOptions)) /\ Len(<<>>) = 0
            OBVIOUS
        <3> QED
            BY <3>1, LenProperties
    <2>3. answers \in [DOMAIN answers -> Seq(AllOptions)] /\ DOMAIN answers = {}
        BY <2>2
    <2> QED
        BY <2>3, <1>1, <1>2 DEF TypeOK
<1>4. Ordered(stack)
    BY <1>1, <1>2, NAssumption DEF Ordered
<1>5. Range(<<>>) = {}
    BY DEF Range
<1>6. Faithful(stack)
    <2> SUFFICES ASSUME NEW k \in 1..1
                 PROVE  /\ stack[k].selected \subseteq Options[k]
                        /\ k \in Multiple => Range(stack[k].model) = stack[k].selected
        BY <1>1 DEF Faithful
    <2>1. stack[k].selected = {} /\ stack[k].model = <<>>
        BY <1>1
    <2> QED
        BY <2>1, <1>5
<1>7. Recorded(stack, Len(stack) - 1)
    BY <1>1 DEF Recorded
<1>8. NoEmptyAnswers /\ ResultsMatchScreens
    BY DEF NoEmptyAnswers, ResultsMatchScreens
<1> QED
    BY <1>1, <1>3, <1>4, <1>6, <1>7, <1>8 DEF IInv

------------------------------------------------------------------------------
(* The answer to the question on top of the screens s. *)

LEMMA AnswerStep ==
    ASSUME IInv, Answerable,
           NEW s, Ordered(s), Faithful(s), Len(s) = Len(stack),
           Recorded(s, Len(s) - 1),
           NEW a \in Seq(AllOptions), a # <<>>, Range(a) = s[Len(s)].selected,
           AnswerCallback(Len(s), a, s)
    PROVE  IInv'
<1> DEFINE n == Len(s)
<1>1. n \in 1..N /\ n \in Nat
    BY NAssumption DEF Ordered
<1>2. /\ DOMAIN answers \subseteq 1..N
      /\ answers \in [DOMAIN answers -> Seq(AllOptions)]
    BY DEF IInv, TypeOK
<1>3. /\ answers' = [j \in DOMAIN answers \cup {n} |-> IF j = n THEN a ELSE answers[j]]
    BY DEF AnswerCallback, WithAnswer
<1>4. /\ DOMAIN answers' = DOMAIN answers \cup {n}
      /\ DOMAIN answers' \subseteq 1..N
      /\ answers' \in [DOMAIN answers' -> Seq(AllOptions)]
    BY <1>1, <1>2, <1>3
<1>5. NoEmptyAnswers'
    BY <1>3, <1>4 DEF IInv, NoEmptyAnswers
<1>6. \A k \in 1..n : k \in DOMAIN answers' /\ Range(answers'[k]) = s[k].selected
    <2> SUFFICES ASSUME NEW k \in 1..n
                 PROVE  k \in DOMAIN answers' /\ Range(answers'[k]) = s[k].selected
        OBVIOUS
    <2>1. CASE k = n
        BY <2>1, <1>3, <1>4
    <2>2. CASE k # n
        <3>1. k \in 1..(n - 1)
            BY <2>2, <1>1
        <3>2. k \in DOMAIN answers /\ Range(answers[k]) = s[k].selected
            BY <3>1 DEF Recorded
        <3>3. answers'[k] = answers[k]
            BY <2>2, <3>2, <1>3
        <3> QED
            BY <3>2, <3>3, <1>4
    <2> QED
        BY <2>1, <2>2
<1>7. CASE n < N
    <2>1. stack' = Append(s, Asked(n + 1)) /\ UNCHANGED <<results, crashed>>
        BY <1>7 DEF AnswerCallback, RouteToQuestion
    <2>2. Asked(n + 1) \in Screens
        BY <1>1, <1>7, NAssumption DEF Asked, Screens
    <2>3. /\ stack' \in Seq(Screens) /\ Len(stack') = n + 1
          /\ \A k \in 1..n : stack'[k] = s[k]
          /\ stack'[n + 1] = Asked(n + 1)
          /\ stack' # <<>>
        BY <2>1, <2>2, <1>1 DEF Ordered
    <2>4. Ordered(stack')
        <3> SUFFICES ASSUME NEW k \in 1..(n + 1) PROVE stack'[k].question = k
            BY <2>3, <1>7, <1>1, NAssumption DEF Ordered
        <3>1. CASE k = n + 1
            BY <3>1, <2>3 DEF Asked
        <3>2. CASE k \in 1..n
            BY <3>2, <2>3 DEF Ordered
        <3>3. k = n + 1 \/ k \in 1..n
            BY <1>1
        <3> QED
            BY <3>1, <3>2, <3>3
    <2>5. Faithful(stack')
        <3> SUFFICES ASSUME NEW k \in 1..(n + 1)
                     PROVE  /\ stack'[k].selected \subseteq Options[k]
                            /\ k \in Multiple => Range(stack'[k].model) = stack'[k].selected
            BY <2>3 DEF Faithful
        <3>1. CASE k = n + 1
            BY <3>1, <2>3 DEF Asked, Range
        <3>2. CASE k # n + 1
            BY <3>2, <2>3, <1>1 DEF Faithful
        <3> QED
            BY <3>1, <3>2
    <2>6. Recorded(stack, Len(stack) - 1)'
        BY <2>3, <1>6, <1>1 DEF Recorded
    <2>7. results' = NoResults /\ ~crashed' /\ crashed' \in BOOLEAN
        <3>1. crashed \in BOOLEAN
            BY DEF IInv, TypeOK
        <3> QED
            BY <3>1, <2>1 DEF Answerable
    <2>8. TypeOK'
        BY <2>3, <2>7, <1>4 DEF TypeOK
    <2> QED
        BY <2>4, <2>5, <2>6, <2>7, <2>8, <1>5 DEF IInv, ResultsMatchScreens
<1>8. CASE n = N
    <2>1. stack' = s
        BY <1>8, <1>1 DEF AnswerCallback, RouteToResult
    <2>2. DOMAIN answers' = 1..N
        BY <1>8, <1>6, <1>4
    <2>3. /\ results' = [i \in 1..N |-> PresentableAnswer(i, answers'[i])]
          /\ crashed' = crashed
        BY <1>8, <1>1, <2>2 DEF AnswerCallback, RouteToResult
    <2>4. ASSUME NEW i \in 1..N
          PROVE  /\ CorrectAnswer[i] \in Seq(AllOptions)
                 /\ answers'[i] \in Seq(AllOptions) /\ answers'[i] # <<>>
                 /\ results'[i] = [answer |-> CorrectAnswer[i],
                                   wrongAnswer |-> IF answers'[i] = CorrectAnswer[i]
                                                   THEN <<>> ELSE answers'[i]]
        <3>1. CorrectAnswer[i] \in Seq(AllOptions)
            <4>1. CorrectAnswer[i] \in Seq(Options[i]) /\ Options[i] \subseteq AllOptions
                BY QuestionAssumption DEF AllOptions
            <4> QED
                BY <4>1
        <3>2. answers'[i] \in Seq(AllOptions) /\ answers'[i] # <<>>
            BY <1>4, <1>5, <2>2 DEF NoEmptyAnswers
        <3> QED
            BY <3>1, <3>2, <2>3 DEF PresentableAnswer
    <2>5. results' \in [1..N -> Rows]
        <3>1. ASSUME NEW i \in 1..N PROVE PresentableAnswer(i, answers'[i]) \in Rows
            <4>0. CorrectAnswer[i] \in Seq(AllOptions) /\ answers'[i] \in Seq(AllOptions)
                BY <2>4
            <4>1. CASE answers'[i] = CorrectAnswer[i]
                <5>1. PresentableAnswer(i, answers'[i])
                          = [answer |-> CorrectAnswer[i], wrongAnswer |-> <<>>]
                    BY <4>1 DEF PresentableAnswer
                <5>2. <<>> \in Seq(AllOptions)
                    OBVIOUS
                <5> QED
                    BY <5>1, <5>2, <4>0 DEF Rows
            <4>2. CASE answers'[i] # CorrectAnswer[i]
                <5>1. PresentableAnswer(i, answers'[i])
                          = [answer |-> CorrectAnswer[i], wrongAnswer |-> answers'[i]]
                    BY <4>2 DEF PresentableAnswer
                <5> QED
                    BY <5>1, <4>0 DEF Rows
            <4> QED
                BY <4>1, <4>2
        <3> QED
            BY <3>1, <2>3
    <2>6. ResultsMatchScreens'
        <3> SUFFICES ASSUME NEW i \in 1..N
                     PROVE  LET row == results'[i]
                                given == IF row.wrongAnswer = <<>> THEN row.answer
                                         ELSE row.wrongAnswer
                            IN  Range(given) = stack'[i].selected
            BY DEF ResultsMatchScreens
        <3> DEFINE given == IF results'[i].wrongAnswer = <<>> THEN results'[i].answer
                            ELSE results'[i].wrongAnswer
        <3>1. given = answers'[i]
            <4>1. CASE answers'[i] = CorrectAnswer[i]
                <5>1. results'[i] = [answer |-> CorrectAnswer[i], wrongAnswer |-> <<>>]
                    BY <4>1, <2>4
                <5> QED
                    BY <5>1, <4>1
            <4>2. CASE answers'[i] # CorrectAnswer[i]
                <5>1. results'[i] = [answer |-> CorrectAnswer[i],
                                     wrongAnswer |-> answers'[i]]
                    BY <4>2, <2>4
                <5> QED
                    BY <5>1, <2>4
            <4> QED
                BY <4>1, <4>2
        <3>2. Range(answers'[i]) = stack'[i].selected
            BY <1>6, <1>8, <2>1
        <3> QED
            BY <3>1, <3>2
    <2>7. ~crashed' /\ crashed' \in BOOLEAN
        <3>1. crashed \in BOOLEAN
            BY DEF IInv, TypeOK
        <3> QED
            BY <3>1, <2>3 DEF IInv
    <2>8. TypeOK'
        BY <2>1, <2>5, <2>7, <1>4 DEF TypeOK, Ordered
    <2>9. Recorded(stack, Len(stack) - 1)'
        BY <2>1, <1>6, <1>1 DEF Recorded
    <2> QED
        BY <2>1, <2>6, <2>7, <2>8, <2>9, <1>5, <1>8 DEF IInv
<1> QED
    BY <1>1, <1>7, <1>8, NAssumption
------------------------------------------------------------------------------
(* The actions. *)

\* The top screen, as it is kept.
LEMMA TopFacts ==
    ASSUME IInv
    PROVE  /\ Len(stack) \in 1..N
           /\ Top \in Screens /\ Top.question = Len(stack)
           /\ Top.selected \subseteq Options[Len(stack)]
           /\ Options[Len(stack)] \subseteq AllOptions
           /\ IsFiniteSet(Options[Len(stack)])
<1>1. /\ stack \in Seq(Screens) /\ stack # <<>> /\ Len(stack) <= N
      /\ \A k \in 1..Len(stack) : stack[k].question = k
    BY DEF IInv, Ordered
<1>2. Len(stack) \in 1..Len(stack) /\ Len(stack) \in 1..N
    BY <1>1, NAssumption
<1>3. Top \in Screens /\ Top.question = Len(stack)
    BY <1>1, <1>2 DEF Top
<1>4. Top.selected \subseteq Options[Len(stack)]
    BY <1>2 DEF IInv, Faithful, Top
<1> QED
    BY <1>2, <1>3, <1>4, QuestionAssumption DEF AllOptions

LEMMA ChangedScreen ==
    ASSUME NEW t \in Screens, NEW sel
    PROVE  [t EXCEPT !.selected = sel]
               = [question |-> t.question, selected |-> sel, model |-> t.model]
    BY DEF Screens

\* The top screen with something else selected.
LEMMA WithTopFacts ==
    ASSUME IInv,
           NEW sel, sel \subseteq Options[Len(stack)],
           NEW m \in Seq(AllOptions),
           Len(stack) \in Multiple => Range(m) = sel,
           NEW s, s = WithTop([question |-> Len(stack), selected |-> sel, model |-> m])
    PROVE  /\ Ordered(s) /\ Faithful(s) /\ Len(s) = Len(stack)
           /\ Recorded(s, Len(s) - 1)
           /\ s[Len(s)].selected = sel
<1> DEFINE n == Len(stack)
           screen == [question |-> n, selected |-> sel, model |-> m]
<1>1. stack \in Seq(Screens) /\ stack # <<>> /\ n \in 1..N
    BY TopFacts DEF IInv, Ordered
<1>2. screen \in Screens
    BY <1>1, TopFacts DEF Screens
<1>3. s = [stack EXCEPT ![n] = screen]
    BY DEF WithTop
<1>4. /\ s \in Seq(Screens) /\ Len(s) = n /\ s # <<>>
      /\ s[n] = screen
      /\ \A k \in 1..(n - 1) : s[k] = stack[k]
    BY <1>1, <1>2, <1>3
<1>5. ASSUME NEW k \in 1..n PROVE k = n \/ k \in 1..(n - 1)
    BY <1>1
<1>6. Ordered(s)
    BY <1>1, <1>4, <1>5 DEF IInv, Ordered
<1>7. Faithful(s)
    <2> SUFFICES ASSUME NEW k \in 1..n
                 PROVE  /\ s[k].selected \subseteq Options[k]
                        /\ k \in Multiple => Range(s[k].model) = s[k].selected
        BY <1>4 DEF Faithful
    <2>1. CASE k = n
        BY <2>1, <1>4
    <2>2. CASE k # n
        BY <2>2, <1>4, <1>5 DEF IInv, Faithful
    <2> QED
        BY <2>1, <2>2
<1>8. Recorded(s, n - 1)
    BY <1>4 DEF IInv, Recorded
<1> QED
    BY <1>4, <1>6, <1>7, <1>8

LEMMA SingleStep ==
    ASSUME IInv, NEW option, SelectSingle(option)
    PROVE  IInv'
<1> DEFINE n == Len(stack)
           s == WithTop([question |-> n, selected |-> {option}, model |-> Top.model])
<1>1. /\ Top \in Screens /\ Top.question = n /\ n \notin Multiple
      /\ {option} \subseteq Options[n] /\ Options[n] \subseteq AllOptions
    BY TopFacts DEF SelectSingle
<1>2. [Top EXCEPT !.selected = {option}]
          = [question |-> n, selected |-> {option}, model |-> Top.model]
    BY <1>1, ChangedScreen
<1>3. Top.model \in Seq(AllOptions)
    BY <1>1 DEF Screens
<1>4. /\ Ordered(s) /\ Faithful(s) /\ Len(s) = n /\ Recorded(s, Len(s) - 1)
      /\ s[Len(s)].selected = {option}
    <2>1. ASSUME NEW t, t = s
          PROVE  /\ Ordered(t) /\ Faithful(t) /\ Len(t) = n /\ Recorded(t, Len(t) - 1)
                 /\ t[Len(t)].selected = {option}
        <3> HIDE DEF s
        <3>1. t = WithTop([question |-> Len(stack), selected |-> {option},
                           model |-> Top.model])
            BY <2>1 DEF s
        <3>2. {option} \subseteq Options[Len(stack)] /\ ~(Len(stack) \in Multiple)
            BY <1>1
        <3> QED
            BY <1>3, <3>1, <3>2, WithTopFacts
    <2> QED
        BY <2>1
<1>5. <<option>> \in Seq(AllOptions) /\ <<option>> # <<>> /\ Range(<<option>>) = {option}
    BY <1>1 DEF Range
<1>6. AnswerCallback(Len(s), <<option>>, s) /\ Answerable
    BY <1>1, <1>2, <1>4 DEF SelectSingle
<1> HIDE DEF s
<1> QED
    BY <1>4, <1>5, <1>6, AnswerStep

\* The screens change and nothing else does.
LEMMA UpdateStep ==
    ASSUME IInv, Answerable, Len(stack) \in Multiple,
           NEW sel, sel \subseteq Options[Len(stack)], Update(sel)
    PROVE  IInv'
<1> DEFINE n == Len(stack)
<1>1. /\ Top \in Screens /\ Top.question = n
      /\ Options[n] \subseteq AllOptions /\ IsFiniteSet(Options[n])
    BY TopFacts
<1>2. PICK m \in SelectedOptions(sel) :
          stack' = WithTop([question |-> n, selected |-> sel, model |-> m])
    BY <1>1 DEF Update
<1>3. UNCHANGED <<answers, results, crashed>>
    BY DEF Update
<1>4. m \in Seq(AllOptions) /\ Range(m) = sel
    <2>1. Cardinality(sel) \in Nat
        BY <1>1, FS_Subset, FS_CardinalityType
    <2>2. m \in [1..Cardinality(sel) -> sel] /\ Range(m) = sel
        BY DEF SelectedOptions
    <2>3. m \in [1..Cardinality(sel) -> AllOptions]
        BY <2>2, <1>1
    <2> QED
        BY <2>1, <2>2, <2>3
<1>5. /\ Ordered(stack') /\ Faithful(stack') /\ Len(stack') = n
      /\ Recorded(stack', Len(stack') - 1)
    BY <1>2, <1>4, WithTopFacts
<1>6. Recorded(stack, Len(stack) - 1)'
    BY <1>3, <1>5 DEF Recorded
<1>7. results' = NoResults
    BY <1>3 DEF Answerable
<1>8. TypeOK'
    BY <1>3, <1>5, <1>7 DEF IInv, TypeOK, Ordered
<1> QED
    BY <1>3, <1>5, <1>6, <1>7, <1>8 DEF IInv, NoEmptyAnswers, ResultsMatchScreens

LEMMA SubmitStep ==
    ASSUME IInv, Submit
    PROVE  IInv'
<1> DEFINE n == Len(stack)
<1>1. /\ Top \in Screens /\ Top.question = n /\ n \in Multiple /\ n \in 1..n
      /\ Len(Top.model) > 0 /\ Answerable
      /\ AnswerCallback(n, Top.model, stack)
    BY TopFacts DEF Submit, ButtonIsEnabled
<1>2. Top.model \in Seq(AllOptions) /\ Top.model # <<>>
    BY <1>1 DEF Screens
<1>3. Range(Top.model) = stack[n].selected
    BY <1>1 DEF IInv, Faithful, Top
<1>4. Ordered(stack) /\ Faithful(stack) /\ Recorded(stack, n - 1)
    BY DEF IInv
<1> QED
    BY <1>1, <1>2, <1>3, <1>4, AnswerStep

LEMMA BackStep ==
    ASSUME IInv, Back
    PROVE  IInv'
<1> DEFINE n == Len(stack)
<1>1. stack \in Seq(Screens) /\ n \in 1..N
    BY TopFacts DEF IInv, Ordered
<1>2. CASE results # NoResults
    <2>1. results' = NoResults /\ UNCHANGED <<stack, answers, crashed>>
        BY <1>2 DEF Back
    <2> QED
        BY <2>1 DEF IInv, TypeOK, Ordered, Faithful, Recorded, NoEmptyAnswers,
                    ResultsMatchScreens
<1>3. CASE results = NoResults
    <2>1. /\ n > 1 /\ stack' = SubSeq(stack, 1, n - 1)
          /\ UNCHANGED <<answers, results, crashed>>
        BY <1>3 DEF Back
    <2>2. /\ stack' \in Seq(Screens) /\ Len(stack') = n - 1 /\ stack' # <<>>
          /\ \A k \in 1..(n - 1) : stack'[k] = stack[k]
        <3>1. n - 1 \in Int /\ 1 \in Int /\ n - 1 >= 1
            BY <2>1, <1>1
        <3>2. \A k \in 1..(n - 1) : stack[k] \in Screens
            BY <1>1
        <3> DEFINE s == SubSeq(stack, 1, n - 1)
        <3>3. /\ s \in Seq(Screens)
              /\ Len(s) = IF 1 <= n - 1 THEN n - 1 - 1 + 1 ELSE 0
              /\ \A k \in 1..(n - 1 - 1 + 1) : s[k] = stack[1 + k - 1]
            BY <3>1, <3>2, SubSeqProperties
        <3>4. n \in Nat
            BY <1>1, NAssumption
        <3>5. Len(s) = n - 1
            BY <3>1, <3>3, <3>4
        <3>6. ASSUME NEW k \in 1..(n - 1) PROVE s[k] = stack[k]
            <4>1. k \in 1..(n - 1 - 1 + 1) /\ 1 + k - 1 = k
                BY <3>4
            <4> QED
                BY <4>1, <3>3
        <3>7. stack' = s
            BY <2>1
        <3> HIDE DEF s
        <3>8. s # <<>>
            BY <3>1, <3>5
        <3> HIDE DEF s
        <3> QED
            BY <3>3, <3>5, <3>6, <3>7, <3>8
    <2>3. Ordered(stack')
        BY <2>2, <1>1, NAssumption DEF IInv, Ordered
    <2>4. Faithful(stack')
        BY <2>2, <1>1 DEF IInv, Faithful
    <2>5. Recorded(stack, Len(stack) - 1)'
        BY <2>1, <2>2, <1>1 DEF IInv, Recorded
    <2>6. TypeOK'
        BY <2>1, <2>2 DEF IInv, TypeOK
    <2> QED
        BY <1>3, <2>1, <2>3, <2>4, <2>5, <2>6 DEF IInv, NoEmptyAnswers, ResultsMatchScreens
<1> QED
    BY <1>2, <1>3

LEMMA Inductive == IInv /\ [Next]_vars => IInv'
<1> SUFFICES ASSUME IInv, [Next]_vars PROVE IInv'
    OBVIOUS
<1>1. ASSUME NEW option, SelectSingle(option) PROVE IInv'
    BY <1>1, SingleStep
<1>2. ASSUME NEW option, SelectMultiple(option) PROVE IInv'
    <2>1. /\ Answerable /\ Len(stack) \in Multiple
          /\ Top.selected \cup {option} \subseteq Options[Len(stack)]
          /\ Update(Top.selected \cup {option})
        BY <1>2, TopFacts DEF SelectMultiple
    <2> QED
        BY <2>1, UpdateStep
<1>3. ASSUME NEW option, DidDeselect(option) PROVE IInv'
    <2>1. /\ Answerable /\ Len(stack) \in Multiple
          /\ Top.selected \ {option} \subseteq Options[Len(stack)]
          /\ Update(Top.selected \ {option})
        BY <1>3, TopFacts DEF DidDeselect
    <2> QED
        BY <2>1, UpdateStep
<1>4. CASE Submit
    BY <1>4, SubmitStep
<1>5. CASE Back
    BY <1>5, BackStep
<1>6. CASE UNCHANGED vars
    BY <1>6 DEF vars, IInv, TypeOK, Ordered, Faithful, Recorded, NoEmptyAnswers,
                ResultsMatchScreens
<1> QED
    BY <1>1, <1>2, <1>3, <1>4, <1>5, <1>6 DEF Next

LEMMA Invariance == Spec => []IInv
    BY Initially, Inductive, PTL DEF Spec
------------------------------------------------------------------------------
\* However the player goes back and forth, the screens are the questions in
\* their order, and the results come after the last of them.
THEOREM InOrder == Spec => []ScreensInOrder
<1>1. IInv => ScreensInOrder
    BY DEF IInv, Ordered, ScreensInOrder
<1> QED
    BY <1>1, Invariance, PTL

\* The presenter never misses an answer: its fatalError is out of reach.
THEOREM Complete == Spec => []AnswersComplete
<1>1. IInv => AnswersComplete
    BY DEF IInv, AnswersComplete
<1> QED
    BY <1>1, Invariance, PTL

\* No question is answered with an empty selection.
THEOREM NotEmpty == Spec => []NoEmptyAnswers
<1>1. IInv => NoEmptyAnswers
    BY DEF IInv
<1> QED
    BY <1>1, Invariance, PTL

\* What the results show of a question is what is selected on its screen.
THEOREM MatchScreens == Spec => []ResultsMatchScreens
<1>1. IInv => ResultsMatchScreens
    BY DEF IInv
<1> QED
    BY <1>1, Invariance, PTL
==============================================================================
