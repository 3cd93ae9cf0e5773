--------------------------------- MODULE Quiz ---------------------------------
(***************************************************************************)
(* The quiz: a navigation controller with a screen for every question that *)
(* has been asked and, when the last one is answered, the results.  The    *)
(* engine (QuizEngine, a framework outside the repository) keeps one       *)
(* answer per question and asks the router for the next screen.            *)
(*                                                                         *)
(* The player may go back to any question, choose otherwise and answer it  *)
(* again: the engine's callback of that question fires a second time.      *)
(***************************************************************************)
EXTENDS Integers, Sequences, FiniteSets, Functions

CONSTANTS
    N,              \* how many questions there are; they are 1..N
    Multiple,       \* those that allow several options
    Options,        \* the options of a question
    CorrectAnswer   \* the options that are right, in the order they are given

ASSUME NAssumption == N \in Nat \ {0}
ASSUME QuestionAssumption ==
    /\ Multiple \subseteq 1..N
    /\ \A i \in 1..N : IsFiniteSet(Options[i]) /\ CorrectAnswer[i] \in Seq(Options[i])

VARIABLES
    stack,          \* the questions' screens, the last one on top
    answers,        \* the engine's answers, of the questions answered so far
    results,        \* the rows of the results screen, if it is on top of all
    crashed         \* the process ended for want of an answer

vars == <<stack, answers, results, crashed>>

AllOptions == UNION {Options[i] : i \in 1..N}

\* A screen: its question, the rows that are selected, and what the Submit
\* button would send.
Screens == [question : 1..N, selected : SUBSET AllOptions, model : Seq(AllOptions)]

Rows == [answer : Seq(AllOptions), wrongAnswer : Seq(AllOptions)]

\* The results screen is not shown.
NoResults == <<>>

TypeOK ==
    /\ stack # <<>> /\ stack \in Seq(Screens)
    /\ DOMAIN answers \subseteq 1..N
    /\ answers \in [DOMAIN answers -> Seq(AllOptions)]
    /\ results = NoResults \/ results \in [1..N -> Rows]
    /\ crashed \in BOOLEAN

Asked(i) == [question |-> i, selected |-> {}, model |-> <<>>]

Init ==
    /\ stack = <<Asked(1)>>
    /\ answers = <<>>
    /\ results = NoResults
    /\ crashed = FALSE
------------------------------------------------------------------------------
(* The results. *)

\* A question's row; an empty wrongAnswer is none.  Options in another order
\* than the right answer's are wrong.
PresentableAnswer(i, answer) ==
    [answer |-> CorrectAnswer[i],
     wrongAnswer |-> IF answer = CorrectAnswer[i] THEN <<>> ELSE answer]
------------------------------------------------------------------------------
(* The router. *)

\* Mutant: the next question's screen takes the place of all the others.
RouteToQuestionAnew(i, screens) ==
    /\ stack' = <<Asked(i)>>
    /\ UNCHANGED <<results, crashed>>

\* routeTo(question:answerCallback:): a new screen is pushed.
RouteToQuestion(i, screens) ==
    /\ stack' = Append(screens, Asked(i))
    /\ UNCHANGED <<results, crashed>>

\* routeTo(result:): the rows of the results screen are put together, every
\* question's answer being looked up.
RouteToResult(all, screens) ==
    /\ stack' = screens
    /\ IF DOMAIN all = 1..N
       THEN /\ results' = [i \in 1..N |-> PresentableAnswer(i, all[i])]
            /\ UNCHANGED crashed
       ELSE crashed' = TRUE /\ UNCHANGED results
------------------------------------------------------------------------------
(* The engine. *)

WithAnswer(i, answer) ==
    [j \in DOMAIN answers \cup {i} |-> IF j = i THEN answer ELSE answers[j]]

\* Mutant: the results are asked for before the answer is stored.
AnswerCallbackLate(i, answer, screens) ==
    /\ answers' = WithAnswer(i, answer)
    /\ IF i < N THEN RouteToQuestion(i + 1, screens) ELSE RouteToResult(answers, screens)

\* Question i, whose screen is on top of screens, is answered: the engine
\* stores the answer and asks the router for what comes next.
AnswerCallback(i, answer, screens) ==
    /\ answers' = WithAnswer(i, answer)
    /\ IF i < N THEN RouteToQuestion(i + 1, screens) ELSE RouteToResult(answers', screens)
------------------------------------------------------------------------------
(* A question's screen. *)

Top == stack[Len(stack)]

Answerable == ~crashed /\ results = NoResults

WithTop(screen) == [stack EXCEPT ![Len(stack)] = screen]

\* selectedOptions(in:): the table view promises no order.
SelectedOptions(selected) ==
    {m \in [1..Cardinality(selected) -> selected] : Range(m) = selected}

\* A row of a question with one answer is selected, or selected again.
SelectSingle(option) ==
    /\ Answerable
    /\ Top.question \notin Multiple
    /\ option \in Options[Top.question]
    /\ AnswerCallback(Top.question, <<option>>,
                      WithTop([Top EXCEPT !.selected = {option}]))

\* The Submit button learns what is selected.
Update(selected) ==
    /\ \E m \in SelectedOptions(selected) :
           stack' = WithTop([question |-> Top.question, selected |-> selected, model |-> m])
    /\ UNCHANGED <<answers, results, crashed>>

SelectMultiple(option) ==
    /\ Answerable
    /\ Top.question \in Multiple
    /\ option \in Options[Top.question] \ Top.selected
    /\ Update(Top.selected \cup {option})

\* Mutant: only a selection is passed on.
DidDeselectSilently(option) ==
    /\ Answerable
    /\ Top.question \in Multiple
    /\ option \in Top.selected
    /\ stack' = WithTop([Top EXCEPT !.selected = @ \ {option}])
    /\ UNCHANGED <<answers, results, crashed>>

DidDeselect(option) ==
    /\ Answerable
    /\ Top.question \in Multiple
    /\ option \in Top.selected
    /\ Update(Top.selected \ {option})

ButtonIsEnabled(model) == Len(model) > 0

\* fireCallback of the Submit button.
Submit ==
    /\ Answerable
    /\ Top.question \in Multiple
    /\ ButtonIsEnabled(Top.model)
    /\ AnswerCallback(Top.question, Top.model, stack)
------------------------------------------------------------------------------
\* The back button; the first question has none.
Back ==
    /\ ~crashed
    /\ IF results # NoResults
       THEN results' = NoResults /\ UNCHANGED <<stack, answers, crashed>>
       ELSE /\ Len(stack) > 1
            /\ stack' = SubSeq(stack, 1, Len(stack) - 1)
            /\ UNCHANGED <<answers, results, crashed>>

Next ==
    \/ \E option \in Options[Top.question] :
           SelectSingle(option) \/ SelectMultiple(option) \/ DidDeselect(option)
    \/ Submit
    \/ Back

Spec == Init /\ [][Next]_vars
------------------------------------------------------------------------------
\* The screens are the questions in their order, however often the player goes
\* back and answers again: "Question #i" is the i-th screen, and the results
\* come after the last.
ScreensInOrder ==
    /\ Len(stack) <= N
    /\ \A k \in 1..Len(stack) : stack[k].question = k
    /\ results # NoResults => Len(stack) = N

\* Every question has an answer when the results are put together: the
\* presenter's fatalError is never reached.
AnswersComplete == ~crashed

\* No question is answered with nothing: the Submit button is disabled again
\* when the last option is taken back, also after going back.
NoEmptyAnswers == \A i \in DOMAIN answers : answers[i] # <<>>

\* The results show, for every question, the options that are selected on its
\* screen underneath, also for those changed and answered again.
ResultsMatchScreens ==
    results # NoResults =>
        \A i \in 1..N :
            LET row == results[i]
                given == IF row.wrongAnswer = <<>> THEN row.answer ELSE row.wrongAnswer
            IN  Range(given) = stack[i].selected
==============================================================================
