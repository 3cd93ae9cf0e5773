SPECIFICATION Spec
CONSTANTS
    a = a
    b = b
    c = c
    N = 3
    Multiple = {1, 3}
    Options <- MCOptions
    CorrectAnswer <- MCCorrectAnswer
INVARIANTS
    ScreensInOrder
    AnswersComplete
    ResultsMatchScreens
