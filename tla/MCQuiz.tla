-------------------------------- MODULE MCQuiz --------------------------------
EXTENDS Quiz

CONSTANTS a, b, c

\* Two questions with several answers and one with a single answer between.
MCOptions == <<{a, b, c}, {a, b}, {b, c}>>
MCCorrectAnswer == <<<<a, c>>, <<b>>, <<c>>>>
==============================================================================
