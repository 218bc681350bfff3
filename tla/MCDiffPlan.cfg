SPECIFICATION Spec
CONSTANTS
    s1 = s1
    s2 = s2
    Section = {s1, s2}
    Statement = {1, 2, 3, 4}
    Case <- MCCase
    MaxVerdicts = 2
    Floor = 30
    Bar = 75
    Margin = 5
INVARIANTS
    EveryClauseOnce
    VerdictsOutrankRules
    WordingIsOrderFree
    EveryQuestionIsAsked
CHECK_DEADLOCK FALSE
