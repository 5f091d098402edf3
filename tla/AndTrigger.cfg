SPECIFICATION Spec
CONSTANTS
    Combinations <- MCCombinations
    MaxTime = 9
PROPERTY AndTriggerAnswers
CHECK_DEADLOCK FALSE
