CONSTANTS
    Creators = {1}
    Others = {2}
    Pairs = 2
    MaxKills = 0
SPECIFICATION Spec
INVARIANT LettersAsReported
CHECK_DEADLOCK FALSE
