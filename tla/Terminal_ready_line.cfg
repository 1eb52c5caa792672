\* Does a set ready flag mean the buffer holds a line?
CONSTANTS
    NUM_TERMINALS = 2
    MAX_KB_BUF = 2
    ActiveTerms = {0}
    WRITE_LEN = 2
    ReadSizes = {1, 3}
    Keys <- MCTypeKeys
SPECIFICATION Spec
INVARIANT ReadyMeansLine
