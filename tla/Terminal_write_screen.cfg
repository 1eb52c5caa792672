\* Does term_write output reach the writer's own terminal only?
CONSTANTS
    NUM_TERMINALS = 2
    MAX_KB_BUF = 2
    ActiveTerms = {0}
    WRITE_LEN = 2
    ReadSizes = {1, 3}
    Keys <- MCSwitchKeys
SPECIFICATION Spec
INVARIANT WriteReachesOwnScreen
