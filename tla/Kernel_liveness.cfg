\* Build: does every live process eventually run?
CONSTANTS
    MAX_PROCESSES = 4
    NUM_TERMINALS = 3
    OPS_SIZE = 2
    PREEMPT = FALSE
    Names <- MCNames
    DENTRIES <- MCDentries
    INODE <- MCInode
    KB4 = 2
    MAX_DBLOCKS_PER_FILE = 3
    WIDTH = 5
    PT_0_4 = 4198400
    Commands <- MCShellOnly
    GetargsSizes = {}
    VidmapPtrs = {}
    ReadSizes = {1, 2}
SPECIFICATION Spec
PROPERTY EveryLiveProcessRuns
CHECK_DEADLOCK FALSE
