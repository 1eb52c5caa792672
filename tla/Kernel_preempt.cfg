\* Scheduler call restored: each tick is a round-robin rotation.
CONSTANTS
    MAX_PROCESSES = 5
    NUM_TERMINALS = 3
    OPS_SIZE = 2
    PREEMPT = TRUE
    Names <- MCNames
    DENTRIES <- MCDentries
    INODE <- MCInode
    KB4 = 2
    MAX_DBLOCKS_PER_FILE = 3
    WIDTH = 5
    PT_0_4 = 4198400
    Commands <- MCShellOnly
    GetargsSizes = {}
    VidmapPtrs = {}
    ReadSizes = {1, 2}
SPECIFICATION Spec
PROPERTY TickRotates
CHECK_DEADLOCK FALSE
