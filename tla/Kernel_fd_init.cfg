\* Build: are fresh descriptor tables cleared?
CONSTANTS
    MAX_PROCESSES = 6
    NUM_TERMINALS = 3
    OPS_SIZE = 3
    PREEMPT = FALSE
    Names <- MCNames
    DENTRIES <- MCDentries
    INODE <- MCInode
    KB4 = 2
    MAX_DBLOCKS_PER_FILE = 3
    WIDTH = 5
    PT_0_4 = 4198400
    Commands <- MCShellOnly
    GetargsSizes = {}
    VidmapPtrs = {}
    ReadSizes = {1, 2}
SPECIFICATION Spec
INVARIANT FdEntriesWellFormed
CHECK_DEADLOCK FALSE
