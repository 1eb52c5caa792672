\* Single-terminal build: the last-process restart path, checked against the abstract scheduler, and getargs against the spec across halts and restarts.
CONSTANTS
    MAX_PROCESSES = 5
    NUM_TERMINALS = 1
    OPS_SIZE = 2
    PREEMPT = FALSE
    Names <- MCNames
    DENTRIES <- MCDentries
    INODE <- MCInode
    KB4 = 2
    MAX_DBLOCKS_PER_FILE = 3
    WIDTH = 5
    PT_0_4 = 4198400
    VidmapPtrs = {}
    Commands <- MCCommands
    GetargsSizes <- MCGetargsSizes
    ReadSizes = {3}
SPECIFICATION Spec
INVARIANT QueueHoldsLivePids
INVARIANT GetargsReturnsCallersArgument
PROPERTY ImplementsScheduler
\* A halted kernel (fault # "none") has no successor: idt_handler spins.
CHECK_DEADLOCK FALSE
