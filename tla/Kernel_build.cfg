\* The shipped build: three root shells, no preemption.
CONSTANTS
    MAX_PROCESSES = 6
    NUM_TERMINALS = 3
    OPS_SIZE = 3
    PREEMPT = FALSE
    Names <- MCNames
    DENTRIES <- MCDentries
    INODE <- MCInode
    KB4 = 2
    MAX_DBLOCKS_PER_FILE = 3
    WIDTH = 5
    PT_0_4 = 4198400
    Commands <- MCShellOnly
    GetargsSizes = {}
    VidmapPtrs <- MCVidmapPtrs
    ReadSizes = {1, 2, 31}
SPECIFICATION Spec
INVARIANT TypeOK
INVARIANT QueueHoldsLivePids
INVARIANT SyscallPcbIsCaller
INVARIANT RunningIsFront
INVARIANT ContextOfRunning
INVARIANT TerminalOwnership
INVARIANT ReadDataCopiesFile
\* A halted kernel (fault # "none") has no successor: idt_handler spins.
CHECK_DEADLOCK FALSE
PROPERTY ImplementsScheduler
