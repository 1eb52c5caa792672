SPECIFICATION Spec
CONSTANTS
    Bufs <- MCBufs
    RegABoot <- MCRegABoot
    REG_B_BOOT <- MCRegBBoot
    MAX_DEPTH = 3
INVARIANT TypeOK
INVARIANT WrittenFreqTakesEffect
PROPERTY ReadReturnsWhileTicking
CHECK_DEADLOCK FALSE
