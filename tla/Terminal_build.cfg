\* Keyboard and terminal, two terminals, every scancode, 2-byte buffers.
CONSTANTS
    NUM_TERMINALS = 2
    MAX_KB_BUF = 2
    ActiveTerms = {0}
    WRITE_LEN = 2
    ReadSizes = {1, 3}
    Keys <- MCAllKeys
SPECIFICATION Spec
INVARIANT TypeOK
INVARIANT NoKeyboardOverflow
