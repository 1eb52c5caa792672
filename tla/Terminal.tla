------------------------------ MODULE Terminal ------------------------------
(***************************************************************************)
(* The keyboard and terminal driver (keyboard.c, terminal.c): per-terminal *)
(* line buffers filled by keyboard_handler (IRQ1) for the DISPLAYED        *)
(* terminal, the modifier flags, terminal switching with Alt+F1..F3, and   *)
(* the two system-call paths of the running process: term_read, which     *)
(* busy-waits on a ready flag, and term_write, which prints byte by byte.  *)
(*                                                                         *)
(* The system-call vector is an interrupt gate (idt_set_vector), yet       *)
(* term_read's spin ends only when a keyboard interrupt sets the ready     *)
(* flag, so the entry stub (handler.S, not in the tree) must enable them:  *)
(* keyboard interrupts arrive while term_read spins and between the bytes  *)
(* of term_write.  The                                                     *)
(* handler itself runs with interrupts off (pic_handler: cli_and_save)     *)
(* and is one step per scancode; its do-while over the controller's       *)
(* buffer is a sequence of such steps.                                     *)
(*                                                                         *)
(* Data is abstracted: a buffer holds "c" (a printable byte) or "nl"; the  *)
(* screens hold no characters, only whether they show bytes written by a  *)
(* process of another terminal.  Caps and shift only choose the byte value *)
(* of a key, which is never 0 for the keys modelled, so they are left out. *)
(* The cursor column is not modelled: backspace may or may not find       *)
(* screen_x > 0 (process output moves the cursor at any time).            *)
(***************************************************************************)
EXTENDS Naturals, Sequences, FiniteSets

CONSTANTS
    NUM_TERMINALS,  \* keyboard.h (3): the F1..F3 branches assume it
    MAX_KB_BUF,     \* keyboard.h: bytes per line buffer (128 in the build)
    ActiveTerms,    \* terminals whose process can be on the CPU
    WRITE_LEN,      \* nbytes of a term_write
    ReadSizes,      \* nbytes values of a term_read
    Keys            \* scancodes the user may type (a subset of AllKeys)

Terms == 0 .. NUM_TERMINALS - 1

(* Scancodes, by their keyboard.h names; "c" is any printable key and     *)
(* "l" is L (0x26), which is printable too but clears the screen with     *)
(* Ctrl.  F-keys have key_press value 0.                                  *)
FName   == <<"F1", "F2", "F3">>
FKeys   == {FName[t + 1] : t \in Terms}
AllKeys == {"ctrl_make", "ctrl_break", "alt_make", "alt_break",
            "backspace", "enter", "c", "l"} \cup FKeys

ASSUME /\ NUM_TERMINALS \in 1 .. 3
       /\ MAX_KB_BUF \in Nat /\ MAX_KB_BUF >= 2
       /\ ActiveTerms \subseteq Terms /\ ActiveTerms # {}
       /\ WRITE_LEN \in Nat \ {0}
       /\ ReadSizes \subseteq Nat \ {0}
       /\ Keys \subseteq AllKeys

NoRead == [from |-> 0, caller |-> 0, data |-> <<>>, ret |-> 0]

VARIABLES
    ctrl_on, alt_on,     \* keyboard.c modifier flags
    alt_held,            \* history: is Alt physically down?
    ready_to_read,       \* per terminal: ENTER was pressed
    kb_buf,              \* per terminal: kb_buf[t][0 .. kb_buf_index[t]-1]
    kb_overflow,         \* a byte was stored at kb_buf[t][MAX_KB_BUF]
    display_terminal,    \* terminal shown in video memory
    video_foreign,       \* video memory shows another terminal's output
    backing_foreign,     \* per terminal: its backing page does
    output_lost,         \* a byte went to the backing page of the
                         \* terminal being displayed (overwritten later)
    proc_term,           \* pq_get_active_term(): the running process's
    pc,                  \* "idle", "read" (spinning) or "write"
    nbytes,              \* argument of the call in progress
    to_screen,           \* term_write's branch, taken once at its start
    returned             \* history: the last completed term_read

vars == <<ctrl_on, alt_on, alt_held, ready_to_read, kb_buf, kb_overflow,
          display_terminal, video_foreign, backing_foreign, output_lost,
          proc_term, pc, nbytes, to_screen, returned>>

procVars == <<proc_term, pc, nbytes, to_screen, returned>>

-----------------------------------------------------------------------------
(* clear_keyboard_buf: every terminal's index and ready flag.             *)
ClearKeyboardBuf ==
    /\ ready_to_read' = [t \in Terms |-> FALSE]
    /\ kb_buf'        = [t \in Terms |-> <<>>]

(* change_display_term(next): save video memory to the current terminal's *)
(* backing page, load next's backing page, set display_terminal.          *)
ChangeDisplayTerm(next) ==
    LET saved == [backing_foreign EXCEPT ![display_terminal] = video_foreign]
    IN  /\ backing_foreign'  = saved
        /\ video_foreign'    = saved[next]
        /\ display_terminal' = next

(* The F-key a terminal switch needs; F1..F3 are hard-coded to 0..2.     *)
FTarget(k) == CHOOSE t \in Terms : FName[t + 1] = k

(* Store byte b at kb_buf[t][kb_buf_index[t]] and increment the index;   *)
(* an index of MAX_KB_BUF writes past the row.                            *)
StoreByte(buf, t, b) ==
    IF Len(buf[t]) >= MAX_KB_BUF THEN buf
    ELSE [buf EXCEPT ![t] = Append(@, b)]

Overflows(buf, t) == Len(buf[t]) >= MAX_KB_BUF

-----------------------------------------------------------------------------
(* keyboard_handler, one scancode k.  `buf` is kb_buf after the reset at  *)
(* the top of the loop: an index equal to MAX_KB_BUF restarts at 0.      *)
(* The printable-key branch: Alt+F switches terminals (and the rest of   *)
(* the branch uses the NEW display_terminal), Ctrl+L clears the screen    *)
(* and returns, a full buffer (index MAX_KB_BUF-1) returns, otherwise a  *)
(* non-zero key value is stored and echoed.                               *)
PrintableKey(k, buf) ==
    LET switch == alt_on /\ k \in FKeys
        d      == IF switch THEN FTarget(k) ELSE display_terminal
    IN  /\ IF switch THEN ChangeDisplayTerm(d)
                     ELSE UNCHANGED <<backing_foreign, display_terminal>>
        /\ IF ctrl_on /\ k = "l"
              THEN /\ video_foreign' = FALSE
                   /\ kb_buf' = buf
                   /\ UNCHANGED kb_overflow
           ELSE IF Len(buf[d]) = MAX_KB_BUF - 1 \/ k \in FKeys
              THEN /\ kb_buf' = buf
                   /\ UNCHANGED kb_overflow
                   /\ IF switch THEN TRUE ELSE UNCHANGED video_foreign
           ELSE /\ kb_buf' = StoreByte(buf, d, "c")
                /\ kb_overflow' = (kb_overflow \/ Overflows(buf, d))
                /\ IF switch THEN TRUE ELSE UNCHANGED video_foreign
        /\ UNCHANGED <<ctrl_on, alt_on, alt_held, ready_to_read>>

(* The modifier scancodes.  L_ALT_BREAK clears ctrl_on, not alt_on.      *)
ModifierKey(k, buf) ==
    /\ ctrl_on'  = CASE k = "ctrl_make"  -> TRUE
                     [] k = "ctrl_break" -> FALSE
                     [] k = "alt_break"  -> FALSE
                     [] OTHER            -> ctrl_on
    /\ alt_on'   = IF k = "alt_make" THEN TRUE ELSE alt_on
    /\ alt_held' = CASE k = "alt_make"  -> TRUE
                     [] k = "alt_break" -> FALSE
                     [] OTHER           -> alt_held
    /\ kb_buf' = buf
    /\ UNCHANGED <<ready_to_read, kb_overflow, display_terminal,
                   video_foreign, backing_foreign>>

(* BACKSPACE: only when screen_x > 0 (not modelled, so either way), the   *)
(* index is decremented if positive.                                      *)
Backspace(buf) ==
    LET d == display_terminal
    IN  /\ \/ kb_buf' = IF buf[d] = <<>> THEN buf
                        ELSE [buf EXCEPT ![d] = SubSeq(@, 1, Len(@) - 1)]
           \/ kb_buf' = buf
        /\ UNCHANGED <<ctrl_on, alt_on, alt_held, ready_to_read, kb_overflow,
                       display_terminal, video_foreign, backing_foreign>>

(* ENTER: store '\n' with no full-buffer check and set the ready flag.    *)
Enter(buf) ==
    LET d == display_terminal
    IN  /\ kb_buf' = StoreByte(buf, d, "nl")
        /\ kb_overflow' = (kb_overflow \/ Overflows(buf, d))
        /\ ready_to_read' = [ready_to_read EXCEPT ![d] = TRUE]
        /\ UNCHANGED <<ctrl_on, alt_on, alt_held, display_terminal,
                       video_foreign, backing_foreign>>

ModifierKeys == {"ctrl_make", "ctrl_break", "alt_make", "alt_break"}

(* Mutant of keyboard_handler: the reset of a full index at the top of   *)
(* the loop left out.                                                     *)
KeyboardHandlerNoReset(k) ==
    LET buf == kb_buf
    IN  /\ \/ k \in ModifierKeys /\ ModifierKey(k, buf)
           \/ k = "backspace" /\ Backspace(buf)
           \/ k = "enter" /\ Enter(buf)
           \/ k \in {"c", "l"} \cup FKeys /\ PrintableKey(k, buf)
        /\ UNCHANGED <<output_lost, procVars>>

(* keyboard_handler for scancode k.  `buf` is kb_buf after the check at   *)
(* the top of the loop: an index equal to MAX_KB_BUF restarts at 0.      *)
KeyboardHandler(k) ==
    LET d   == display_terminal
        buf == IF Len(kb_buf[d]) = MAX_KB_BUF
               THEN [kb_buf EXCEPT ![d] = <<>>] ELSE kb_buf
    IN  /\ \/ k \in ModifierKeys /\ ModifierKey(k, buf)
           \/ k = "backspace" /\ Backspace(buf)
           \/ k = "enter" /\ Enter(buf)
           \/ k \in {"c", "l"} \cup FKeys /\ PrintableKey(k, buf)
        /\ UNCHANGED <<output_lost, procVars>>

-----------------------------------------------------------------------------
(* term_read(buf, n) entered with a non-NULL buffer: the process spins.   *)
TermReadStart(n) ==
    /\ pc = "idle"
    /\ pc' = "read"
    /\ nbytes' = n
    /\ UNCHANGED <<proc_term, to_screen, returned>>
    /\ UNCHANGED <<ctrl_on, alt_on, alt_held, ready_to_read, kb_buf,
                   kb_overflow, display_terminal, video_foreign,
                   backing_foreign, output_lost>>

(* Mutant of term_read: returns nbytes instead of the count.              *)
TermReadReturnNbytes ==
    LET d   == display_terminal
        idx == Len(kb_buf[d])
    IN  /\ pc = "read"
        /\ ready_to_read[d]
        /\ returned' = [from   |-> d,
                        caller |-> proc_term,
                        data   |-> IF nbytes > idx THEN kb_buf[d]
                                   ELSE SubSeq(kb_buf[d], 1, nbytes),
                        ret    |-> nbytes]
        /\ ClearKeyboardBuf
        /\ pc' = "idle"
        /\ nbytes' = 0
        /\ UNCHANGED <<proc_term, to_screen>>
        /\ UNCHANGED <<ctrl_on, alt_on, alt_held, kb_overflow,
                       display_terminal, video_foreign, backing_foreign,
                       output_lost>>

(* The spin ends when display_terminal's ready flag is set: copy         *)
(* min(n, index) bytes of display_terminal's buffer, return the index if  *)
(* n > index and 0 otherwise, then clear every terminal's buffer.         *)
TermReadReturn ==
    LET d   == display_terminal
        idx == Len(kb_buf[d])
    IN  /\ pc = "read"
        /\ ready_to_read[d]
        /\ returned' = [from   |-> d,
                        caller |-> proc_term,
                        data   |-> IF nbytes > idx THEN kb_buf[d]
                                   ELSE SubSeq(kb_buf[d], 1, nbytes),
                        ret    |-> IF nbytes > idx THEN idx ELSE 0]
        /\ ClearKeyboardBuf
        /\ pc' = "idle"
        /\ nbytes' = 0
        /\ UNCHANGED <<proc_term, to_screen>>
        /\ UNCHANGED <<ctrl_on, alt_on, alt_held, kb_overflow,
                       display_terminal, video_foreign, backing_foreign,
                       output_lost>>

(* term_write: the branch is chosen once, by whether the caller's terminal *)
(* is the one displayed.                                                  *)
TermWriteStart ==
    /\ pc = "idle"
    /\ pc' = "write"
    /\ nbytes' = WRITE_LEN
    /\ to_screen' = (proc_term = display_terminal)
    /\ UNCHANGED <<proc_term, returned>>
    /\ UNCHANGED <<ctrl_on, alt_on, alt_held, ready_to_read, kb_buf,
                   kb_overflow, display_terminal, video_foreign,
                   backing_foreign, output_lost>>

(* One byte of term_write: putc into video memory, or term_putc into the  *)
(* caller's backing page (term_mem[pq_get_active_term()]).  A byte put    *)
(* into the backing page of the displayed terminal is overwritten when   *)
(* the display next switches away.                                       *)
TermWriteByte ==
    /\ pc = "write"
    /\ nbytes > 0
    /\ IF to_screen
          THEN /\ video_foreign' = (video_foreign \/ proc_term # display_terminal)
               /\ UNCHANGED output_lost
          ELSE /\ output_lost' = (output_lost \/ proc_term = display_terminal)
               /\ UNCHANGED video_foreign
    /\ nbytes' = nbytes - 1
    /\ pc' = IF nbytes = 1 THEN "idle" ELSE "write"
    /\ UNCHANGED <<proc_term, to_screen, returned>>
    /\ UNCHANGED <<ctrl_on, alt_on, alt_held, ready_to_read, kb_buf,
                   kb_overflow, display_terminal, backing_foreign>>

-----------------------------------------------------------------------------
(* Boot: globals are zero (display_terminal 0, alt_on 0), keyboard_init   *)
(* clears the buffers; the running process is on one of ActiveTerms.      *)
Init ==
    /\ ctrl_on = FALSE /\ alt_on = FALSE /\ alt_held = FALSE
    /\ ready_to_read = [t \in Terms |-> FALSE]
    /\ kb_buf = [t \in Terms |-> <<>>]
    /\ kb_overflow = FALSE
    /\ display_terminal = 0
    /\ video_foreign = FALSE
    /\ backing_foreign = [t \in Terms |-> FALSE]
    /\ output_lost = FALSE
    /\ proc_term \in ActiveTerms
    /\ pc = "idle" /\ nbytes = 0 /\ to_screen = FALSE
    /\ returned = NoRead

Next ==
    \/ \E k \in Keys : KeyboardHandler(k)
    \/ \E n \in ReadSizes : TermReadStart(n)
    \/ TermReadReturn
    \/ TermWriteStart
    \/ TermWriteByte

(* No fairness: keystrokes come from the user and may stop at any time.  *)
Spec == Init /\ [][Next]_vars

-----------------------------------------------------------------------------
TypeOK ==
    /\ {ctrl_on, alt_on, alt_held, kb_overflow, video_foreign, output_lost,
        to_screen} \subseteq BOOLEAN
    /\ ready_to_read \in [Terms -> BOOLEAN]
    /\ \A t \in Terms : kb_buf[t] \in Seq({"c", "nl"})
                        /\ Len(kb_buf[t]) <= MAX_KB_BUF
    /\ display_terminal \in Terms
    /\ backing_foreign \in [Terms -> BOOLEAN]
    /\ proc_term \in ActiveTerms
    /\ pc \in {"idle", "read", "write"}
    /\ nbytes \in 0 .. WRITE_LEN \cup ReadSizes
    /\ returned.from \in Terms /\ returned.ret \in 0 .. MAX_KB_BUF

(* keyboard_handler never stores past a line buffer: the reset of an     *)
(* index equal to MAX_KB_BUF at the top of the loop and the full-buffer   *)
(* return at MAX_KB_BUF - 1 together keep ENTER (which has no check) and  *)
(* printable keys typed after a terminal switch inside the row.           *)
NoKeyboardOverflow == ~kb_overflow

(* The spec's read_line(terminal_id): the line term_read returns was      *)
(* typed on the calling process's terminal (term_read waits on and reads  *)
(* display_terminal's buffer).                                            *)
ReadGetsCallersLine == returned.from = returned.caller

(* term_read returns the number of bytes it copied (it returns 0 when     *)
(* nbytes <= kb_buf_index).                                               *)
ReadReturnsCount == returned.ret = Len(returned.data)

(* A terminal's ready flag means its buffer holds a complete line: the    *)
(* spec's term_read "returns only once a line is ready".                  *)
ReadyMeansLine ==
    \A t \in Terms :
        ready_to_read[t] => \E i \in 1 .. Len(kb_buf[t]) : kb_buf[t][i] = "nl"

(* A line entered on a terminal is removed only by the term_read that     *)
(* returns it (clear_keyboard_buf clears every terminal).                 *)
InputNotDiscarded ==
    [][\A t \in Terms :
          ready_to_read[t] /\ ~ready_to_read'[t] => returned'.from = t
      ]_vars

(* Output of term_write appears on the writing process's terminal only:   *)
(* no screen or backing page shows another terminal's output and no byte  *)
(* is written where it will be overwritten.                               *)
WriteReachesOwnScreen ==
    /\ ~video_foreign
    /\ ~output_lost
    /\ \A t \in Terms : ~backing_foreign[t]

(* The display changes only while Alt is held down (Alt+F1..F3).         *)
SwitchOnlyWithAlt ==
    [][display_terminal' # display_terminal => alt_held]_vars

====
