------------------------------- MODULE Rtc -------------------------------
(***************************************************************************)
(* The RTC driver (rtc.c) and its interrupt (idt.c rtc_handler), used by  *)
(* the chain of processes the build runs on terminal 0: each execute runs  *)
(* a child while its parent waits, halt returns to the parent.  The        *)
(* running process (the last of the chain) opens, writes, reads and closes *)
(* RTC descriptors; the periodic interrupt ends rtc_read's busy-wait.      *)
(*                                                                         *)
(* Register A is kept as the byte the driver reads and writes: bits 4..6   *)
(* select the divider, bits 0..3 the periodic rate.  A rate of 0 turns the *)
(* periodic interrupt off.  Register B bit 6 (PIE) enables it; rtc_init   *)
(* sets that bit at boot.  Reading register C in the handler re-arms the   *)
(* interrupt every time, so it is not state here.                          *)
(*                                                                         *)
(* IRQ8 reaches the CPU through the cascaded 8259As (module Pic): the      *)
(* handler's request goes in service on the slave and on the master's      *)
(* cascade line, and pic_handler's send_eoi must clear both before the     *)
(* next RTC interrupt can be delivered.                                    *)
(***************************************************************************)
EXTENDS Naturals, Sequences, Bitwise

CONSTANTS
    Bufs,           \* the frequency in the buffer a caller passes to rtc_write
    RegABoot,       \* the values register A may have when the kernel boots
    REG_B_BOOT,     \* register B as the BIOS leaves it
    MAX_DEPTH       \* bound on the length of the process chain

ASSUME /\ Bufs \subseteq Nat
       /\ RegABoot \subseteq 0 .. 255
       /\ REG_B_BOOT \in 0 .. 255
       /\ MAX_DEPTH \in 1 .. 6

MAX_FREQ      == 1024
BITMASK6      == 64
SHIFT_FOR_2HZ == 15

VARIABLES
    reg_a,          \* RTC register A
    reg_b,          \* RTC register B
    booted,         \* kernel initialisation (rtc_init among it) has finished
    RTC_READ,       \* rtc.h: set by rtc_read, cleared by the interrupt
    procs,          \* the process chain: per process, whether it holds an
                    \* open RTC descriptor
    pc,             \* "idle" or "read" (spinning in rtc_read)
    requested,      \* the frequency of the last successful rtc_open/rtc_write
    pic             \* the 8259A registers (Pic)

vars == <<reg_a, reg_b, booted, RTC_READ, procs, pc, requested, pic>>

PIC == INSTANCE Pic
IDT == INSTANCE Idt

(* The descriptor table idt_init loaded before interrupts were enabled.   *)
IdtTable == IDT!IdtInit

IRQ_8 == 8

(* The running process: the newest of the chain.                          *)
Top == Len(procs)

HoldsRtc == procs # <<>> /\ procs[Top]

(* rtc_write's switch from frequency to rate (rtc.c 55-91).               *)
RateTable ==
    [f \in {1024, 512, 256, 128, 64, 32, 16, 8, 4, 2, 0} |->
        CASE f = 1024 -> 6  [] f = 512 -> 7  [] f = 256 -> 8
          [] f = 128  -> 9  [] f = 64  -> 10 [] f = 32  -> 11
          [] f = 16   -> 12 [] f = 8   -> 13 [] f = 4   -> 14
          [] f = 2    -> 15 [] f = 0   -> 0]

Rate == reg_a % 16

(* The RTC raises periodic interrupts: PIE set and a nonzero rate.        *)
Ticking == (reg_b & BITMASK6) # 0 /\ Rate # 0

(* The reference: the periodic frequency a rate selects, 32768 >> (rate-1) *)
(* (the formula in rtc_open's comment); rate 0 gives no interrupt.         *)
FreqOfRate(r) == IF r = 0 THEN 0 ELSE 32768 \div 2^(r - 1)

(* Mutant of the register A update: the new rate ORed into the old value *)
(* without masking the old rate bits out.                                 *)
SetRateMerge(r) == reg_a' = reg_a | r

(* The read-modify-write of register A under cli (rtc.c 95-105, 136-144). *)
SetRate(r) == reg_a' = (reg_a & BITMASK6) | r

(* rtc_write: freq is *buf (write() refuses a NULL buf, so the path that  *)
(* leaves freq uninitialised is not reached from a system call).  Above   *)
(* MAX_FREQ or not in the table it returns -1 and changes nothing.        *)
RtcWrite(freq) ==
    /\ pc = "idle"
    /\ HoldsRtc
    /\ freq <= MAX_FREQ
    /\ freq \in DOMAIN RateTable
    /\ SetRate(RateTable[freq])
    /\ requested' = freq
    /\ UNCHANGED <<reg_b, booted, RTC_READ, procs, pc, pic>>

(* open("rtc") with a free descriptor: the entry gets the RTC's fops and  *)
(* open calls rtc_open, which sets rate 15 (2 Hz).                        *)
RtcOpen ==
    /\ pc = "idle"
    /\ procs # <<>>
    /\ SetRate(SHIFT_FOR_2HZ)
    /\ requested' = 2
    /\ procs' = [procs EXCEPT ![Top] = TRUE]
    /\ UNCHANGED <<reg_b, booted, RTC_READ, pc, pic>>

(* close of the RTC descriptor: rtc_close returns 0 and the entry is     *)
(* cleared; the RTC keeps its rate.                                       *)
RtcClose ==
    /\ pc = "idle"
    /\ HoldsRtc
    /\ procs' = [procs EXCEPT ![Top] = FALSE]
    /\ UNCHANGED <<reg_a, reg_b, booted, RTC_READ, pc, requested, pic>>

(* rtc_read, first half: RTC_READ = 1, then spin.                         *)
RtcRead ==
    /\ pc = "idle"
    /\ HoldsRtc
    /\ RTC_READ' = 1
    /\ pc' = "read"
    /\ UNCHANGED <<reg_a, reg_b, booted, procs, requested, pic>>

(* rtc_read, second half: the spin sees RTC_READ = 0 and returns 0.       *)
RtcReadReturn ==
    /\ pc = "read"
    /\ RTC_READ = 0
    /\ pc' = "idle"
    /\ UNCHANGED <<reg_a, reg_b, booted, RTC_READ, procs, requested, pic>>

(* pic_handler around a device handler, as it leaves the PICs: the CPU    *)
(* acknowledged the request, then send_eoi(int_num) (int_num is the IRQ   *)
(* line, 0 .. 15).                                                         *)
PicHandler(irq) == PIC!SendEoi(PIC!Acknowledge(pic, irq), irq)

(* Mutant of rtc_handler: acknowledges the RTC but does not clear the    *)
(* flag rtc_read spins on.                                                *)
RtcInterruptNoClear ==
    /\ Ticking
    /\ PIC!Deliverable(pic, IRQ_8)
    /\ IDT!Dispatches(IdtTable, PIC!VectorOf(IRQ_8), IRQ_8)
    /\ pic' = PicHandler(IRQ_8)
    /\ UNCHANGED <<reg_a, reg_b, booted, RTC_READ, procs, pc, requested>>

(* IRQ8 through pic_handler: the request is raised only with PIE set and a *)
(* nonzero rate, and reaches the CPU only when the PICs deliver it; the    *)
(* CPU enters handler_irq8 through the gate at the slave's vector 40.  It *)
(* acknowledges it, pic_handler (interrupts off) calls rtc_handler ->  *)
(* clear_rtc_read and reads register C, then send_eoi(8).                  *)
(* clear_rtc_read's frequency-stepping branch needs rtc_count in          *)
(* {10, 30, ...}, but rtc_count is only ever set to 0, so it never runs.   *)
RtcInterrupt ==
    /\ Ticking
    /\ PIC!Deliverable(pic, IRQ_8)
    /\ IDT!Dispatches(IdtTable, PIC!VectorOf(IRQ_8), IRQ_8)
    /\ RTC_READ' = 0
    /\ pic' = PicHandler(IRQ_8)
    /\ UNCHANGED <<reg_a, reg_b, booted, procs, pc, requested>>

(* Mutant of execute: the process-count test off by one.                 *)
ExecuteOffByOne ==
    /\ booted
    /\ pc = "idle"
    /\ Len(procs) <= MAX_DEPTH
    /\ procs' = Append(procs, FALSE)
    /\ UNCHANGED <<reg_a, reg_b, booted, RTC_READ, pc, requested, pic>>

(* execute of a program by the running process (or of the first shell at  *)
(* boot): the child starts with no RTC descriptor; halt closes nothing,   *)
(* so the RTC keeps whatever rate the chain last set.                     *)
Execute ==
    /\ booted
    /\ pc = "idle"
    /\ Len(procs) < MAX_DEPTH
    /\ procs' = Append(procs, FALSE)
    /\ UNCHANGED <<reg_a, reg_b, booted, RTC_READ, pc, requested, pic>>

Halt ==
    /\ pc = "idle"
    /\ Len(procs) > 1
    /\ procs' = SubSeq(procs, 1, Len(procs) - 1)
    /\ UNCHANGED <<reg_a, reg_b, booted, RTC_READ, pc, requested, pic>>

(* rtc_init: set PIE in register B; register A keeps the BIOS value.  The *)
(* kernel calls it once during initialisation, before any process runs.  *)
RtcInit ==
    /\ ~booted
    /\ reg_b' = reg_b | BITMASK6
    /\ booted' = TRUE
    /\ UNCHANGED <<reg_a, RTC_READ, procs, pc, requested, pic>>

(* Power-on: registers as the BIOS left them; the frequency in force is   *)
(* the one the boot rate selects.  The PICs are as kernel initialisation  *)
(* leaves them before interrupts are enabled: i8259_init, then pit_init's *)
(* enable_irq(0) and keyboard_init's enable_irq(1) (in whichever order    *)
(* kernel.c calls them, the result is the same).                          *)
Init ==
    /\ reg_a \in RegABoot
    /\ reg_b = REG_B_BOOT
    /\ booted = FALSE
    /\ RTC_READ = 0
    /\ procs = <<>>
    /\ pc = "idle"
    /\ requested = FreqOfRate(reg_a % 16)
    /\ pic = PIC!EnableIrq(PIC!PitInit(PIC!I8259Init), 1)

Next ==
    \/ RtcInit
    \/ Execute
    \/ Halt
    \/ RtcOpen
    \/ \E freq \in Bufs : RtcWrite(freq)
    \/ RtcClose
    \/ RtcRead
    \/ RtcReadReturn
    \/ RtcInterrupt

(* The RTC interrupts periodically while it is ticking, and the spinning  *)
(* process is the one on the CPU, so it sees the cleared flag.            *)
Spec == Init /\ [][Next]_vars /\ WF_vars(RtcInterrupt) /\ WF_vars(RtcReadReturn)

-----------------------------------------------------------------------------

TypeOK ==
    /\ reg_a \in 0 .. 255
    /\ reg_b \in 0 .. 255
    /\ booted \in BOOLEAN
    /\ RTC_READ \in {0, 1}
    /\ procs \in Seq(BOOLEAN) /\ Len(procs) <= MAX_DEPTH
    /\ pc \in {"idle", "read"}
    /\ requested \in 0 .. 32768
    /\ pic \in PIC!PicState

(* After every successful rtc_open or rtc_write the periodic rate in      *)
(* register A produces exactly the frequency asked for: rtc_write's rate  *)
(* table agrees with the datasheet formula, and the read-modify-write     *)
(* replaces the old rate bits instead of merging with them.               *)
WrittenFreqTakesEffect == FreqOfRate(Rate) = requested

(* A process in rtc_read returns while the RTC is ticking: IRQ8 keeps      *)
(* being delivered (every handler's send_eoi clears what its request put  *)
(* in service, on the slave and on the master's cascade line), the handler*)
(* clears the flag that rtc_read set and spins on, and nothing else sets  *)
(* it again before the reader sees it.                                    *)
ReadReturnsWhileTicking == [](pc = "read" /\ Ticking => <>(pc = "idle"))

=============================================================================
