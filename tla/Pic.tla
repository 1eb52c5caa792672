------------------------------- MODULE Pic -------------------------------
(***************************************************************************)
(* The two cascaded 8259A interrupt controllers as i8259.c drives them,    *)
(* as pure operators over a record of their registers:                      *)
(*   master_imr, slave_imr   the interrupt mask registers (a set bit masks  *)
(*                           the line); i8259.c keeps a copy of each in     *)
(*                           master_mask and slave_mask;                    *)
(*   master_isr, slave_isr   the in-service registers.                      *)
(* Lines 8..15 are the slave's lines 0..7; the slave is wired to master     *)
(* line IRQ_CAS.  ICW4 = 0x01 selects normal (not automatic) EOI and plain  *)
(* fully nested mode, so an in-service bit stays set until an OCW2 clears   *)
(* it, and it blocks its own line and every lower-priority one.            *)
(***************************************************************************)
EXTENDS Naturals, Bitwise

IRQ_SLAVE == 8
IRQ_CAS   == 2
EOI       == 96     \* 0x60: OCW2 "specific EOI", the level in bits 0..2
ICW2_MASTER == 32   \* 0x20: the master's lines raise vectors 0x20 .. 0x27
ICW2_SLAVE  == 40   \* 0x28: the slave's lines raise vectors 0x28 .. 0x2F

Bit(k) == 2^k

(* The bit of a byte for level k is set.                                  *)
IsSet(byte, k) == (byte \div Bit(k)) % 2 = 1

(* i8259_init: ICW1 .. ICW4 to each chip.  ICW1 clears the mask register   *)
(* and no interrupt is in service after initialisation (8259A data sheet). *)
I8259Init ==
    [master_imr |-> 0, slave_imr |-> 0, master_isr |-> 0, slave_isr |-> 0]

(* enable_irq: read the chip's mask register, clear the line's bit, write  *)
(* it back (and keep the result in master_mask or slave_mask).            *)
EnableIrq(p, irq_num) ==
    IF irq_num >= IRQ_SLAVE
    THEN [p EXCEPT !.slave_imr = @ & (255 - Bit(irq_num - IRQ_SLAVE))]
    ELSE [p EXCEPT !.master_imr = @ & (255 - Bit(irq_num))]

(* pit_init(frequency): the divisor 1193180 / frequency goes to PIT       *)
(* channel 0 as a low and a high byte, then enable_irq(0).  Only the mask  *)
(* change is kept: the reload value sets how often IRQ0 fires, and         *)
(* pit_handler's body (the call to change_task) is commented out, so a     *)
(* tick changes nothing whatever its rate.                                 *)
PitInit(p) == EnableIrq(p, 0)

(* An OCW2 written to a chip's command port, as the chip applies it to its *)
(* in-service register: bits 7..5 = 011 is a specific EOI for the level in *)
(* bits 2..0; send_eoi writes no other kind.                               *)
Ocw2(isr, cmd) ==
    IF cmd \div 32 = 3 THEN isr & (255 - Bit(cmd % 8)) ELSE isr

(* Mutant of send_eoi: a slave line's EOI goes to the slave only, never to *)
(* the master's cascade line.                                              *)
SendEoiNoCascade(p, irq_num) ==
    IF irq_num >= IRQ_SLAVE
    THEN [p EXCEPT !.slave_isr = Ocw2(@, EOI | (irq_num - IRQ_SLAVE))]
    ELSE [p EXCEPT !.master_isr = Ocw2(@, EOI | irq_num)]

(* send_eoi: for a slave line a specific EOI to the slave, then            *)
(* send_eoi(IRQ_CAS) for the master's cascade line; for a master line a    *)
(* specific EOI to the master.                                             *)
RECURSIVE SendEoi(_, _)
SendEoi(p, irq_num) ==
    IF irq_num >= IRQ_SLAVE
    THEN SendEoi([p EXCEPT !.slave_isr = Ocw2(@, EOI | (irq_num - IRQ_SLAVE))],
                 IRQ_CAS)
    ELSE [p EXCEPT !.master_isr = Ocw2(@, EOI | irq_num)]

-----------------------------------------------------------------------------
(* The controllers themselves (8259A data sheet), not code of the kernel.  *)

(* The master line a request of irq arrives on.                           *)
MasterLine(irq) == IF irq >= IRQ_SLAVE THEN IRQ_CAS ELSE irq

(* No level 0 .. k is in service: fully nested mode passes a request only  *)
(* above every level in service.                                          *)
NoneInServiceUpTo(isr, k) == isr % Bit(k + 1) = 0

(* A request on line irq reaches the CPU: unmasked and not blocked by an   *)
(* in-service level on its chip, and for a slave line on the master too.   *)
Deliverable(p, irq) ==
    /\ ~IsSet(p.master_imr, MasterLine(irq))
    /\ NoneInServiceUpTo(p.master_isr, MasterLine(irq))
    /\ irq >= IRQ_SLAVE =>
           /\ ~IsSet(p.slave_imr, irq - IRQ_SLAVE)
           /\ NoneInServiceUpTo(p.slave_isr, irq - IRQ_SLAVE)

(* The CPU acknowledges the request: its level goes in service, on both    *)
(* chips for a slave line.                                                 *)
Acknowledge(p, irq) ==
    [p EXCEPT !.master_isr = @ | Bit(MasterLine(irq)),
              !.slave_isr  = IF irq >= IRQ_SLAVE
                             THEN @ | Bit(irq - IRQ_SLAVE) ELSE @]

(* The vector the CPU is given for a request on line irq: the chip's ICW2  *)
(* base (written by i8259_init) plus the line's level on that chip.        *)
VectorOf(irq) ==
    IF irq >= IRQ_SLAVE THEN ICW2_SLAVE + (irq - IRQ_SLAVE) ELSE ICW2_MASTER + irq

PicState ==
    [master_imr : 0 .. 255, slave_imr : 0 .. 255,
     master_isr : 0 .. 255, slave_isr : 0 .. 255]

=============================================================================
