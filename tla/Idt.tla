------------------------------- MODULE Idt -------------------------------
(***************************************************************************)
(* The interrupt descriptor table as idt_init leaves it, as pure          *)
(* operators: idt_set_vector fills one gate, idt_init makes its calls in   *)
(* order.  A gate is kept as what the CPU does with it: whether it is      *)
(* present, the privilege level that may raise it with int, whether it is *)
(* a trap gate (IF stays set on entry) or an interrupt gate (IF cleared),  *)
(* and the stub of handler.S it enters, named by kind and number           *)
(* (handler_k, handler_irqk, handler_syscall).  The selector, size and     *)
(* offset bits are the same for every gate and are left out.               *)
(***************************************************************************)
EXTENDS Naturals, Sequences

USER_DPL   == 3
KERNEL_DPL == 0
SYSCALL    == 128
NUM_VEC    == 256      \* vec is a uint8_t

Vectors == 0 .. NUM_VEC - 1

Exc(k) == [kind |-> "exception", num |-> k]
Irq(k) == [kind |-> "irq", num |-> k]
SyscallStub == [kind |-> "syscall", num |-> SYSCALL]

(* idt is a zeroed static array: no gate is present before idt_init.      *)
NotPresent == [present |-> FALSE, dpl |-> 0, trap |-> FALSE, handler |-> Exc(0)]

EmptyIdt == [v \in Vectors |-> NotPresent]

(* idt_set_vector: present = 1 and the given dpl; reserved3 = 1 (a 32-bit *)
(* trap gate) except for the system-call vector, an interrupt gate.        *)
IdtSetVector(idt, vec, dpl, handler) ==
    [idt EXCEPT ![vec] = [present |-> TRUE, dpl |-> dpl,
                          trap |-> vec # SYSCALL, handler |-> handler]]

Call(vec, dpl, handler) == [vec |-> vec, dpl |-> dpl, handler |-> handler]

(* idt_init's calls, in order: the 32 exceptions (4 and 5, overflow and   *)
(* bound, callable from user level), the IRQ stubs at 32 + line for the   *)
(* lines handler.h declares, and the system call.                          *)
ExceptionCalls ==
    [i \in 1 .. 32 |-> Call(i - 1, IF i - 1 \in {4, 5} THEN USER_DPL ELSE KERNEL_DPL,
                            Exc(i - 1))]

IrqLines == <<0, 1, 2, 3, 4, 6, 8, 10, 11, 12, 13, 14, 15>>

IrqCalls == [i \in 1 .. Len(IrqLines) |-> Call(32 + IrqLines[i], KERNEL_DPL,
                                                Irq(IrqLines[i]))]

(* The calls made one after another, from the zeroed table.               *)
RECURSIVE ApplyCallsTo(_, _)
ApplyCallsTo(idt, calls) ==
    IF calls = <<>> THEN idt
    ELSE ApplyCallsTo(IdtSetVector(idt, Head(calls).vec, Head(calls).dpl,
                                   Head(calls).handler), Tail(calls))

ApplyCalls(calls) == ApplyCallsTo(EmptyIdt, calls)

(* Mutant of idt_init: the call for vector 40 (handler_irq8) left out.    *)
IdtInitNoIrq8 ==
    ApplyCalls(ExceptionCalls
               \o SelectSeq(IrqCalls, LAMBDA c : c.vec # 40)
               \o <<Call(SYSCALL, USER_DPL, SyscallStub)>>)

IdtInit ==
    ApplyCalls(ExceptionCalls \o IrqCalls
               \o <<Call(SYSCALL, USER_DPL, SyscallStub)>>)

(* The CPU takes a hardware interrupt on vector vec to the stub of line   *)
(* irq: the gate is present and enters handler_irq<irq>, which calls      *)
(* pic_handler with int_num = irq.  (An absent gate raises #NP instead,   *)
(* which idt_handler reports and then spins on.)                          *)
Dispatches(idt, vec, irq) ==
    idt[vec].present /\ idt[vec].handler = Irq(irq)

=============================================================================
