------------------------------ MODULE Paging ------------------------------
(***************************************************************************)
(* The page directory and the one page table of page.c, as pure operators. *)
(* Entries are the 32-bit values the code stores.  init_page fills them at *)
(* boot; afterwards the kernel writes only pd[PD_IDX_USER], with the value *)
(* init_4mb_user_pde builds (execute, halt, change_task).                  *)
(*                                                                         *)
(* The second part is the x86 MMU (not kernel code): which physical pages a*)
(* user-mode access reaches through an entry.  Pages are counted in 4KB    *)
(* units: a virtual page is directory index * 1024 + table index.          *)
(***************************************************************************)
EXTENDS Naturals, Bitwise

CONSTANT PT_0_4     \* address of the kernel's page table pt_0_4

ASSUME PT_0_4 \in Nat /\ PT_0_4 % 4096 = 0

PAGE_ENTRY    == 1024
PRESENT       == 1
READWRITE     == 2
USER          == 4
KERNEL_ENTRY  == 4194691            \* 0x00400183
PT_IDX_VIDMEM == 184
PT_IDX_T1_VID == 185
PT_IDX_T2_VID == 186
PT_IDX_T3_VID == 187
PTE_VIDMEM    == 753671             \* 0x000B8007
PTE_TERM1_VID == 757767             \* 0x000B9007
PTE_TERM2_VID == 761863             \* 0x000BA007
PTE_TERM3_VID == 765959             \* 0x000BB007
PD_IDX_USER   == 32                 \* syscalls.h: virtual 128MB
ADDR_4MB      == 4194304

Entries == 0 .. PAGE_ENTRY - 1

(* set_read_write: every directory entry READWRITE, not present.          *)
SetReadWrite == [i \in Entries |-> READWRITE]

(* init_table: every entry of pt_0_4 READWRITE, then video memory and the *)
(* three terminals' backing pages mapped at their own addresses, user-    *)
(* accessible (the low bits 7 = PRESENT | READWRITE | USER).              *)
InitTable ==
    [[i \in Entries |-> READWRITE] EXCEPT ![PT_IDX_VIDMEM] = PTE_VIDMEM,
                                          ![PT_IDX_T1_VID] = PTE_TERM1_VID,
                                          ![PT_IDX_T2_VID] = PTE_TERM2_VID,
                                          ![PT_IDX_T3_VID] = PTE_TERM3_VID]

(* Mutant of init_page: the kernel's 4MB page given the USER bit.          *)
InitPageKernelUser ==
    [SetReadWrite EXCEPT ![0] = PT_0_4 | USER | PRESENT | READWRITE,
                         ![1] = KERNEL_ENTRY | USER]

(* init_page: the directory after set_read_write, with entry 0 pointing at *)
(* pt_0_4 (user, present, read-write) and entry 1 the kernel's 4MB page.   *)
InitPage ==
    [SetReadWrite EXCEPT ![0] = PT_0_4 | USER | PRESENT | READWRITE,
                         ![1] = KERNEL_ENTRY]

(* Mutant of init_4mb_user_pde: the address stored without the >> 22, so  *)
(* the 10-bit field keeps only its low bits.                              *)
InitUserPdeNoShift(page_base_addr) ==
    143 + (page_base_addr % PAGE_ENTRY) * 2^22

(* init_4mb_user_pde: present, rw, user_supervisor, write_through and      *)
(* is_big_page set (1 + 2 + 4 + 8 + 128), every other flag 0, and          *)
(* page_base_addr >> 22 in the 10-bit field at bits 22..31.                *)
InitUserPde(page_base_addr) ==
    143 + ((page_base_addr \div 2^22) % PAGE_ENTRY) * 2^22

-----------------------------------------------------------------------------
(* The MMU, with CR4.PSE set by init_page.                                *)

Bit(v, k) == (v \div 2^k) % 2

(* An entry a user-mode access may pass: present and user.                *)
UserOk(e) == Bit(e, 0) = 1 /\ Bit(e, 2) = 1

(* The user-reachable pages through directory entry d holding e, given    *)
(* the page table pt: a 4MB page (bit 7) or the 4KB pages of the table at *)
(* e's base, which is pt_0_4, the only page table the kernel has.         *)
UserReach(d, e, pt) ==
    CASE ~UserOk(e) -> {}
      [] Bit(e, 7) = 1 ->
             {[va |-> d * PAGE_ENTRY, pa |-> (e \div 2^22) * PAGE_ENTRY,
               pages |-> PAGE_ENTRY]}
      [] (e \div 4096) * 4096 = PT_0_4 ->
             {[va |-> d * PAGE_ENTRY + t, pa |-> pt[t] \div 4096, pages |-> 1] :
                 t \in {t \in Entries : UserOk(pt[t])}}

(* A kernel-mode access to byte va passes the MMU, with directory dir     *)
(* whose user slot holds pd_user: the directory entry is present, and for *)
(* pt_0_4's range the table entry too (CR0.WP is clear, so a kernel store *)
(* ignores the rw and user bits).                                         *)
KernelMapped(dir, pd_user, va) ==
    LET d == va \div 2^22
        e == IF d = PD_IDX_USER THEN pd_user ELSE dir[d]
    IN  /\ Bit(e, 0) = 1
        /\ Bit(e, 7) = 0 => Bit(InitTable[(va \div 4096) % PAGE_ENTRY], 0) = 1

(* What user mode reaches through every entry init_page left in place.    *)
StaticUserReach ==
    UNION {UserReach(d, InitPage[d], InitTable) : d \in Entries \ {PD_IDX_USER}}

=============================================================================
