------------------------------- MODULE Kernel -------------------------------
(***************************************************************************)
(* The process-management core of student-distrib: the PCB store (one     *)
(* slot per pid at 8MB - pid*8KB), the ready queue of sched.c, the single  *)
(* user page-directory entry, the TSS kernel-stack pointer, the per-PCB    *)
(* file-descriptor table, and the system calls that change them: execute,  *)
(* halt, open, close, read, write, vidmap and getargs, plus the timer tick *)
(* (pit_handler).                                                          *)
(*                                                                         *)
(* A system call runs on behalf of the process on the CPU (`running`), but *)
(* the code finds "its" PCB as the slot of pid process_count.  Both are    *)
(* kept so that properties can compare them.                               *)
(*                                                                         *)
(* PREEMPT says whether pit_handler calls change_task.  In the shipped     *)
(* idt.c the call is commented out ("scheduling not working"), so the      *)
(* build is PREEMPT = FALSE; PREEMPT = TRUE restores the commented lines.  *)
(* The system-call vector is an interrupt gate (idt_set_vector), though    *)
(* rtc_open/rtc_write execute sti part-way; with PREEMPT = FALSE no        *)
(* interrupt handler touches this state, so each call is one atomic step.  *)
(***************************************************************************)
EXTENDS Integers, FiniteSets, Sequences, Functions

CONSTANTS
    MAX_PROCESSES,  \* sched.h: capacity of the PCB store and of the queue
    NUM_TERMINALS,  \* keyboard.h: number of root shells started at boot
    OPS_SIZE,       \* syscalls.h: descriptors per PCB (8 in the build)
    PREEMPT,        \* does pit_handler call change_task?
    Names,          \* file names a process may pass to open
    DENTRIES,       \* the boot block's directory: <<[name, type]>> in order
    INODE,          \* the regular file's inode (see FileSystem)
    ReadSizes,      \* nbytes a process may pass to read, as uint32_t values
    KB4, MAX_DBLOCKS_PER_FILE, WIDTH,   \* FileSystem's scaled sizes
    PT_0_4,         \* address of page.c's page table (Paging)
    VidmapPtrs,     \* screen_start values a process may pass to vidmap
    Commands,       \* command strings a process may pass to execute
    GetargsSizes    \* nbytes a process may pass to getargs (int32_t)

ASSUME /\ NUM_TERMINALS \in 1 .. MAX_PROCESSES
       /\ OPS_SIZE \in Nat /\ OPS_SIZE >= 2
       /\ PREEMPT \in BOOLEAN
       /\ DENTRIES \in Seq([name : Names, type : {"rtc", "dir", "file"}])
       /\ ReadSizes \subseteq 0 .. 2^WIDTH - 1
       /\ VidmapPtrs \subseteq Nat
       /\ \A n \in GetargsSizes : n \in Int /\ -2147483647 - 1 <= n /\ n <= 2147483647

RQ == INSTANCE ReadyQueue
FS == INSTANCE FileSystem
PG == INSTANCE Paging
CMD == INSTANCE Command

ASSUME Commands \subseteq Seq(CMD!Bytes)

(* Step 1 of execute decides testCP3_execute's parse cases as the test     *)
(* expects.                                                                *)
ASSUME /\ \A c \in CMD!TestCP3ParseRefused : ~CMD!ParseOk(c)
       /\ \A c \in CMD!TestCP3ParseAccepted : CMD!ParseOk(c)

NUM_DENTRIES == Len(DENTRIES)     \* fs_info.num_dir_entries

NULL    == 0
Pids    == 1 .. MAX_PROCESSES
Fds     == 0 .. OPS_SIZE - 1
UserFds == 2 .. OPS_SIZE - 1
INDEX   == 1                        \* syscalls.h: highest reserved descriptor

(* A descriptor entry.  kind "junk" is an entry whose in_use bit is set    *)
(* but whose fop_ptr is stack garbage (see NewPcb).  For a "file" entry   *)
(* pos is file_pos; for a "dir" entry it is a history field, the index   *)
(* of the name this descriptor reads next (see NextName; the code keeps   *)
(* file_pos = 0 for directories).                                         *)
Kinds      == {"free", "junk", "term", "rtc", "dir", "file"}
FreeEntry  == [kind |-> "free", pos |-> 0]
JunkEntry  == [kind |-> "junk", pos |-> 0]
TermEntry  == [kind |-> "term", pos |-> 0]
Faults     == {"none", "null_parent", "queue_overrun", "wild_call",
               "page_fault", "vidmap_store", "getargs_copy"}

VARIABLES
    process_count,        \* global live-process count; also the newest pid
    primary_shell_count,  \* root shells started so far
    process_q,            \* the ring of sched.c (see ReadyQueue)
    pcb,                  \* pid -> the PCB stored in its slot
    running,              \* pid whose context the CPU executes (0: boot)
    pd_user,              \* pd[PD_IDX_USER], the user 4MB directory entry
    esp0,                 \* pid whose kernel stack tss.esp0 points at (0: boot)
    dir_read_count,       \* function-static cursor of read_directory
    fault,                \* exception the kernel stopped in, or "none"
    getargs_ret           \* history: the last getargs that returned

vars == <<process_count, primary_shell_count, process_q, pcb, running,
          pd_user, esp0, dir_read_count, fault, getargs_ret>>

(* kernel.c starts the first shell, and halt restarts it, with "shell".   *)
SHELL == <<"x", "x", "x", "x", "x">>

NoGetargs == [caller |-> NULL, n |-> 0, ret |-> 0, data |-> <<>>,
              command |-> <<>>]

-----------------------------------------------------------------------------
(* execute, step 5: a PCB is built in a local struct and memcpy'd into its *)
(* slot.  init_fd(pcb) takes the struct BY VALUE, so it clears a copy and  *)
(* entries 2.. keep whatever the kernel stack held: for each one the build *)
(* may see a clear in_use bit or a set one with a garbage fop_ptr.  The    *)
(* same local struct serves every pass of the boot loop, so all PCBs made  *)
(* by one execute share that garbage (`junk`).  args_initialize fills      *)
(* argument_length and argument_buffer from the command; `command` is a    *)
(* history field, the string the process was started with.                *)
NewPcb(parent, terminal, junk, command) ==
    [parent   |-> parent,
     terminal |-> terminal,
     fde      |-> [fd \in Fds |-> IF fd \in {0, 1} THEN TermEntry
                                  ELSE IF fd \in junk THEN JunkEntry
                                  ELSE FreeEntry],
     args     |-> CMD!ArgsInitialize(command),
     command  |-> command]

(* Mutants of the loop body: a root shell's terminal off by one, and the  *)
(* parent read from the queue after the new PCB was put at its front.     *)
SpawnOnceRootTermOffByOne(s, junk, command) ==
    LET pid    == s.count + 1
        parent == IF s.primary >= NUM_TERMINALS THEN RQ!PqPeak(s.q) ELSE NULL
        term   == IF parent = NULL THEN NUM_TERMINALS - s.primary
                                   ELSE s.pcb[parent].terminal
    IN  [count   |-> pid,
         primary |-> IF s.primary < NUM_TERMINALS THEN s.primary + 1
                                                  ELSE s.primary,
         q       |-> RQ!PqEnqueueFront(s.q, pid),
         pcb     |-> [s.pcb EXCEPT ![pid] = NewPcb(parent, term, junk, command)]]

SpawnOnceParentAfterEnqueue(s, junk, command) ==
    LET pid    == s.count + 1
        q      == RQ!PqEnqueueFront(s.q, pid)
        parent == IF s.primary >= NUM_TERMINALS THEN RQ!PqPeak(q) ELSE NULL
        term   == IF parent = NULL THEN NUM_TERMINALS - s.primary - 1
                                   ELSE s.pcb[parent].terminal
    IN  [count   |-> pid,
         primary |-> IF s.primary < NUM_TERMINALS THEN s.primary + 1
                                                  ELSE s.primary,
         q       |-> q,
         pcb     |-> [s.pcb EXCEPT ![pid] = NewPcb(parent, term, junk, command)]]

(* One pass of execute's do-while body on s = [count, primary, q, pcb]:   *)
(* take pid count+1, pick the parent (the queue front, or none while root *)
(* shells are still being started), inherit or assign the terminal, store *)
(* the PCB and put it at the front of the queue.                          *)
SpawnOnce(s, junk, command) ==
    LET pid    == s.count + 1
        parent == IF s.primary >= NUM_TERMINALS THEN RQ!PqPeak(s.q) ELSE NULL
        term   == IF parent = NULL THEN NUM_TERMINALS - s.primary - 1
                                   ELSE s.pcb[parent].terminal
    IN  [count   |-> pid,
         primary |-> IF s.primary < NUM_TERMINALS THEN s.primary + 1
                                                  ELSE s.primary,
         q       |-> RQ!PqEnqueueFront(s.q, pid),
         pcb     |-> [s.pcb EXCEPT ![pid] = NewPcb(parent, term, junk, command)]]

RECURSIVE SpawnLoop(_, _, _)
SpawnLoop(s, junk, command) ==
    LET t == SpawnOnce(s, junk, command)
    IN  IF t.primary < NUM_TERMINALS THEN SpawnLoop(t, junk, command) ELSE t

(* The user directory entry execute, halt and change_task write for pid   *)
(* k: init_4mb_user_pde(&pde, ADDR_4MB + k*ADDR_4MB), then pd[PD_IDX_USER] *)
(* = pde.val and set_cr3(pd), which flushes the TLB in the same step.      *)
BindFrame(k) == PG!InitUserPde(PG!ADDR_4MB + k * PG!ADDR_4MB)

(* execute from the loop to the iret: the last pass bound the newest      *)
(* pid's frame, tss.esp0 is set for it, and iret enters its program.      *)
Launch(s, command) ==
    \E junk \in SUBSET UserFds :
        LET t == SpawnLoop(s, junk, command)
        IN  /\ process_count'       = t.count
            /\ primary_shell_count' = t.primary
            /\ process_q'           = t.q
            /\ pcb'                 = t.pcb
            /\ pd_user'             = BindFrame(t.count)
            /\ esp0'                = t.count
            /\ running'             = t.count

Current == [count |-> process_count, primary |-> primary_shell_count,
            q |-> process_q, pcb |-> pcb]

-----------------------------------------------------------------------------
(* execute(command) with a command that parses, whose program name is     *)
(* taken to name an ELF file.  The early returns (too many processes, bad *)
(* command, not found, not ELF) change nothing, so they are stuttering    *)
(* steps.  At boot running = 0 and the caller is the kernel's             *)
(* execute("shell").                                                      *)
Execute ==
    /\ fault = "none"
    /\ process_count < MAX_PROCESSES
    /\ \E command \in IF running = NULL THEN {SHELL} ELSE Commands :
          /\ CMD!ParseOk(command)
          /\ Launch(Current, command)
    /\ UNCHANGED <<dir_read_count, fault>>

(* Mutants of the restart path: pq_init left out, process_count not reset. *)
HaltLastNoQueueReset ==
    /\ process_count <= 1
    /\ Launch([count |-> 0, primary |-> primary_shell_count,
               q |-> process_q, pcb |-> pcb], SHELL)
    /\ UNCHANGED <<dir_read_count, fault>>

HaltLastNoCountReset ==
    /\ process_count <= 1
    /\ Launch([count |-> process_count, primary |-> primary_shell_count,
               q |-> RQ!PqInit, pcb |-> pcb], SHELL)
    /\ UNCHANGED <<dir_read_count, fault>>

(* halt when process_count <= 1: refuse, reset the count and the queue,   *)
(* and execute("shell"), which never returns.                             *)
HaltLast ==
    /\ process_count <= 1
    /\ Launch([count |-> 0, primary |-> primary_shell_count,
               q |-> RQ!PqInit, pcb |-> pcb], SHELL)
    /\ UNCHANGED <<dir_read_count, fault>>

(* Mutants of halt: process_count-- left out, and the frame of the       *)
(* halting process (process_count) bound instead of process_count-1.      *)
HaltToParentNoDecrement ==
    LET parent == pcb[process_count].parent
    IN  /\ process_count > 1
        /\ parent # NULL
        /\ process_q'     = RQ!PqDequeue(process_q)
        /\ pd_user'       = BindFrame(process_count - 1)
        /\ esp0'          = process_count
        /\ running'       = parent
        /\ UNCHANGED <<process_count, primary_shell_count, pcb,
                       dir_read_count, fault>>

HaltToParentBindsCaller ==
    LET parent == pcb[process_count].parent
    IN  /\ process_count > 1
        /\ parent # NULL
        /\ process_q'     = RQ!PqDequeue(process_q)
        /\ pd_user'       = BindFrame(process_count)
        /\ process_count' = process_count - 1
        /\ esp0'          = process_count - 1
        /\ running'       = parent
        /\ UNCHANGED <<primary_shell_count, pcb, dir_read_count, fault>>

(* halt otherwise: dequeue the front, read the parent of the PCB in slot   *)
(* process_count, bind frame process_count-1, decrement, point tss.esp0   *)
(* at the new count, and resume the parent (the esp/ebp restore and       *)
(* `leave` of the inline assembly).                                       *)
HaltToParent ==
    LET parent == pcb[process_count].parent
    IN  /\ process_count > 1
        /\ parent # NULL
        /\ process_q'     = RQ!PqDequeue(process_q)
        /\ pd_user'       = BindFrame(process_count - 1)
        /\ process_count' = process_count - 1
        /\ esp0'          = process_count - 1
        /\ running'       = parent
        /\ UNCHANGED <<primary_shell_count, pcb, dir_read_count, fault>>

(* A root shell has parent_ptr NULL: parent_pcb->esp reads address 0,     *)
(* which is not present, and the page-fault handler spins forever.        *)
HaltNullParent ==
    /\ process_count > 1
    /\ pcb[process_count].parent = NULL
    /\ fault' = "null_parent"
    /\ UNCHANGED <<process_count, primary_shell_count, process_q, pcb,
                   running, pd_user, esp0, dir_read_count>>

Halt ==
    /\ fault = "none"
    /\ running # NULL
    /\ \/ HaltLast
       \/ HaltToParent
       \/ HaltNullParent

-----------------------------------------------------------------------------
(* pit_handler -> change_task (only when PREEMPT): save the registers into *)
(* the front PCB (registers are not modelled), rotate, and switch frame,  *)
(* tss.esp0 and CPU to the new front.  When pq_rotate stores past the     *)
(* array it overwrites `front` with a PCB address; the following pq_peak  *)
(* reads far outside the kernel page and page-faults.                     *)
ChangeTask ==
    \/ /\ RQ!PqRotateOverruns(process_q)
       /\ fault' = "queue_overrun"
       /\ UNCHANGED <<process_count, primary_shell_count, process_q, pcb,
                      running, pd_user, esp0, dir_read_count>>
    \/ /\ ~RQ!PqRotateOverruns(process_q)
       /\ LET q    == RQ!PqRotate(process_q)
              next == RQ!PqPeak(q)
          IN  /\ process_q' = q
              /\ running'   = next
              /\ pd_user'   = BindFrame(next)
              /\ esp0'      = next
       /\ UNCHANGED <<process_count, primary_shell_count, pcb,
                      dir_read_count, fault>>

Tick ==
    /\ fault = "none"
    /\ PREEMPT
    /\ process_count >= NUM_TERMINALS
    /\ ChangeTask

-----------------------------------------------------------------------------
(* The descriptor calls all use the PCB in slot process_count.            *)
Fde == pcb[process_count].fde

SetEntry(fd, e) == pcb' = [pcb EXCEPT ![process_count].fde[fd] = e]

FreeFds == {fd \in Fds : Fde[fd].kind = "free"}

(* open(name): first descriptor whose in_use bit is clear, then the name  *)
(* lookup; on success the entry gets the type's fops and file_pos 0.      *)
Open(name) ==
    /\ fault = "none"
    /\ running # NULL
    /\ FreeFds # {}
    /\ FS!ReadDentryByName(DENTRIES, name) # FS!FAIL
    /\ LET loc   == CHOOSE l \in FreeFds : \A m \in FreeFds : l <= m
           dentry == DENTRIES[FS!ReadDentryByName(DENTRIES, name) + 1]
       IN  SetEntry(loc, [kind |-> dentry.type, pos |-> 0])
    /\ UNCHANGED <<process_count, primary_shell_count, process_q, running,
                   pd_user, esp0, dir_read_count, fault>>

(* close(fd): in_use is checked before the range; 0 and 1 are refused;    *)
(* then fop_ptr->close is called and the entry cleared.                   *)
Close(fd) ==
    /\ fault = "none"
    /\ running # NULL
    /\ Fde[fd].kind # "free"
    /\ fd > INDEX
    /\ \/ /\ Fde[fd].kind = "junk"
          /\ fault' = "wild_call"
          /\ UNCHANGED pcb
       \/ /\ Fde[fd].kind \in {"rtc", "dir", "file"}
          /\ SetEntry(fd, FreeEntry)
          /\ UNCHANGED fault
    /\ UNCHANGED <<process_count, primary_shell_count, process_q, running,
                   pd_user, esp0, dir_read_count>>

(* History for a directory descriptor: the index of the name its next    *)
(* read should return if the descriptor had its own cursor (after the     *)
(* last name a read returns 0 and starts over).                           *)
NextName(i) == IF i >= NUM_DENTRIES THEN 0 ELSE i + 1

(* read_directory: the function-static cursor names the dentry to copy;  *)
(* past the last one it is reset and the read returns 0.  The descriptor  *)
(* is only used to find this function.                                    *)
ReadDirectory(fd) ==
    /\ dir_read_count' =
           IF FS!ReadDentryByIndex(DENTRIES, dir_read_count) = FS!FAIL
           THEN 0 ELSE dir_read_count + 1
    /\ SetEntry(fd, [kind |-> "dir", pos |-> NextName(Fde[fd].pos)])

(* read_file: read_data from file_pos (a uint32_t), then file_pos +=     *)
(* its int32_t result.  A copy of half the address space or more runs off *)
(* the kernel's mapped pages: memcpy page-faults inside read_data and      *)
(* file_pos is never updated.                                             *)
ReadFile(fd, n) ==
    LET r == FS!ReadData(INODE, Fde[fd].pos, n)
    IN  \/ /\ Len(r.copy) >= FS!WORD \div 2
           /\ fault' = "page_fault"
           /\ UNCHANGED pcb
        \/ /\ Len(r.copy) < FS!WORD \div 2
           /\ SetEntry(fd, [kind |-> "file",
                            pos  |-> FS!U32(Fde[fd].pos + r.ret)])
           /\ UNCHANGED fault

(* read(fd, n): range and in_use checks, fd 1 refused, then the type's     *)
(* read.  Terminal and RTC reads wait on devices and change no state here.*)
Read(fd, n) ==
    /\ fault = "none"
    /\ running # NULL
    /\ Fde[fd].kind # "free"
    /\ fd # 1
    /\ \/ /\ Fde[fd].kind = "junk"
          /\ fault' = "wild_call"
          /\ UNCHANGED <<pcb, dir_read_count>>
       \/ /\ Fde[fd].kind = "dir"
          /\ ReadDirectory(fd)
          /\ UNCHANGED fault
       \/ /\ Fde[fd].kind = "file"
          /\ ReadFile(fd, n)
          /\ UNCHANGED dir_read_count
    /\ UNCHANGED <<process_count, primary_shell_count, process_q, running,
                   pd_user, esp0>>

(* write(fd): fd 0 refused; file and directory writes return -1 and       *)
(* terminal/RTC writes touch devices only; a garbage fop_ptr is called.   *)
Write(fd) ==
    /\ fault = "none"
    /\ running # NULL
    /\ Fde[fd].kind = "junk"
    /\ fd # 0
    /\ fault' = "wild_call"
    /\ UNCHANGED <<process_count, primary_shell_count, process_q, pcb,
                   running, pd_user, esp0, dir_read_count>>

TOP_PAGE    == 134217728     \* syscalls.h: 0x08000000, the user page at 128MB
BOTTOM_PAGE == 138412032     \* 0x08400000, the first address past it

(* The page directory init_page built; only its user slot changes later. *)
BootDirectory == PG!InitPage

(* vidmap(screen_start): below TOP_PAGE, at or above BOTTOM_PAGE or NULL  *)
(* it returns -1; otherwise the kernel stores the 4-byte pointer VID_MEM  *)
(* at screen_start, in the caller's address space, and returns 0.  Both   *)
(* of those change no kernel state (stuttering steps), unless a byte of   *)
(* the store lies on a page that is not present: then the page-fault      *)
(* handler spins.                                                         *)
Vidmap(screen_start) ==
    /\ fault = "none"
    /\ running # NULL
    /\ screen_start >= TOP_PAGE
    /\ screen_start < BOTTOM_PAGE
    /\ screen_start # NULL
    /\ \E b \in 0 .. 3 :
          ~PG!KernelMapped(BootDirectory, pd_user, screen_start + b)
    /\ fault' = "vidmap_store"
    /\ UNCHANGED <<process_count, primary_shell_count, process_q, pcb,
                   running, pd_user, esp0, dir_read_count>>

(* getargs(buf, nbytes) with a non-NULL buf, on the PCB in slot           *)
(* process_count: the checks of CMD!Getargs, then memcpy of nbytes bytes   *)
(* from argument_buffer.  A copy of a negative nbytes (near 4GB as a      *)
(* size_t) runs off mapped memory and page-faults; otherwise the caller   *)
(* gets the argument string and the result, recorded with the command it  *)
(* was started with.                                                      *)
Getargs(nbytes) ==
    LET args == pcb[process_count].args
        r    == CMD!Getargs(args, FALSE, nbytes)
    IN  /\ fault = "none"
        /\ running # NULL
        /\ \/ /\ r = CMD!SUCCESS
              /\ CMD!CopyFaults(nbytes)
              /\ fault' = "getargs_copy"
              /\ UNCHANGED getargs_ret
           \/ /\ ~(r = CMD!SUCCESS /\ CMD!CopyFaults(nbytes))
              /\ getargs_ret' = [caller  |-> running,
                                 n       |-> nbytes,
                                 ret     |-> r,
                                 data    |-> IF r = CMD!SUCCESS
                                             THEN args.argument ELSE <<>>,
                                 command |-> pcb[running].command]
              /\ UNCHANGED fault
        /\ UNCHANGED <<process_count, primary_shell_count, process_q, pcb,
                       running, pd_user, esp0, dir_read_count>>

-----------------------------------------------------------------------------
(* Boot state: pq_init, init_process_ct, primary_shell_count zero; the    *)
(* PCB slots are not read before execute writes them.                     *)
Init ==
    /\ process_count       = 0
    /\ primary_shell_count = 0
    /\ process_q           = RQ!PqInit
    /\ pcb = [p \in Pids |-> [parent |-> NULL, terminal |-> 0,
                              fde |-> [fd \in Fds |-> FreeEntry],
                              args |-> CMD!ArgsInitialize(<<>>),
                              command |-> <<>>]]
    /\ running        = NULL
    /\ pd_user        = PG!InitPage[PG!PD_IDX_USER]
    /\ esp0           = NULL
    /\ dir_read_count = 0
    /\ fault          = "none"
    /\ getargs_ret    = NoGetargs

(* The system calls and the tick; only getargs writes its history.        *)
KernelNext ==
    \/ Execute
    \/ Halt
    \/ Tick
    \/ \E name \in Names : Open(name)
    \/ \E fd \in Fds : Close(fd)
    \/ \E fd \in Fds, n \in ReadSizes : Read(fd, n)
    \/ \E fd \in Fds : Write(fd)
    \/ \E ptr \in VidmapPtrs : Vidmap(ptr)

Next ==
    \/ KernelNext /\ UNCHANGED getargs_ret
    \/ \E n \in GetargsSizes : Getargs(n)

(* The PIT fires periodically once pit_init has unmasked IRQ0.            *)
Spec == Init /\ [][Next]_vars /\ WF_vars(Tick)

-----------------------------------------------------------------------------
Live == 1 .. process_count

TypeOK ==
    /\ process_count \in 0 .. MAX_PROCESSES
    /\ primary_shell_count \in 0 .. NUM_TERMINALS
    /\ process_q.pcbs \in [RQ!Slots -> 0 .. MAX_PROCESSES]
    /\ process_q.front \in RQ!Slots
    /\ process_q.rear \in RQ!Slots
    /\ \A p \in Pids :
          /\ pcb[p].parent \in 0 .. MAX_PROCESSES
          /\ pcb[p].terminal \in -1 .. NUM_TERMINALS - 1
          /\ \A fd \in Fds : pcb[p].fde[fd].kind \in Kinds
    /\ {running, esp0} \subseteq 0 .. MAX_PROCESSES
    /\ pd_user \in Nat
    /\ dir_read_count \in 0 .. NUM_DENTRIES
    /\ fault \in Faults
    /\ getargs_ret.ret \in {CMD!FAIL, CMD!SUCCESS}

(* The ring holds exactly the pids the count says are live, each once, in *)
(* the positions front .. front+count-1.  execute, halt and change_task   *)
(* each move front, rear and process_count separately; halt frees slot    *)
(* process_count while dequeuing the front.                               *)
QueueHoldsLivePids ==
    fault = "none" =>
        LET s == RQ!RingSeq(process_q, process_count)
        IN  /\ process_q.rear = (process_q.front + process_count - 1)
                                    % MAX_PROCESSES
            /\ IsInjective(s)
            /\ Range(s) = Live

(* Every descriptor call and halt locate the caller's PCB as the slot of  *)
(* pid process_count: that must be the process on the CPU.                *)
SyscallPcbIsCaller ==
    running # NULL => running = process_count

(* The process on the CPU is the one at the front of the queue (the spec  *)
(* invariant change_task and halt's dequeue rely on).                     *)
RunningIsFront ==
    running # NULL => running = RQ!PqPeak(process_q)

(* What user mode reaches through the entries init_page left in place;    *)
(* they never change after boot.                                          *)
BootUserReach == PG!StaticUserReach

(* The spec's address space of pid p: its own 4MB frame, pid-indexed from *)
(* 8MB ("first user prog is at 8MB"), at the user slot, and the display   *)
(* pages every process shares: video memory at VID_MEM, which vidmap hands*)
(* out, and the three backing pages beside it.                            *)
OwnView(p) ==
    {[va |-> PG!PD_IDX_USER * PG!PAGE_ENTRY, pa |-> (p + 1) * PG!PAGE_ENTRY,
      pages |-> PG!PAGE_ENTRY]}
    \cup {[va |-> v, pa |-> v, pages |-> 1] :
             v \in PG!PT_IDX_VIDMEM .. PG!PT_IDX_T3_VID}

(* The address space and the TSS kernel stack belong to the process on the*)
(* CPU: what user mode reaches through the whole page directory (page.c's *)
(* boot tables and the entry init_4mb_user_pde built) is exactly that     *)
(* process's frame and the display pages, so no kernel page or other      *)
(* process's frame is reachable; execute binds count, halt binds count-1, *)
(* change_task binds the new front.                                       *)
ContextOfRunning ==
    running # NULL =>
        /\ BootUserReach \cup PG!UserReach(PG!PD_IDX_USER, pd_user, PG!InitTable)
               = OwnView(running)
        /\ esp0 = running

(* Each terminal has exactly one live root shell, every live process has a *)
(* terminal in range, and a child is live only with a live parent on the  *)
(* same terminal.                                                         *)
TerminalOwnership ==
    running # NULL =>
    /\ \A t \in 0 .. NUM_TERMINALS - 1 :
          Cardinality({p \in Live : pcb[p].parent = NULL
                                     /\ pcb[p].terminal = t}) = 1
    /\ \A p \in Live :
          /\ pcb[p].terminal \in 0 .. NUM_TERMINALS - 1
          /\ pcb[p].parent # NULL =>
                /\ pcb[p].parent \in Live
                /\ pcb[pcb[p].parent].terminal = pcb[p].terminal

(* halt never stops the kernel: the spec says it reports no error beyond  *)
(* refusing to exit the last process.                                     *)
HaltNeverFaults == fault # "null_parent"

(* The positions within the file at which every read with a              *)
(* non-negative int32_t nbytes makes read_data copy exactly the requested *)
(* bytes of the file, cut at its end, and return their count.  It depends *)
(* on constants only, so TLC computes it once.                            *)
ReadDataCorrectAt ==
    {pos \in 0 .. INODE.file_length :
        \A n \in 0 .. FS!WORD \div 2 - 1 :
            LET r == FS!ReadData(INODE, pos, n)
            IN  r.copy = FS!FileBytes(INODE, pos, n) /\ r.ret = Len(r.copy)}

(* Every file position a process has reached is one where read_data       *)
(* copies the file block after block: the skip loop, the block count, the *)
(* copy loop and the trim agree at every boundary file_pos can sit on,    *)
(* and file_pos never leaves the file.                                    *)
ReadDataCopiesFile ==
    \A p \in Live : \A fd \in Fds :
        pcb[p].fde[fd].kind = "file" => pcb[p].fde[fd].pos \in ReadDataCorrectAt

(* A read of a regular file never stops the kernel: the spec says such a  *)
(* read returns fewer bytes than asked at end of file and is never        *)
(* negative.  read_file hands read_data a negative nbytes as a uint32_t.   *)
FileReadNeverFaults == fault # "page_fault"

(* vidmap never stops the kernel: the spec says it fails unless the        *)
(* destination lands inside the caller's user address range, and         *)
(* otherwise stores the display pointer there.  The code checks only the  *)
(* first byte of the 4-byte store.                                        *)
VidmapNeverFaults == fault # "vidmap_store"

(* getargs answers the caller as the spec says for the command it was     *)
(* started with: -1 when that command had no argument or the argument and *)
(* its NUL do not fit in nbytes, otherwise 0 with the argument.  It ties  *)
(* the parse and args_initialize of an earlier execute, the PCB slot      *)
(* getargs reads (process_count), and getargs's checks, across halts that *)
(* free slots and restarts that refill them.                              *)
GetargsReturnsCallersArgument ==
    getargs_ret # NoGetargs =>
        [ret  |-> getargs_ret.ret, data |-> getargs_ret.data]
            = CMD!SpecGetargs(getargs_ret.command, getargs_ret.n)

(* getargs never stops the kernel: the spec says it fails when the        *)
(* buffer is smaller than the argument.                                   *)
GetargsNeverFaults == fault # "getargs_copy"

(* The spec: a descriptor entry is either fully populated or fully        *)
(* cleared; execute's init_fd is meant to clear entries 2...              *)
FdEntriesWellFormed ==
    \A p \in Live : \A fd \in Fds : pcb[p].fde[fd].kind # "junk"

(* Consecutive reads of a directory descriptor return consecutive names   *)
(* starting with the first: each open directory descriptor's position is  *)
(* the cursor read_directory uses.                                        *)
DirCursorPerDescriptor ==
    \A p \in Live : \A fd \in Fds :
        pcb[p].fde[fd].kind = "dir" => pcb[p].fde[fd].pos = dir_read_count

(* pq_rotate never stores outside the array.                              *)
RotateStaysInRing == fault # "queue_overrun"

(* Every live process eventually runs: the spec's round-robin preemption. *)
EveryLiveProcessRuns ==
    \A p \in Pids : (p \in Live) ~> (running = p \/ p \notin Live)

(* A timer tick rotates the queue by one, as a sequence: the front goes   *)
(* to the rear and the second entry runs.                                 *)
TickRotates ==
    [][Tick /\ fault' = "none" =>
        LET s == RQ!RingSeq(process_q, process_count)
        IN  RQ!RingSeq(process_q', process_count') = Tail(s) \o <<Head(s)>>
       ]_vars

(* Refinement: the ring read front to rear as a sequence, the parent      *)
(* pointers of the PCB slots, and the CPU implement ProcessScheduler.     *)
(* A step into a fault changes none of these, so a halted kernel refines  *)
(* a scheduler that stops.                                                *)
Abs == INSTANCE ProcessScheduler
         WITH queue   <- RQ!RingSeq(process_q, process_count),
              parent  <- [p \in Pids |-> pcb[p].parent],
              running <- running

(* execute, halt and change_task together behave as the abstract          *)
(* scheduler: fresh pids, the caller as parent, halt resuming a live      *)
(* parent, ticks rotating the queue.                                      *)
ImplementsScheduler == Abs!ASpec

=============================================================================
