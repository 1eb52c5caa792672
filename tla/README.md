# TLA+ models of the Queeblo OS kernel (student-distrib)

These modules model the process-management core of the kernel in
`src/student-distrib`, plus the drivers around it whose state the core
shares. Each module is written from the C source. The map in
`PROJECT.json` names the lines each definition translates.

## 1. The system

The kernel runs on one CPU and has a single thread of control. Concurrency
comes only from interrupts.

| Part | Source | State | Operations |
|---|---|---|---|
| Lifecycle system calls | `syscalls.c` `execute`, `halt` | `process_count`, `primary_shell_count`, the PCB slots (pid p at 8MB - p*8KB: parent pointer, terminal, fd table) | execute (parse, find, check ELF, boot loop of root shells, build PCB, enqueue_front, bind frame, tss.esp0, iret); halt (refuse-and-restart, or dequeue, restore parent, rebind, decrement) |
| Ready queue | `sched.c` `pq_*` | `process_q`: ring of `MAX_PROCESSES` PCB pointers, `front`, `rear`, no length | pq_init, pq_enqueue (no caller), pq_enqueue_front, pq_peak, pq_dequeue, pq_rotate |
| Scheduler | `sched.c` `change_task`, `idt.c` `pit_handler` | the queue, PCB register snapshot, user PDE, `tss.esp0` | save registers into the front PCB, rotate, bind the new front's frame and kernel stack, iret. **The call in pit_handler is commented out** ("scheduling not working"). |
| Address space | `page.c` `init_page`, `init_table`, `init_4mb_user_pde`, `set_cr3` | the page directory `pd` and page table `pt_0_4`; after boot only `pd[PD_IDX_USER]` (the 4MB page at 128MB) changes | built at boot; the user entry is written by execute, halt, change_task |
| FD table | `syscalls.c` `open/close/read/write/check_use/init_fd` | 8 entries per PCB: fop_ptr, inode, file_pos, in_use | every call finds "its" PCB as slot `process_count` |
| File system | `filesys_mod.c` | boot image (read-only); `read_directory`'s static cursor; `file_pos` of each descriptor | read_dentry_by_name/index, read_data, read_file, read_directory |
| Keyboard, terminal | `keyboard.c`, `terminal.c` | modifier flags, per-terminal line buffers and ready flags, display terminal, video memory and backing pages | keyboard_handler (IRQ1), term_read (busy-waits), term_write, change_display_term |
| RTC | `rtc.c` | `RTC_READ` flag, rate register | rtc_open/read/write/close, rtc_handler (IRQ8) |
| PIC, IDT, PIT | `i8259.c`, `idt.c`, `pit.c` | mask and in-service registers of the two 8259As, vectors | i8259_init, enable_irq, send_eoi; pic_handler dispatches IRQ 0/1/8 and sends the EOI; `idt_handler` spins forever on an exception |

How the parts interact:
- `idt_set_vector` (`idt.c:111-113`) makes the system-call vector an **interrupt gate** (`reserved3 = 0`) and every IRQ and exception vector a **trap gate** (`reserved3 = 1`). So a system call starts with interrupts off. `rtc_open` and `rtc_write` execute `sti` part-way, and `rtc_read` and `term_read` can only finish if interrupts are on, so the entry stub (`handler.S`, not in the tree) must enable them. An IRQ handler starts with interrupts on until `pic_handler`'s `cli_and_save`.
- Every IRQ passes the cascaded 8259As. An RTC interrupt (IRQ8) is in service on the slave and on the master's cascade line (2) until `send_eoi(8)` clears both.
- The keyboard handler and the RTC handler can run in the middle of `term_read`, `term_write` and `rtc_read`. They do run there, because those calls busy-wait.
- The timer would run change_task at the same points, but its call is commented out.
- Every descriptor call, `read_file` and `halt` locate the current PCB from `process_count`, not from the running pid. The terminal driver finds the running process's terminal through `pq_get_active_term()`, which reads the queue front.

## 2. Modules

| Module | Models | Variables / main operators |
|---|---|---|
| `ReadyQueue` | `sched.c` queue operations as pure operators on a ring record, so that one handler can compose several of them | `PqInit`, `PqEnqueue`, `PqEnqueueFront`, `PqPeak`, `PqDequeue`, `PqRotate` (with the unwrapped `rear++`; `PqRotateOverruns` is the out-of-array case), `RingSeq` (front..front+n-1 as a sequence) |
| `Kernel` | execute, halt, open, close, read, write, vidmap, getargs, and the timer tick, over the PCB store, the queue, the bound frame and `tss.esp0` | `process_count`, `primary_shell_count`, `process_q`, `pcb` (each with its argument and, as history, its command), `running`, `pd_user` (the value of `pd[PD_IDX_USER]`), `esp0`, `dir_read_count`, `fault`, `getargs_ret` (history: the last getargs that returned) |
| `Command` | step 1 of execute (the parse), args_initialize and getargs's checks as pure operators over a command string of `"x"` and space bytes; then the spec's getargs (`SpecGetargs`, the reference: the second space-delimited token, if it and its NUL fit) | `CharSpaceIndices`, `ProgNameLen`, `ParseOk`, `ArgsInitialize`, `Getargs`, `LongerThan` (the uint32_t/int32_t comparison), `CopyFaults` |
| `ProcessScheduler` | the abstract process core the spec describes: a queue of distinct live pids, their parents, the running pid; boot, spawn, exit-to-parent, restart of the last process, rotate | `queue`, `parent`, `running` |
| `Terminal` | keyboard_handler, clear_keyboard_buf, change_display_term, term_read and term_write, with one running process whose terminal is a constant choice | `ctrl_on`, `alt_on`, `ready_to_read`, `kb_buf` (a sequence per terminal), `display_terminal`, `video_foreign`, `backing_foreign`, `output_lost`, and the process's call in progress (`pc`, `nbytes`, `to_screen`, `returned`) |
| `MCTerminal` | key sets for `Terminal` runs | |
| `Rtc` | rtc_init, rtc_open, rtc_write, rtc_read, rtc_close and rtc_handler, used through descriptors by the chain of processes that execute and halt build | `reg_a`, `reg_b` (the RTC registers as bytes), `booted`, `RTC_READ`, `procs` (per process of the chain: holds an RTC descriptor), `pc`, `requested` (last frequency set), `pic` (the 8259A registers) |
| `Pic` | i8259_init, enable_irq, send_eoi and pit_init's unmasking of IRQ0 as pure operators on the registers of the two 8259As, plus the controller's fully nested delivery, acknowledge and vector (data sheet, not kernel code) | `I8259Init`, `EnableIrq`, `PitInit`, `SendEoi` (RECURSIVE like the C: a slave line's EOI, then `send_eoi(IRQ_CAS)`), `Ocw2`, `Deliverable`, `Acknowledge`, `VectorOf` (ICW2 base plus level) |
| `Idt` | idt_set_vector and idt_init as pure operators: the 256-entry table of gates, each kept as present, DPL, trap or interrupt gate, and the handler.S stub it enters | `IdtSetVector`, `IdtInit` (its calls in order, applied by the RECURSIVE `ApplyCallsTo`), `Dispatches` (a hardware interrupt on a vector reaches the stub of its line) |
| `MCRtc` | inputs for `Rtc`: every accepted frequency and rejected ones, the BIOS register values | |
| `FileSystem` | `filesys_mod.c` lookups and `read_data`, as pure operators over an inode record and a directory sequence | `ReadDentryByName`, `ReadDentryByIndex`, `ReadData` (the uint32_t arithmetic via `U32`/`I32`, `SkipBlocks` and `CopyLoop` as RECURSIVE loops), and `FileBytes`, the reference "bytes offset..offset+n of the file" |
| `Paging` | page.c's boot tables (`SetReadWrite`, `InitTable`, `InitPage`) and `InitUserPde` as the 32-bit entries the code stores; then the MMU (not kernel code): `UserReach`, the pages a user-mode access reaches through an entry (present and user bits, bit 7 for a 4MB page, else the 4KB entries of `pt_0_4`) | `StaticUserReach` (everything but the user slot) |
| `MCKernel` | model values for `Kernel`: four names a process may pass (rtc, ".", a regular file, a missing name), a directory of three entries, a 3-byte file over blocks 5 and 2, the vidmap pointers, the commands a shell may pass and the getargs sizes | |

How `Kernel` corresponds to the code:
- **`running`** is the pid whose context the CPU executes. The code has no such variable. It is what the `iret` of execute, the `leave` in halt and the `iret` of change_task resume. Keeping it lets the properties compare it with `process_count` and with the queue front.
- **`Execute`** is the whole of `execute` from the boot loop to the iret. It is built as follows:
  - `SpawnOnce` is one pass of the do-while body.
  - `SpawnLoop` (RECURSIVE) is the loop.
  - `Launch` is step 6.
  - The command is `"shell"` at boot and on halt's restart, and otherwise one of `Commands`. It must pass `Command`'s `ParseOk`, and its program name is taken to name an ELF file.
  - The early returns are stuttering steps, because they change no state: too many processes, a bad command, a missing file, not ELF.
  - `NewPcb` stores `args_initialize`'s result (`argument_length` and the argument string) and, as history, the command.
- **`pd_user`** is the 32-bit value in `pd[PD_IDX_USER]`. `BindFrame(k)` is `init_4mb_user_pde(&pde, ADDR_4MB + k*ADDR_4MB)` followed by the store into the directory and `set_cr3`, which flushes the TLB in the same step. execute passes `process_count`, halt `process_count - 1`, and change_task the new front's pid. `Init` holds `READWRITE` (not present), which `set_read_write` left there. The other entries never change after `init_page`, so `BootUserReach`, what user mode reaches through them, is computed once.
- **`Vidmap`** is vidmap. Its refusals, and its successful store of the display pointer into the caller's memory, change no kernel state, so they are stuttering steps. The action is the store that page-faults: a byte of it lies on a page that `Paging`'s `KernelMapped` finds not present in the current directory.
- **`Getargs`** is getargs with a non-NULL buffer, on the PCB in slot `process_count`. When the checks fail or the copy succeeds, it records the result, the argument string and the caller's command in `getargs_ret`. A negative nbytes passes the unsigned size check, and the copy of nearly 4GB page-faults (`fault = "getargs_copy"`).
- **`init_fd`** takes the PCB by value, so descriptors 2..7 of new PCBs hold whatever execute's local `pcb` held on the stack. This is undefined behaviour. `Launch` chooses nondeterministically the set of those descriptors whose garbage has the in_use bit set (`"junk"` entries). The same local struct serves every pass of the boot loop, so one choice is made per execute.
- **`Halt`** has three disjuncts:
  - `HaltLast` is `process_count <= 1`: set the count to 0, `pq_init`, `execute("shell")`.
  - `HaltToParent` dequeues, binds frame `count-1` (`BindFrame`), decrements, sets `tss.esp0` to the new count, and resumes the parent.
  - `HaltNullParent` is the NULL parent pointer of a root shell: the read at `syscalls.c:58` page-faults, so `fault` is set.

  A state with `fault # "none"` has no successor, because `idt_handler` spins.
- **`Tick`** is `pit_handler`. It is enabled only when the constant `PREEMPT` is TRUE, which restores the commented-out lines. In that case it runs `ChangeTask`, and a `pq_rotate` that stores outside the array faults.
- **`Open`, `Close`, `Read`, `Write`** follow the guards of the C functions in the same order. `ReadDirectory` and `ReadFile` are the state changes of `read_directory` and `read_file`.
  - `Open` looks the name up with `FileSystem`'s `ReadDentryByName`, and `ReadDirectory` asks `ReadDentryByIndex` whether the static cursor is past the last entry.
  - `ReadFile` runs `ReadData` at `file_pos` and adds its int32_t result to `file_pos` modulo 2^WIDTH. If the copy is half the address space or more, memcpy runs off the mapped pages inside read_data: that is the fault `"page_fault"`, and `file_pos` is not updated.
  - A call through a garbage `fop_ptr` is the fault `"wild_call"`.
  - A `"dir"` entry's `pos` is a history field: the name a private cursor would return next. The code keeps `file_pos = 0` for directories.

How `Terminal` corresponds to the code:
- **`KeyboardHandler(k)`** is one IRQ1 with scancode `k`. It follows the branches of `keyboard_handler` in order:
  - first, the reset of a full index (`keyboard.c:71`);
  - then `ModifierKey` (Ctrl, Alt make and break, including the break of Alt that clears `ctrl_on`), `Backspace`, `Enter` or `PrintableKey`.
  
  `PrintableKey` contains the Alt+F switch, Ctrl+L and the full-buffer return. A switch happens first, so the rest of the branch uses the new `display_terminal`, as in the code.
- **Characters** are abstracted to `"c"` and `"nl"`. `Backspace` chooses nondeterministically whether `screen_x > 0`, because the cursor position is not modelled.
- **Screens.** `ChangeDisplayTerm` saves video memory into the old terminal's backing page and loads the new one's. Each page records only whether it shows text of a terminal other than its own (`video_foreign`, `backing_foreign`). Output that goes to a backing page which is later overwritten is recorded in `output_lost`.
- **`term_read` and `term_write`** are split into the steps between which an interrupt can arrive:
  - `TermReadStart` and `TermReadReturn`, because the read spins on the ready flag;
  - `TermWriteStart` and `TermWriteByte`, because the write chooses screen or backing page once, then writes byte by byte.

How `FileSystem` corresponds to the code:
- **Data as addresses.** A byte is `<<block, index>>`, so a copy is the sequence of addresses memcpy reads. An index of `KB4` or more lies past the block. `FileBytes` is the reference: byte `p` of the file is `<<dblock_numbers[p \div KB4], p % KB4>>`.
- **Arithmetic.** `ReadData` keeps the code's uint32_t arithmetic at width `WIDTH` (5 in the runs), with blocks of `KB4 = 2` bytes and 3 block entries. The wrap of `offset + length`, the unsigned `length_check <= 0` (only 0) and the trim therefore behave as in the 32-bit code. An nbytes of -1 is passed as `2^WIDTH - 1`.
- **Loops.** `SkipBlocks` is the `while(offset > KB4)` loop. `CopyLoop` is the copy loop: full blocks while `block_ct > 0`, then the rest from the current block.
- **Directory lookups.** Names are model values, so "same strlen, then strncmp = 0" is equality. The first matching index wins.

How `Rtc` corresponds to the code:
- **Registers.** `SetRate` is the read-modify-write of register A, `(prev & BITMASK6) | rate`, using the Bitwise operators. `RateTable` is rtc_write's switch. `FreqOfRate` is the reference formula from rtc_open's comment, `32768 >> (rate-1)`. `WrittenFreqTakesEffect` checks the table and the masking against that formula.
- **Interrupts.** `RtcInterrupt` is IRQ8 through pic_handler: rtc_handler calling clear_rtc_read, then `PicHandler`, the acknowledge and `send_eoi(8)`. It fires only while `Ticking` (PIE set by `RtcInit`, rate nonzero) and while `Pic`'s `Deliverable` holds: IRQ8 and the cascade line are unmasked, and no level at or above them is in service. The CPU then enters the stub through the gate at `VectorOf(8)`, the slave's ICW2 base 0x28, in the table `IdtInit` builds (`IdtTable`); if that gate were missing, the interrupt would raise #NP instead and `ReadReturnsWhileTicking` would fail.
- **PICs.** `Init` gives `pic` its value after i8259_init, pit_init's `enable_irq(0)` (`PitInit`) and keyboard_init's `enable_irq(1)`. IRQ0 and IRQ1 are not actions of `Rtc`: their handlers touch no RTC state, and with a correct EOI they leave the PICs unchanged.
- **rtc_read** is split at its busy-wait into `RtcRead` (store `RTC_READ = 1`) and `RtcReadReturn` (the spin sees 0).
- **Processes.** `Execute` and `Halt` grow and shrink the chain of processes. halt closes no descriptor, so the rate a child set outlives it.
- **What is left out.** rtc_write's NULL-buffer path, where `freq` is uninitialised, is not modelled: `write()` refuses a NULL buffer. clear_rtc_read's frequency-stepping branch is dead, because `rtc_count` is never incremented.

## 3. Properties and runs

| Run | cfg | Expect | Checks | What it shows |
|---|---|---|---|---|
| `build` | `Kernel_build.cfg` | pass | `TypeOK`, `QueueHoldsLivePids`, `SyscallPcbIsCaller`, `RunningIsFront`, `ContextOfRunning`, `TerminalOwnership`, `ReadDataCopiesFile`, `ImplementsScheduler` | In the shipped build the ring holds exactly pids 1..count, the newest pid is the one running and at the front, what user mode can reach through the whole page directory is exactly its own 4MB frame at 128MB plus the four display pages (so no kernel page and no other process's frame), its kernel stack is the one in the TSS, terminal ownership holds, and the core refines `ProcessScheduler`. Every file position a descriptor reaches is one where read_data copies exactly the requested bytes, block by block, for every non-negative nbytes. |
| `single_terminal_restart` | `Kernel_single.cfg` | pass | `QueueHoldsLivePids`, `GetargsReturnsCallersArgument`, `ImplementsScheduler` | With one terminal, halt's refuse-and-restart path (`HaltLast`) fires and keeps the queue consistent. It refines the abstract `Restart`. getargs answers as the spec says for the command the caller was started with: the parse, args_initialize in an earlier execute, the slot getargs reads, and its checks agree. This holds across halts that free slots and restarts that refill them. |
| `preempt_rotate` | `Kernel_preempt.cfg` | pass | `TickRotates` | With change_task restored, every tick that does not fault rotates the queue as a sequence. The build's safety invariants are not checked here, because with preemption they fail (see H4 in `PROJECT.json`). Within five steps a process made current by a tick executes a child, and the child's halt binds frame `process_count - 1` and dequeues the front rather than resuming the parent. |
| `read_negative_length` | `Kernel_read_negative.cfg` | violation | `FileReadNeverFaults` | Boot, open the file, read 1 byte, then read with nbytes = -1: `offset + length` wraps below `file_length`, the trim is skipped, and read_data copies 2^32-1 bytes and page-faults. The spec says a file read is never negative. |
| `fd_init_by_value` | `Kernel_fd_init.cfg` | violation | `FdEntriesWellFormed` | New PCBs carry garbage descriptors. |
| `dir_cursor_shared` | `Kernel_dir_cursor.cfg` | violation | `DirCursorPerDescriptor` | All directory descriptors share one static cursor. |
| `no_round_robin` | `Kernel_liveness.cfg` | violation | `EveryLiveProcessRuns` | Without the change_task call the other root shells never run. |
| `terminal_build` | `Terminal_build.cfg` | pass | `TypeOK`, `NoKeyboardOverflow` | Under every key sequence interleaved with reads and writes, no store lands at or past `MAX_KB_BUF`. Only the reset at `keyboard.c:71` protects ENTER. |
| `read_other_terminal` | `Terminal_read_terminal.cfg` | violation | `ReadGetsCallersLine` | term_read takes the displayed terminal's line. |
| `ready_without_line` | `Terminal_ready_line.cfg` | violation | `ReadyMeansLine` | Using only typing keys: ENTER, ENTER, then a key; the wrap leaves the ready flag set over a line with no newline. |
| `rtc_build` | `Rtc_build.cfg` | pass | `TypeOK`, `WrittenFreqTakesEffect`, `ReadReturnsWhileTicking` | The RTC rate always yields the last frequency set, across nested processes. Every rtc_read returns while the RTC ticks, which needs every send_eoi(8) to clear the slave level and the master's cascade line. |
| `write_after_switch` | `Terminal_write_screen.cfg` | violation | `WriteReachesOwnScreen` | A switch during term_write misdirects the remaining bytes. |

Some properties are stated in the modules and fail in a few steps, but have no run of their own. Two concern code that the build does not reach, and the others are slips that a unit test would catch:
- `VidmapNeverFaults` (Kernel): vidmap's range check looks only at the first byte of its 4-byte store, so `vidmap(BOTTOM_PAGE - 1)` page-faults in the kernel (`syscalls.c:661`). The build run reaches that state; TLC finds the property violated after boot and one call.
- `GetargsNeverFaults` (Kernel): getargs compares `argument_length > nbytes` as unsigned, so a negative nbytes passes and memcpy copies nearly 4GB (`syscalls.c:634`). The single-terminal run reaches that state with nbytes = -1.
- `HaltNeverFaults` (Kernel): `exit` in a root shell while other processes are live dereferences a NULL parent pointer (`syscalls.c:57`). Its run gave way to `read_negative_length`.
- `RotateStaysInRing` (Kernel, under `PREEMPT`): `pq_rotate`'s `rear++` stores past the ring.
- `TerminalOwnership` with `NUM_TERMINALS = 1`: the root shell that halt's restart path creates gets terminal -1.
- `ReadReturnsCount` (Terminal): term_read returns 0 when `nbytes <= index`.
- `SwitchOnlyWithAlt` (Terminal): `L_ALT_BREAK` clears `ctrl_on`, so Alt stays on.
- `InputNotDiscarded` (Terminal): the `clear_keyboard_buf` at the end of term_read empties every terminal's buffer. In the build only terminal 0's shell reads, so no other reader loses a line.

`PROJECT.json` lists these among the hazards.

Each property of a passing run has a mutant in `PROJECT.json`. The mutant is a plausible bug in the modelled code, for example:
- a dropped wrap in `pq_enqueue_front`;
- halt without `process_count--`;
- the parent read after the enqueue;
- args_initialize keeping the space, or counting no terminator, and getargs's size check written `>=` (each breaks `GetargsReturnsCallersArgument`);
- `init_4mb_user_pde` without the `>> 22`, or `init_page` giving the kernel's 4MB page the USER bit (both break `ContextOfRunning`);
- `send_eoi` without the cascade EOI, or idt_init without its call for vector 40 (each breaks `ReadReturnsWhileTicking`).

TLC finds each mutant's property violated.

### Bounds

- **Paging:** `PT_0_4 = 0x401000`, a 4KB-aligned address in the kernel's page, stands for the static array's address; only its alignment matters to the MMU.
- **`MAX_PROCESSES = 6`, `NUM_TERMINALS = 3`.** These are the values of the build. The boot loop, the ring wrap of `pq_enqueue_front` (front 1, 0, 5, 4, ...) and the full ring are all reached.
- **`OPS_SIZE = 3`.** This is one user descriptor instead of six. All descriptor properties concern one entry at a time, and an entry's kind does not depend on the others, except through "first free entry". One user descriptor still exercises that choice against the reserved entries.
- **File system:** three directory entries, and a 3-byte file over two 2-byte blocks whose numbers are out of order (5, 2). `WIDTH = 5` gives 32 uint32_t values, so the build's reads of 1, 2 and -1 (31) and the property's lengths 0..15 cover every non-negative int32_t length. File positions 0..3 include the exact block boundary 2, where the skip loop stops one block early, and the end of the file. The directory cursor wraps after three reads. `Kernel_single.cfg` has no user descriptor (`OPS_SIZE = 2`), because its questions are the scheduler and getargs.
- **Terminal: `NUM_TERMINALS = 2`, `MAX_KB_BUF = 2`, writes of 2 bytes, reads of 1 or 3 bytes.** Two terminals are enough for every cross-terminal effect. A two-byte buffer reaches full, the index at `MAX_KB_BUF` and the wrap. Read sizes below and above the line length take both branches of term_read. The process runs on terminal 0, the terminal whose shell is the one that runs in the build (see `no_round_robin`).
- **Rtc: a chain of up to 3 processes, every accepted frequency plus 0, 3 and 2048, and any boot rate with divider 010.** Three processes let a parent's descriptor and a child's coexist and let a rate outlive the child that set it.
- **Single-terminal run: `MAX_PROCESSES = 5`.** Commands: `x` (no argument), `x x` (one argument), `x ` (an empty argument), and two that the parse refuses, ` x` and `x x x`. getargs sizes: 1 (too small for the argument and its NUL), 2 (exactly enough), and -1. With five slots a process with an argument can halt and a process without one take its slot, the last process can restart, and a chain of four children gets past `HaltLast`.
- **Preempt runs (`MAX_PROCESSES = 5`).** These keep the state space small. The rotate overrun needs only the rear to reach the last slot, which happens after one boot and a few ticks.

### Fairness

`Spec` has `WF_vars(Tick)`: once `pit_init` unmasks IRQ0, the PIT interrupts periodically. In the build `Tick` is never enabled. The liveness violation `no_round_robin` therefore shows that the missing call, not a lack of ticks, starves the other shells. No fairness is assumed for system calls, because a user program may never make one.

`Terminal` has no fairness. A person may never type, so no liveness property is claimed for it. Deadlock is checked: a key can always be pressed.

`Rtc` assumes weak fairness of the interrupt and of the spin:
- The RTC interrupts periodically while PIE is set and the rate is nonzero, and the PICs pass the request whenever `Deliverable` holds. The spin inside a system call needs interrupts on, which the entry stub must provide (see section 1).
- The spinning process owns the CPU, because the build does not preempt.

`Rtc_build.cfg` turns deadlock checking off. After rtc_write(0), a rtc_read really never returns: the CPU spins on a flag that nothing clears.

Deadlock checking is off in every Kernel cfg, because a state with a fault really has no successor: `idt_handler` spins with `hlt`.

`Kernel` also carries an ASSUME, checked on each of its runs: step 1 of execute (`ParseOk`) refuses the command lines that `testCP3_execute` (`testcode.c`) expects to fail at the parse (`""`, four spaces, `"lots of words and spaces"`) and accepts the one-word lines that it expects to get as far as the file lookup.

## 4. Not modelled (yet), and the plan

Next steps:
1. Execute and halt **split at the points where a tick can arrive** (after an `sti` inside the call), under PREEMPT.
2. `Terminal` composed with `Kernel`, with the process's terminal taken from `pq_get_active_term()`. In the build this adds nothing: change_task is never called, so the process on the CPU is always one of terminal 0's chain, which is the constant `Terminal` already assumes. It would matter only together with step 1, when the terminal of the process on the CPU changes between the bytes of a call.

The project has 12 runs, the most the checks accept. A new question therefore means retiring a weaker run. For example, `dir_cursor_shared` could give way to `InputNotDiscarded` once terminals other than 0 run.

Left out:
- saved registers and the `esp`/`ebp` inline assembly (abstracted to "resume the parent");
- the CR0/CR3/CR4 writes of `init_page` (assumed to enable paging with 4MB pages), and `copy_4kb_page`/`get_backing_page`, which `Terminal` reduces to which page holds whose output;
- `disable_irq` (its only caller, `keyboard_disable`, is never called);
- the divisor `pit_init` writes to the PIT. It only sets how often IRQ0 fires, and pit_handler does nothing. Its argument comes from `kernel.c`, which is not in the repository, so whether it fits in 16 bits cannot be checked;
- requests on IRQ5, IRQ7 and IRQ9. i8259_init leaves these lines unmasked, but idt_init installs no gate for vectors 37, 39 and 41, so such a request (for example a spurious IRQ7) would end in #NP and the `idt_handler` spin. No device the kernel programs raises them, so they are a hazard in `PROJECT.json`, not a run;
- the handler.S stubs, which are not in the repository. `Idt` takes each `handler_irqk` to call pic_handler with `int_num = k`, as pic_handler's switch requires;
- the PICs in `Kernel` and `Terminal`, whose IRQ0/IRQ1 steps assume the EOI works (`Rtc` checks that protocol for IRQ8);
- the signal stubs (they return -1), the program lookup, ELF check and loader of execute (early returns and copies into user memory), and commands long enough to overflow `command[128]` or `program_name[33]` (see the hazards);
- the rest of `testcode.c`: the other routines print file-system metadata and test results, or do nothing, and change no state.
