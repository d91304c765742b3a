# Geniux in TLA+

Geniux is a small teaching kernel for 32-bit x86: a boot loader, a preemptive
round-robin scheduler with kernel threads, semaphores and recursive locks, page
and block allocators, user processes, a keyboard queue, a console and a polling
and interrupt driven IDE driver. It runs on one CPU, so everything that is hard
about it comes from interrupts: the timer takes the CPU away between any two
instructions that run with interrupts enabled, and device handlers run there
too. This directory holds TLA+ specifications of it, TLC configurations and
TLAPS proofs.

## 1. The system

| component | state | operations | meets others through |
|---|---|---|---|
| scheduler, `thread/thread.c` | `thread_ready_list`, `thread_all_list`, PCB status, slice and saved flag | `schedule`, `thread_block`, `thread_unblock`, `thread_yield`, `thread_start`, `idle` | every blocking call; the timer handler |
| locks, `thread/sync.c` | semaphore value and waiters, lock holder and count | `sema_down`, `sema_up`, `try_lock`, `try_release` | calls the scheduler; called by console, memory, disk, pid |
| timer, `device/timer.c` | global `ticks`, the running slice | `intr_timer_handler`, `ticks_to_sleep`, `mtime_sleep` | `schedule`, `thread_yield` |
| interrupts, `kernel/interrupt.c`, `kernel/kernel.S` | descriptor and handler tables, the CPU's flag | `register_handler`, `intr_enable/disable/set_status`, the entry stubs | wraps every handler |
| lists, `lib/kernel/list.c` | two links per element | `insert`, `append`, `push`, `remove`, `pop`, `find`, `traversal` | ready list, waiters, free blocks, partitions |
| bitmaps, `lib/kernel/bitmap.c` | the bits | `bitmap_scan`, `bitmap_set` | page and address pools |
| memory, `kernel/memory.c` | two page pools, address bitmaps, page tables, arenas | `malloc_page`, `get_a_page`, `sys_malloc`, `sys_free`, ... | thread and process creation, disk buffers |
| io queue, `device/ioqueue.c` | ring, head, tail, waiting producer and consumer | `ioq_getchar`, `ioq_setchar` | filled by the keyboard handler |
| keyboard, `device/keyboard.c` | modifier flags | `intr_keyboard_handler` | io queue |
| console, `device/console.c`, `lib/kernel/print.S` | the hardware cursor | `put_char` and its users | `console_lock`; handlers print without it |
| disk, `device/ide.c` | channel lock, `expecting_intr`, `disk_done`, partition tables | `ide_read`, `ide_write`, `identify_disk`, `partition_scan`, the handler | semaphores, `sys_malloc`, `mtime_sleep` |
| processes, `userprog/` | page directories, TSS `esp0` | `process_execute`, `start_process`, `process_activate` | called by `schedule` at each switch |
| system calls, `userprog/syscall-init.c`, `lib/user/` | the table | `getpid`, `write`, `malloc`, `free` | console, memory |

What makes each correct, and what is hard about it:

* Scheduler: one running thread; every other live thread is queued or
  stopped; the interrupt flag follows the thread through a switch; no starvation
  although a woken thread jumps the queue. Hard: the PCB is published in
  several steps, the flag lives on the stacks, idle has to be there when
  nothing else is.
* Locks: exclusion, exact nesting, no lost wake-up. Hard: the holder and the
  count are read and written with interrupts enabled, and a woken thread
  competes again with threads that never slept.
* Memory: no page or block handed out twice, none lost on an error path. Hard:
  the partial failures, callers that do not take the pool's lock, and a
  `bitmap_set` that writes a whole byte back.
* Io queue and keyboard: no character lost or overtaken, no modifier that
  sticks. Hard: one side is an interrupt handler, which must not wait.
* Console: texts whole and one after the other. Hard: a character takes eight port
  accesses on one shared index register, and a panic prints without the lock.
* Processes: everybody in his own address space, on his own kernel stack and
  with his own interrupt flag. Hard: all three are the CPU's, are switched at
  different places, and a system call may block with interrupts masked.
* Stack frames: the CPU, the stubs, `switch_to` and the structs of `thread.h`
  agree word by word. Hard: a mistake shows in one exception or one register.
* Lists: each list stays a sequence. Hard: `push` and `pop` read before they
  mask interrupts, and `find` walks without masking them at all.
* Disk: each command paired with its own interrupt and its own answer. Hard:
  the interrupt may come before the thread sleeps, or late, from a command
  nobody waited for.
* Partition scan: every partition found once. Hard: fixed arrays and globals
  filled by recursion over data on the disk.

The full list of hazards, each at its line, is `PROJECT.json` "hazards".

## 2. The modules

Only one thread executes at a time, so a module's atomic step is a stretch of
code that nothing can interrupt, or a single access to shared state where
interrupts are enabled. `cur` and `intr` in `Sched` say who may step;
the modules for memory, disks and the keyboard leave the scheduler out, let any
thread step next, and rely on what `Thread` and `Sync` show: every ready thread runs again
(`ReadyThreadRuns`), and a lock is an `AbstractLock` (`ImplementsLock`).

```
Sched -- Thread -- Process              threads, then processes and system calls
   \---- Sync ---refines---> AbstractLock
                                |--- List ----refines---> AbstractList
                                \--- Console -refines---> AbstractConsole
Frames                                  stack frames, gates and vectors
BitmapOps                               the scan against its reference definition
   |-------- PageAlloc                  pages, frames, tables, two pool locks
   \-------- Arena                      blocks inside pages
Ide                                     channels, drives, interrupts
Partition                               partition_scan as a function of the disk
Keyboard                                scan codes, io queue
Text                                    string.c, stdio.c, put_int as functions
BitmapOps, Text, Partition -- Data      each asked about every input
```

`Sched`, `BitmapOps`, `Frames`, `Partition` and `Text` are operators or properties of data
without a specification of their own. `Data` has one: `input` is what a function is `asked`, and a
property says that it answers right. `List` and `Console` take their locks from
`AbstractLock`, which `Sync` is shown to implement. The `MC` modules combine modules and define
constants that a configuration cannot write down: `MCProcess` is `Process` with `Frames`,
`MCData` is `List` with `Data`, whose input is in the initial state; `MCThread`, `MCSync`,
`MCPageAlloc`, `MCArena`, `MCKeyboard` and `MCConsole` add functions, bounds and symmetry sets.
The theorems are in
`SchedProofs` (the operators of `Sched`), `ProcessProofs` (`Thread`, `Process` and `List`),
`SyncProofs`, `DataProofs` (`Data`), `PageAllocProofs`, `ArenaProofs`, `ConsoleProofs` and
`DeviceProofs` (`Ide` and `Keyboard`). The definitions of `Keyboard` and `List` that other
modules have too (`KeyboardInit`, `ListSpec`) carry the module's name, so that one module can
extend both.

### Sched, Thread (`thread/thread.c`, `device/timer.c`, `kernel/interrupt.c`)

| TLA+ | code |
|---|---|
| `ready_list`, `all_list` | `thread_ready_list`, `thread_all_list`, as sequences of PCBs |
| `status`, `ticks` | fields of `task_struct`; `"FREE"` is a page that is no PCB yet |
| `cur` | `running_thread()` |
| `intr`, `saved` | the CPU's flag, and the flag the stack of a suspended thread restores |
| `idle_pc` | `idle`'s loop: about to block, about to execute `sti`, halted |
| `panic` | an `ASSERT` or `PANIC` has called `panic_spin`; nothing runs again |
| `creating`, `start_pc` | a `thread_start` call that has been preempted |
| `masked` | ghost: the thread's own code has called `intr_disable` |

`schedule`, `thread_block`, `thread_unblock` and `thread_yield` are operators
with the code's branches and assertions, used by every action that ends in
them. `TimerIntr`, `IdleBlock`, `IdleHlt` are actions. In `Thread` the clients
are threads that do whatever the interface allows, in any order, instead of the
test threads in `main.c`.

What is abstracted: allocating and filling the PCB in `thread_start`
(`get_kernel_pages`, `init_thread`, `thread_create`) is the step `StartInit`;
the `intr_enable` at the start of `kernel_thread` is the initial `saved = "ON"`;
`process_activate` is in `Process`. The assertion walks over a list (`find`) are
one step here, although in `thread_start` they run with interrupts enabled:
`List` shows what a walk finds that is preempted (`FindRight`).

### Process (`userprog/process.c`, `userprog/tss.c`, `kernel/kernel.S`)

`Process` extends `Thread`: each of its actions is one of `Thread`'s together with
what it does to `pgdir`, `mode`, `exec`, `cr3` and `esp0`, or one of its own.

| TLA+ | code |
|---|---|
| `pgdir[t]` | the PCB's page directory, named by its owner; `None` for a kernel thread |
| `mode[t]` | a kernel thread, a process before `start_process` has run, user code, or a system call |
| `exec[t]` | where `t` stands in `process_execute`; its calls in `main.c` are commented out and are allowed here |
| `cr3`, `esp0` | the active page directory and the TSS's stack |
| `process_activate` | what every `schedule` that switches does before `switch_to` |
| `start_process`, `syscall_handler`, `SyscallReturn` | into user mode; `int 0x80`; `intr_exit` |

`create_page_dir`'s branch for NULL (`process.c:54`) is not modelled, for it is never taken:
`get_kernel_pages(1)` halts in `bitmap_scan` when memory is out (`bitmap.c:26`) and does
not answer NULL. Running out of memory is the subject of `PageAlloc` and `Arena`; of the
threads here `NoPanic` says that nothing stops the machine. That covers the assertion of
`get_a_page` about `pgdir` as well: `process_execute` queues a process only when its
directory is made. User code takes no step of its own: what it does in its own address space
is seen by nobody else.

### Frames (`kernel/kernel.S`, `thread/switch.S`, `thread/thread.h`, `kernel/interrupt.c`)

A machine is its registers and the kernel stack; a value is its kind and its
name, so a word that comes back in the wrong place is seen. The stubs,
`intr_exit`, `syscall_handler` and `switch_to` are translated push by push, the
structs are sequences of field names, the CPU's part (`Raise`, `iretd`, `popad`) is
external. All of this is straight-line code with interrupts masked, so it is
checked as functions (`FramesAgree`): an interrupt of any vector but 30 leaves the
interrupted code as it was, a system call changes `eax` only, `start_process`'s
frame leads to user mode, a switch comes back where it left, and every
exception and every open line of the 8259A reaches its own stub. Vector 30's stub pushes no 0
for an error code (`kernel.S:81`), which is right on a processor that has this exception
and wrong on one that has not: `Processors` has both kinds, and `InterruptTransparent` says
that the stub is transparent on the first and on no other.

### Sync, AbstractLock (`thread/sync.c`)

`sema_down` is atomic up to its `thread_block` and from its wake-up
(`DownWoken`) to the next test, because it masks interrupts. `try_lock` and
`try_release` do not, so each read and write of `holder` and
`holder_repeat_nr` is an action, and `pc` names the place. `depth` is a ghost:
what the caller believes it holds. Clients pair their calls and
take no second lock while they hold one, as every caller in `src/` does; a
holder may take his lock again.

`AbstractLock` is what `sync.h` offers: an owner, and how often he has taken the
lock. `Sync` implements it with `owner` = the thread between the end of its
`sema_down` and the end of its `sema_up`, which is not the field `holder`.

### BitmapOps (`lib/kernel/bitmap.c`)

A bitmap is the set of its 1 bits, including those behind its end, because the
scan for more than one bit reads one of them. The three loops are three
operators. `ScanRight` compares the answer with a definition that does not mention
loops; `Data` asks it of every content of a map of `MapBytes` bytes and of the byte behind it.

### PageAlloc (`kernel/memory.c`, pages)

`bits[m]` are the four kinds of bitmap, `pt` the page table entries, `table` the page-directory
entries of processes, `holder` the two pool locks (held as in `AbstractLock`), `owned` a ghost
of what callers have. A frame or address is its bit number. Nothing masks interrupts in this
code, so each access of something shared is a step: a scan; each `bitmap_set`'s read of
its byte, which goes to `copy`, and its write of that byte (`Mark`, `MarkWrite`, ...; a run's bits
are set one after the other); the test of a page table entry (`page_table_add`) and its write
(`Map`); and `mfree_page` likewise, which writes back as they were the bytes whose bits it means
to clear. Processes do all this under the user pool's lock. `get_kernel_pages` takes no lock,
and a process's page table takes a frame of the kernel's pool under the other pool's, so
that in the kernel's maps a stale byte may be written over a fresh bit, and a kernel thread
may overwrite an entry that it has found empty. `MappedMarked` is therefore about processes,
and `RunsDisjoint` about the runs of `sys_malloc`, which hold their lock from the test to the
write; nothing is claimed of the pages that `get_kernel_pages` gives. Left out: a
scan's own loops (an unlocked scan that is preempted between two bytes may also answer a bit
that has been taken since, which to its caller is as if it had lost the CPU after the scan);
what a lost frame's second user writes into a page table that lies in it; the failure path at
`memory.c:369` and the early return at `memory.c:417`, which no call reaches, because
`palloc`'s scan for one bit of a full map stops the machine (`bitmap.c:26`) instead of
answering -1.

### Arena (`kernel/memory.c`, blocks)

Addresses are counted in bytes from the heap's start, so overlap can be stated.
`arena[p]` is the header in page p, `free_list[d]` the list of descriptor d; the
links lie in the free blocks. Of the frames only their number is kept (`frames`); which one a
page gets is `PageAlloc`'s subject. `malloc_page` under the lock is one step, since what can come
between its steps is in the actions beside the lock: `get_kernel_pages`, whose marks, and with
them other marks of the same bytes, may be lost (`unseen`, remembered in `raced`), and
`TakeTable`, a frame for a process's page table. `HaltInMalloc` has the three places where
`sys_malloc` halts: the scan of a full address map, `palloc` without a frame for one of
the run's pages, and `page_table_add` at a page that is mapped though its bit was
clear. A page that a race gives both to an arena and to `get_kernel_pages`
(`memory.c:335` passed before the other's write) is not modelled here, nor what is
overwritten then; `PageAlloc` has the steps of that race. Block sizes, header and page size are
constants that keep the code's arithmetic; the run uses small ones. `Without` is `list_remove`
of all blocks of an arena.

### List, AbstractList (`lib/kernel/list.c`)

`next` and `prev` are the links of elements and sentinels. A step is what nothing can interrupt:
`insert` and `remove` mask interrupts, but `push` reads `head.next` for its argument and `pop`
for its result before that, and `find` reads one link at a time. `Callers` hold a lock of the
list's for `push`, `pop` and `remove`, as the memory allocator does and as masked interrupts do
in `thread.c`; `append` needs none, and the model allows it at any moment. `AbstractList` is a
sequence to each list; `Spelled`, what the forward links spell from head to tail, is the
refinement mapping. `find`'s caller owns the element and it has been on no list, as in
`thread_start`.

### Text (`lib/string.c`, `lib/stdio.c`, `put_int` of `print.S`)

Functions on sequences that end in 0. `char` is signed, which the functions see
where they compare; digits are numbers; an int has `HexDigits` hexadecimal digits, 8 in
the code. `While` is where a loop that steps a pointer stops. The functions are stated to be right
against each other and against the value of a numeral, over all strings and
numbers in the bounds.

### Console, AbstractConsole (`device/console.c`, `lib/kernel/print.S`)

`put_char` is eight accesses of the index and the data port of the VGA
controller and one step that draws and scrolls; the two halves of the cursor
are separate registers. `panic_spin` may run in a handler at any moment, prints
without the lock and never returns, so it is one step. Its report is a sequence of lines, some of
them empty, each ended by a line feed, as `debug.c:7` to `debug.c:12` print them behind a first line
feed: `put_str` and `put_lines` fold `put_char` over them. `AbstractConsole` is a
terminal of lines that shows one text after the other; the cursor of the
refinement counts as moved as soon as the character is drawn. Left out: CR,
which is handled as LF, and a backspace at the first cell, which no caller prints.

### Ide (`device/ide.c`, `kernel/interrupt.c`)

`selected`, `drive` and `irq` are the hardware's side of a channel, `expecting`,
`disk_done` and `holder` the driver's. The drive is external: it becomes ready,
fails, or stores data, and requests its interrupt; one transfer and one
interrupt to a command, as the driver assumes: true of the commands in `src/`, which
move one sector each (`sec_cnt` 1), but not of a longer write, which a drive
answers with an interrupt for each sector. Reading the status register
lowers the line. `main` runs `ide_init` with interrupts masked, but while it is blocked in
`sema_down` idle runs and has them enabled (`IntrOn`). The sector count loop
and the sectors of a scan are a bounded number of commands (`MaxOps`).

### Partition (`device/ide.c`)

`partition_scan` runs in `ide_init` alone, so it is a function of what is on the disk: `Layouts`
are the boot record's four types, with two extended partitions at most, and the extended records
they lead to. One of these records may have its link in front of its partition, or else the first
may have lost its partition. The three globals, the two arrays, the list's names and the
buffers in use are the record it returns. The recursion is a function of the calls' depth, which
`MaxChain` bounds since the records of a layout are finitely many. After the return at the
eighth logical partition (`ide.c:253`) the calls above it go on with their own entries: behind a
link they may find another partition, and a second extended one leads to more. `logic_parts`
is a sequence, so that such a ninth partition shows as its ninth element; what `ide.c:247`
then overwrites behind the array is left out. `ScanFinds` states exactly which partitions are
listed and which buffers kept (`Logicals`), and that on `Plain` disks, those with one extended
partition and no link before a partition, `logic_parts` never gets a ninth. The
second extended partition's start is read relative to the first's, as the code does
(`ext_lba_base` is not 0 any more), and the layouts have a record there. Circular chains, on
which the code recurses for ever, and several links before partitions are left out.

### Keyboard (`device/keyboard.c`, `device/ioqueue.c`)

`wire` holds the bytes the handler has not read. Keys are pressed, repeat, and are
released in any order. The keyboard may send fake shift codes around those of a grey key
(`Before`, `Behind`), or not, as keyboards and states of num lock differ. The
handler drops their prefix (`keyboard.c:119`) and takes them for the left shift key's:
`fake` says that the last code of shift was such a make code, which is the exception
that `NoStuckModifier` states. A character is the number of its key stroke, so that
order and loss can be stated; which of a key's two characters it stands for is
left out. Of the grey keys the ones are modelled that the handler takes for a
character; the fake codes are those of all of them. `keyboard.c` calls
`init_ioqueue` and `ioq_putchar`, which do not exist; they are taken to be
`ioqueue_init` and `ioq_setchar` of `ioqueue.c`.

## 3. The runs

| run | what it shows | instance, and why it is enough |
|---|---|---|
| `process` | queue, statuses, slices, queue order, address spaces, kernel stacks, flag, nothing stops the machine, no deadlock, no starving thread; frames | main, idle and 2 free pages, each a kernel thread or a process; slices of 1 or 2 ticks: preemption at and before the end of a slice, in user mode and in kernel mode, two creators at once, woken threads overtaking |
| `thread_yield` | violation: `thread_yield` stops the machine | `Thread` with as many threads |
| `sync` | exclusion, nesting, no lost wake-up, flag, refinement, a free lock is taken | 3 contenders for one lock: an owner, a woken waiter and one who barges in; nesting to 2 |
| `page` | user frames exclusive, processes' pages marked, runs of `sys_malloc` apart, locks given back | 2 kernel threads with and without the lock, 2 processes, at most 2 of them inside a call at once (`MaxBusy`), maps of one byte of 2 bits: every map fills up, requests for 2 pages fail in the middle, and every two bits of a map share a byte that another thread may write back |
| `page_shared` | violation: one kernel frame for two uses | 2 kernel threads |
| `page_freed` | violation: freed frames are lost | 2 kernel threads |
| `arena` | no overlap, nothing used unmapped, counts agree, halts only for memory | 2 threads beside `get_kernel_pages` and page tables, 2 block sizes with 2 and 1 blocks to an arena, runs of 2 and 3 pages, a map of 3 pages: addresses run out, frames run out first, and a raced page is met |
| `ide` | own data, no leftover interrupt, every wait ends | `ide_init` of a channel, then 2 threads on 2 disks with calls of up to 3 commands |
| `ide_second` | violation: channel 2 never answers | 2 channels |
| `keyboard` | no modifier sticks but for the fake shift, oldest character first | 5 keys (a grey one, both of a pair, an extended one, caps lock), 4 bytes on the wire, ring of 3, 5 characters: the ring fills up and wraps |
| `data` | lists are sequences, walks find right; strings, numerals, `bitmap_scan`, `partition_scan` | 2 threads, 2 lists, 3 elements: first, middle, last, and elements that change lists; 2 characters and a byte above 127, strings to 2 in pairs and triples; ints of 2 hexadecimal digits, all of them, and formats of three pieces; 2 bytes of 3 bits and one behind, runs to 3; all boot records with two extended partitions at most, 9 extended records: both arrays fill up, and `logic_parts` beyond its end |
| `console` | one text after the other, a panic's report readable | 2 threads, 3 lines of 3 cells, registers that hold 0 to 3, so that stepping from cell 7 to 8 changes both halves; texts that wrap, scroll, step back; a panic between any two accesses, also while the cursor points behind the screen |

Named bounds: `MaxNesting`, `MaxRun`, `MaxPages`, `MaxBusy`, `Sizes`, `MaxHeld`, `MaxTaken`,
`MaxOps`, `MaxTyped`, `MaxWire`, `MaxLen`, `MapBytes`, `MaxChain`, and `HexDigits`, the width of
an int. Each limits what clients ask for, how many of them ask at once, or how much data there
is, never what the code does with it. `MaxBusy` is a constraint of run `page` only: the proofs
are about any number of threads inside calls.

`CHECK_DEADLOCK FALSE` is set where the system can stop: an assertion fails when
a pool is full (`page*`, `arena`), a failed disk stops the machine (`ide`), a panic has
printed (`console`), the last character of the bound has been typed (`keyboard`), a walk has
ended (`data`). `process`, `sync` and `thread_yield` check deadlock.

`TypeOK` of `Arena`, `PageAlloc`, `Ide` and `Keyboard` (`KeyboardTypeOK`) documents the
variables; the runs check it for `Process` only, where a slice that wraps below 0 would violate
it.

### Fairness

* The timer (`SF` in `Process` and `Sync`): the 8259A latches its request, so a
  flag enabled again and again lets it in.
* idle, `thread_start`, `process_execute` and the calls of `sync.c`:
  straight-line code (`WF`).
* A section that masks interrupts, and a system call, ends (`WF`, and in `Sync`
  `SF`); without this one thread could mask interrupts for ever and the kernel
  could not help it.
* `Ide` gives each thread's step `WF`: it is a ready thread of `Thread`, and those
  run. Its lock needs no `SF`, since only the end of a wait for an interrupt is
  stated, and only a thread with the lock is in one.
* A disk answers (`WF`), and a requested, unmasked interrupt is taken (`WF`).
* No client has to call anything, take or give back a lock, press or read; user
  code need not do anything at all.

### Violations

1. `thread_yield`: the caller puts itself on the ready list and enters
   `schedule` still `TASK_RUNNING`, because `thread.c:199` assigns the status to a
   local; the assertion at `thread.c:125` fails. `mtime_sleep`, and so a busy disk,
   stops the machine.
2. `page_shared`: `get_kernel_pages` without the lock lets two threads take one
   frame. They may also find one address: then the slower one halts in
   `page_table_add`, or, if both have tested the entry before either writes it, both use
   the page.
3. `page_freed`: `bitmap_set(.., 0)` clears nothing; freed pages stay taken.
4. `ide_second`: the slave 8259A's mask 0xbf opens IRQ 14 only; `ide_init` on the
   second channel waits for ever.

Met while modelling, and visible in the definitions, without a run of their own:

* `bitmap_set` changes a byte by reading it, changing it and writing it back (`bitmap.c:69`). Where
  `get_kernel_pages`, or `page_table_add` under the other pool's lock, does so beside
  `sys_malloc`, marks are lost; `MappedMarked` and `RunsDisjoint` say what is left.
* `VECTOR 0x1E, ERROR_CODE` (`kernel.S:81`) relies on an error code that only some
  processors push. User code cannot reach the vector (`VectorsReached`), no line of the
  8259A has it, and `src/` never raises it.
* The handler takes a fake shift code for the left shift key: it drops the prefix
  (`keyboard.c:119`) and sets the flag (`keyboard.c:164`) with no shift key held
  (`NoStuckModifier`).
* After the return at the eighth logical partition (`ide.c:253`) the calls above it may go on and
  write `logic_parts` behind its end (`ide.c:247`); a second extended partition is looked for
  relative to the first (`ide.c:225`).

* `bitmap_scan` for several bits tests the bit behind the map (`bitmap.c:41`, `Seen` in
  `BitmapOps`), so a run may end one bit too far; asked of a full map it halts instead of
  answering -1 (`bitmap.c:26`).
* `schedule` tests the ready list before it requeues the preempted thread, so
  idle is woken, and runs, although that thread could (`thread.c:119`).
* `ioq_wait` compares where it should assign (`ioqueue.c:28`): a reader of an empty
  queue is never recorded and sleeps for ever with the queue's lock.
* `ioq_full` misses a full ring whose head is in the last slot and tail at 0
  (`ioqueue.c:17`): the ring becomes empty. `OldestFirst` states exactly this
  exception.
* `busy_wait`'s time limit is lowered by the result of a comparison, 1, and not
  by the 10 ms it means to wait (`ide.c:101`); as its pause calls
  `thread_yield`, a disk that is busy when it is first asked stops the machine.
* The high byte of the timer's reload value is cast away before it is shifted
  (`timer.c:43`), so the timer is faster than `IRQ0_FREQUENCY` says.
* `ide.c:243` tests `p_no < 4` after the increment: a fourth primary partition, which
  the array and its comment allow, stops the machine (`PartitionsFound` states the
  exception). The return at the eighth logical one (`ide.c:253`) keeps its call's
  buffer. `ext_lba_base` is never reset; only one disk's scan is ever reached.
* `process_execute` does not look at what `create_page_dir` returns (`process.c:82`), and
  need not: `get_kernel_pages(1)` halts where it should answer NULL, so `process.c:54` is dead.
* A walk over the ready list goes astray when the element under it has moved to
  another list; only a thread's tag does so (`FindRight` states the exception).
* There is no `VECTOR 0x60` in `kernel.S`: from there on `intr_entry_table` is one
  short, which the gates in use do not notice (`VectorsReached`).
* `general_intr_handler` calls `set_cursor` (`interrupt.c:99`), which expects its argument in
  `bx` and ends in `put_char`'s `popad` and `ret`; what happens then is not modelled.
* `strch`, `strrch` and `strchrs` never find a byte above 127: they compare a
  signed `char` with the `uint8_t` they were given (`StringsRight`).
* `vsprintf` stores no terminating 0 and relies on zeroed buffers; `identify_disk`
  passes a format with `%s` and no argument.
* `thread_create` subtracts the frame's size in units of `uint32_t` and leaves `edi`
  unset, which nothing relies on (`SwitchResumes`).

## 4. The proofs

TLC's runs above are on small instances; the theorems hold for any number of
threads, semaphores, locks, priorities and nesting, for maps of any number of
bytes of any number of bits, pages, blocks and headers of any size, strings of any
length, ints of any width, chains of boot records of any length on plain disks, and screens
of any size. They assume only what the modules state, and TLC evaluates on every
run:

* `SchedAssumption`, `NoneAssumption`, `SyncAssumption`: idle and main are two different
  threads, priorities fit in a byte, the NULL holder is no thread, every lock has a semaphore;
* `IdeAssumption`: the workers are distinct, one or two channels;
* `KeyboardAssumption`: keys are the modifiers, caps lock, characters and grey keys; the ring has
  two slots or more, the NULL consumer is no thread;
* `ByteBitsAssumption`, `PageAllocAssumption`: maps are not empty, kernel threads,
  processes and the names of the maps are all different;
* `ArenaAssumption`, `BlockAssumption`: sizes are positive, a link fits into every
  block, and a page holds its header and at least one block, as `block_desc_init`'s 16
  to 1024 bytes do in 4096;
* `ListAssumption`: there are finitely many elements, elements and sentinels are different, NULL
  is none of them and no thread;
* `ConsoleAssumption`: the screen has a cell and a second row, and a text has a
  character before each backspace and no two backspaces in a row. No caller in `src/`
  prints a backspace at all: the keyboard's characters only go to the io queue;
* `ReportAssumption`: the report's lines contain neither a line feed nor a backspace, and they
  fit on the screen with the cursor below them, those that wrap included. `panic_spin` prints 15
  lines on 25 rows of 80 cells; the longest condition of an `ASSERT` in `src/`, at
  `memory.c:224`, takes two rows;
* `TextAssumption`, `PartitionAssumption`, `DataAssumption`: characters are bytes other than
  0, an int has a digit, the bounds are numbers, the extended partition does not begin at sector
  0 and its records are two sectors or more apart, since each has its partition behind it.

| theorem | establishes |
|---|---|
| `ProcessProofs!TypeCorrect`, `QueueCorrect`, `NoReadyThreadLost`, `MaskCorrect`, `AllThreadsListed` | types, queue, flag and lists for `Thread!Spec`, where nothing stops the machine |
| `ProcessProofs!ProcessQueues`, `NoAssertFails` | the same with processes and system calls: nothing stops the machine |
| `ProcessProofs!AddressSpaceActive`, `KernelStackNamed`, `FlagKept` | own address space, own kernel stack, own interrupt flag, through every switch |
| `ProcessProofs!SlicesKept`, `QueueInOrder` | no preemption before the end of a slice; ready threads keep their order, and only a stopped thread that is woken overtakes |
| `SyncProofs!TypeCorrect`, `QueueCorrect`, `NoPanicEver`, `MaskCorrect` | the same for `Sync!Spec` |
| `SyncProofs!Exclusion`, `TokenCorrect`, `NestingCorrect` | the lock excludes, and its value, holder, count and its callers' own counts agree |
| `SyncProofs!WaitersCorrect`, `NobodyLostEver`, `WakeupsKept` | who is blocked is on the one right list, and a semaphore that is up has woken a waiter if it has any |
| `SyncProofs!LockImplemented` | `Sync!Spec` implements `AbstractLock!Spec` |
| `DataProofs!ScanCorrect`, `BitmapsCorrect` | `bitmap_scan` answers the lowest clear run among the bits it looks at, for every map and every run asked for |
| `DataProofs!ScanOne`, `ClearBit`, `FullMap`, `ScanRun` (lemmas) | a scan for one bit answers a clear bit of the map, fails only when there is none, and a run that it answers is clear |
| `DataProofs!StringsCorrect` | the string functions agree on ends, order and characters, for strings of any length |
| `DataProofs!NumbersPrinted`, `PrintedCorrect` | `itoa`, `put_int` and `%d` print each number's numeral, and `vsprintf` hands each conversion its own argument |
| `DataProofs!PlainDisksScanned` | `partition_scan` finds what is on a plain disk, each partition once, and writes no ninth logical one, for chains of any length |
| `PageAllocProofs!MappedIsMarked`, `UserFramesOnce`, `RunsApart`, `LocksComeBack` | the invariants of run `page` |
| `ArenaProofs!NothingOverlaps`, `UsedIsMapped`, `BlocksCounted`, `OnlyMemoryHalts` | the invariants of run `arena` |
| `ConsoleProofs!TerminalImplemented`, `CursorOwned` | `Console!Spec` implements `AbstractConsole!Spec`; what each port access relies on |
| `ConsoleProofs!ReportCorrect` | a panic's report can be read, wherever the panic strikes |
| `DeviceProofs!TypeCorrect`, `OwnDataMoved`, `NothingIsLeftOver` | the invariants of run `ide` for any number of threads and any length of calls, on one channel or two |
| `DeviceProofs!InterruptExpected` | an interrupt that is let in was announced, and finds no token |
| `ProcessProofs!ListsImplemented`, `FindCorrect` | `ListSpec` implements `AbstractList!Spec`; no walk finds an element that is on no list, nor leaves the list unless an element has moved |
| `DeviceProofs!NoModifierSticks`, `OldestTaken` | the properties of run `keyboard`, for rings of any size |

**The scheduler.** `SchedProofs` proves what the operators do to the queue.
`Queued(rl, st, U)` says that the list `rl` holds exactly the READY threads of
`st`, but for those in `U`, each once. `UnblockQueued`, `SwitchToQueue` and
`ScheduleQueue` carry it through `thread_unblock`, the switch and `schedule`:
in particular `schedule` always finds a thread, because idle is either READY,
and then queued, or BLOCKED, and then woken. `U` is for PCBs that are published
but not yet queued: `thread_start` sets READY in one step and appends in
another. `IInv` of `ProcessProofs` adds that each such PCB belongs to exactly one
call (`StartInv`), and follows the interrupt flag of every suspended thread on
its stack (`MaskInv`): `MaskRestored` speaks of the running thread only and is
not inductive without it.

**Processes.** The second part of `ProcessProofs` does not prove the scheduler again: every
action of `Process` but four is a step of `Thread`, which keeps `IInv`, with
`process_activate` after it (`ScheduledStep`). `process_execute`'s own steps and the
changes of mode are shown to keep `IInv` directly; `ExecuteList` differs from
`thread_start` in that both lists grow in one step. `PInv` adds `ProcInv`: who has which
directory in which mode (`ModeInv`), what `process_execute` is still to do
(`ExecInv`), and that the active directory is the running thread's and, if it has one, so is `esp0`
(`ActiveInv`). The last clause is what `OwnKernelStack` lacks: a
kernel thread leaves `esp0` as it is, so it has to be right again at each switch to a process.
That `start_process` never finds its `pgdir` NULL, where `get_a_page` stops the machine, is
`DirInv`: a process without a directory is in the hands of the thread that is making it, so that
it is on no list yet and does not run. That
interrupts are on in user mode and off in a system call (`FlagByMode`) follows from `masked` in
each mode and the scheduler's `MaskInv`. `PreemptedAtSliceEnd` and `FirstComeFirstServed` are
about steps, and are proved from `PInv` in the state before: `schedule` is reached
with a RUNNING thread only from the timer's handler, which has just seen its slice
end, and every operation on the queue either cuts off its head, appends, or puts
a stopped thread in front (`BeforePop`, `BeforeAppend`, `BeforePush`).

**The lock.** `SyncProofs!IInv` is `Ready /\ CallTypeOK /\ Wait /\ LockInv /\ MaskInv`.
`MutualExclusion` needs nearly all of it. A thread leaves `sema_down` because `value` was 1, so
`value` has to stand for an owner (`Token`); the owner reaches `set_holder` with nothing in
`holder` and `holder_repeat_nr` (`Knows`, what each label knows of the two fields), or the
assertion at `sync.c:51` fails; he releases with a count that is his own (`Counted`). That a
thread is blocked exactly while it is among the waiters (`Wait`) is what makes
`thread_unblock`'s assertion hold, and so `Ready`. The proof has one lemma per action. Those
that touch one lock's fields go through `OwnStep`, which does for an arbitrary label what they
share: other threads' knowledge and other locks are undisturbed, since only the owner writes.
`NextIInv` also shows that each step is a step of `AbstractLock` or leaves `owner` and `taken`
alone, which gives the refinement.

**The disk.** `DeviceProofs!IInv` says, for each place in the driver, in which
combinations of the drive's state, its interrupt line, `expecting_intr` and
`disk_done` a thread can be there (`Phase`), that the drive then works on that
thread's command (`Own`), and that a channel nobody drives is quiet. A thread in
`sema_down` has three such combinations: the drive works; it has answered and
the line is up; the handler has come and the token is there. `OwnData` alone is
not inductive, since it is silent until the transfer. `HolderInv` ties the lock
to the one driving thread; `identify_disk`, which takes no lock, is covered by
`BootInv`: only main calls it and nobody else uses the disks yet. `OneDriver`
follows from both, and `DriverStep` is what all steps inside a call share.

**Bitmaps.** The first part of `DataProofs` proves what callers need of `bitmap_scan` for a map
of any length, bytes of any width and any content: one bit asked for, the answer is a clear bit
inside the map (`ScanOne`); several, all of the run is clear, although its last bit may be the
one behind the map (`ScanRun`); and it halts only over a map without a clear bit (`FullMap`).
That clearing a bit has no effect is `SetRunZeros`. `ScanCorrect` adds that the run is the
lowest there is. The bytes before the one where the first loop stops are full
(`BeforeOpenByte`), so that the second finds the lowest clear bit of the map (`LowestClear`);
the lowest run that fits begins there or behind a set bit, which is where the third loop's count
was last reset, and so the count reaches `cnt` at its end (`CountWhole`). No induction is
needed: a least element (`Least`) does for the loops.

**Recursion.** What a recursive function returns for every input needs induction, and an
induction rule for every predicate is out of the installed provers' reach, but a lemma about
every set is not: `Induction` says that a set of numbers that has 0, and with each number the
next, has them all, and follows from `Least`. `Recursion` follows from it: a function that is
defined by itself exists if its value at x depends only on values at places of smaller rank. The
proofs below define the set, or the rank, and cite the two.
That each theorem speaks of every input of its functions is `InputsCorrect`.

**Strings.** `While` stops at the first place that is not in its set (`WhileStops`), so a
string's length is the place of its 0 (`EndsWhere`, `Length`), and two strings compare as the
characters do at which they part (`Parts`, `Compare`). Transitivity asks which two of three
strings part first (`CompareTransitive`); a common prefix moves the place (`ComparePrefix`).
What searches see is `Hits`, the set of places where a character stands: `strchrs` counts it,
`strch` and `strrch` are its least and greatest elements (`CountHits`, `FirstHit`, `LastHit`),
and those of `strcat` are the first string's and the second's, moved (`HitsJoined`).

**Numbers.** `itoa` appends the last digit to the numeral of the quotient (`ItoaStep`). `Reads`
is what the digits make from left to right, and `ItoaPrints` an induction over the value.
`put_int` cuts its digits from the right: `Placed` says that a numeral's digits are the value
shifted by so many digits, modulo 16, and that nothing is left after them. `itoa`'s are placed
so (`ItoaPlaced`), and so `PutIntItoa`: they are what remains behind the leading zeros.
`vsprintf` prints a piece wherever it stands and goes on behind it, with the arguments it has
not taken (`PieceTurn`); three pieces joined (`Joined`) print what each of them does alone
(`PiecesPrinted`).

**Partitions.** `Listing` says that the list of names has one name for each element of the two
arrays, all different. A turn adds one partition or none (`PrimaryListed`, `LogicalListed`).
The theorem is about `Plain` disks (`Laid`), where the listed partitions are a chain's first ones
and the scan stops at the eighth; elsewhere `ScanFinds` is model-checked.
`Walk` is an induction over the records that are left of a chain: a call at a record, before
eight partitions have been found, returns with those that the chain describes up to the eighth,
its buffer and those of the calls below it given back but for the one of the call that found the
eighth (`Walked`). `AtSlot` is the state of the outermost call after each of its four turns: the
primary partitions so far and, once the extended one has been met, wherever it stands among
them, the whole chain's.

**Pages.** `PageAllocProofs!IInv` has to follow a call through its steps, because
nothing masks interrupts between a scan and the writes that follow it. `LockInv`
says at which labels a thread has its pool's lock; it is the whole of `LockGivenBack`, since each
failure path passes "unlock". `ProcInv` is what a process's call relies on: the byte it has read
(`copy`) is still what the map holds when it writes it back, for only it has the lock; its
addresses are marked as far as it has come; and its frame is clear, then marked and mapped
nowhere. That is why `MappedMarked` survives each write of a byte, and, with
`MappedOnce`, why nobody else finds the frame (`UserFramesExclusive`). None of this holds of the
kernel's maps, where `get_kernel_pages` and page tables write without the lock; run `page_shared`
shows what becomes of it. `RunsDisjoint` therefore does not rest on the bits at all.
`RunInv` says that the pages of a run that `sys_malloc` gave, or has mapped so
far, are mapped, so that the next `sys_malloc` to find one of them clear stops at the test of
its entry; and between that test and the write only `get_kernel_pages` can come, which gives no
run of `sys_malloc`'s.

**Blocks.** `NoOverlap` is about bytes and `ArenaProofs!IInv` about pages and blocks. An
arena's pages are mapped and disjoint from others' (`PageInv`), mapped pages are marked unless a
race has cost one its bit (`MarkedInv`, which is why only a raced page halts
`page_table_add`), a list holds blocks of
arenas of its size, each once (`ListInv`), what callers have is a block on no list
and nobody else's, and large enough (`GivenInv`). The header's count is what makes giving a page
back safe: `CountInv` says that it is the number of the arena's blocks on the list, but
for one in transit between `append` and the increment, and that an arena of which nothing is given
is being cut or freed at this moment, under the lock. The actions beside the lock touch neither
headers nor lists (`BesideTheLock`). So when the count reaches
`block_per_arena` no block of the page is held, and `Without` takes all of them off the
list before the page is unmapped. Two extents of one page are then different
blocks, or a block and the header in front of it (`BlocksApart`, `ExtentPlace`).

**The console.** The refinement mapping shows the cursor where it will be when `put_char` ends.
`Ports` says for each of its eight accesses which register is selected, what of the cursor `bx`
holds, and what of `bx` the controller has: they are true because the lock's owner is the only
one who writes (`HolderInv`, `Alone`). `ShowStep` is the part about the screen: drawing, the
wrap of a line, scrolling by `roll_screen` and a backspace do to the cells, row by row, what
`AbstractConsole` does to lines. `position` is on the screen whenever a character is drawn
(`SpotInv`), which is where a backspace needs the character before it. A panic ends the proof's
interest: `IInv` is about a console that has not been taken over, and the terminal then stands
still.

**The report.** The cursor that `panic_spin` finds may be anywhere, but the line feed that it
prints first takes it to the start of a row of the screen. From there `Holds(v, r, M, x)` says
which symbols have been printed: `M` pairs each with its distance from the beginning of row `r`,
and the next one comes at distance `x`. `put_char` of a plain character adds a pair
(`HoldsPut`). A line feed at the bottom of the screen, and a line that wraps there, move `r` one
up instead (`HoldsFed`), which is right as long as `r` does not leave the screen at the top:
that is where `ReportAssumption` is needed. `HoldsString` and `HoldsLines` are inductions over
the characters of a line and the lines of the report, and `HoldsReadable` reads the rows off the
distances. The invariant is `IInv`, for the screen and the cursor that the panic finds.

**The keyboard.** `ClearInv` is about the bytes under way: when no key of a flag is held, and no
fake make code counts as one (`Pressed`), the last of its bytes on the wire is a break code.
That is what is left of `NoStuckModifier` while a
make code still waits to be read, with both keys of a pair in any order. `RingInv` dates each
slot between `tail` and `head` by its distance from `head`; a setchar makes all of them one
older, and where it makes `head` meet `tail` there is nothing to say of the ring any more.

**Lists.** `Chains(next, prev, user, C)` says that both links of neighbours spell the sequences
`C`, that no element is on two of them, and that an element is on none exactly while someone has
it. `InsertAt` and `RemoveAt` show what `insert` and `remove` make of it: the changed links
spell the sequence with the element behind its new neighbour, or without it, and the other lists
do not notice. The links spell at most one sequence (`SpelledOnce`, by the first place where two
would differ), which makes `Spelled` equal to `C` (`SpelledIs`), so that a step's `Moves` is a
step of `AbstractList`. `CallerInv` is what a preempted caller relies on. For `pop`, what it
read from `head.next` is still the first element: only a lock's owner moves it, or an append to
an empty list. For `push` it is the first element or the end, so that a push whose list was
empty may end up behind the element that an `append` has put there in between; `AbstractList`
then takes an `AppendTo` step. For `find`, `SharedInv` keeps that no link leads to an element
that has been on no list, and that who has left a list still leads back to it.

**Only model-checked.** The liveness properties (`ReadyThreadRuns`, `FreeLockTaken`,
`CommandAnswered`): fairness and ENABLED are out of the prover's reach. `PartitionsFound` on disks
with two extended partitions, or with a link in front of a partition. `FramesAgree` is a
closed statement about given frames, without constants, which TLC evaluates as a whole; there is
nothing more general to prove. The four violations are counterexamples.

## 5. Not modelled

* Sleeping (`ticks_to_sleep`, `mtime_sleep`): both end in `thread_yield`, which
  run `thread_yield` shows to stop the machine.
* `allocate_pid`: pids are read by `getpid` only, and creators do not meet.
* `get_user_pages`, which nothing calls; the sizes `mem_pool_init` computes once.
* The two system services themselves, `printf`, `printk` and `sprintf`: one call of
  something that is modelled.
* `swap_pairs_bytes` and what `identify_disk` prints; `newstrcat`.
* Port I/O: single instructions; the devices behind them are in `Ide`, `Keyboard`
  and `Console`.
* Boot loader, build rules: straight-line code that is over before any
  concurrency begins, or not part of the running system.

## 6. Plan

1. Done: all modules above and their runs; the theorems about `Thread`, `Process`, `Sync`, `Ide`,
   `Keyboard`, `List`, `Data` (`BitmapOps`, `Text` and `Partition`), `PageAlloc`, `Arena` and `Console`.
