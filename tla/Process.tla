------------------------------- MODULE Process -------------------------------
(***************************************************************************)
(* userprog/process.c, tss.c and the system call gate over the threads of  *)
(* thread.c: processes get a page directory, enter user mode and come back *)
(* into the kernel by int 0x80 or by an interrupt, on the stack that the   *)
(* TSS names.  main.c has its process_execute calls commented out; they    *)
(* are enabled here.                                                       *)
(***************************************************************************)
EXTENDS Thread

VARIABLES pgdir,        \* pgdir[t]: the directory, named by its owner, or None
          mode,         \* mode[t]: what t executes
          exec,         \* exec[t]: where t stands in process_execute
          cr3,          \* the active directory, None for the kernel's
          esp0          \* tss.esp0: on whose kernel stack an interrupt lands

procVars == <<pgdir, mode, exec, cr3, esp0>>
processVars == <<vars, procVars>>

ProcessInit ==
    /\ Init
    /\ pgdir = [t \in Threads |-> None]
    /\ mode = [t \in Threads |-> "kernel"]
    /\ exec = [t \in Threads |-> "no"]
    /\ cr3 = None /\ esp0 = None

-----------------------------------------------------------------------------
\* Mutant: a process's stack is put into the TSS only when it has none.
update_tss_espOnce(t) == esp0' = IF pgdir[t] # None /\ esp0 = None THEN t ELSE esp0

update_tss_esp(t) == esp0' = IF pgdir[t] # None THEN t ELSE esp0

page_dir_activate(t) == cr3' = pgdir[t]

\* Mutant: schedule activates the thread it leaves.
process_activateOld ==
    IF cur' = cur THEN UNCHANGED <<cr3, esp0>>
    ELSE page_dir_activate(cur) /\ update_tss_esp(cur)

\* schedule activates the thread it is about to switch to.
process_activate ==
    IF cur' = cur THEN UNCHANGED <<cr3, esp0>>
    ELSE page_dir_activate(cur') /\ update_tss_esp(cur')

Scheduled == process_activate /\ UNCHANGED <<pgdir, mode, exec>>

\* An interrupt, in whatever mode it finds the CPU.
Interrupt == (Timer \/ DeviceIntr \/ Idle) /\ Scheduled

\* What thread.c lets a kernel thread do.
KernelCode(t) ==
    /\ mode[t] = "kernel" /\ exec[t] = "no"
    /\ \/ \E m \in BOOLEAN : IntrSet(t, m)
       \/ \E p \in Threads : StartInit(t, p)
       \/ StartReady(t)
       \/ StartAll(t)
    /\ Scheduled

\* Locks and semaphores, in a thread, in start_process or in a system call.
WaitOrWake(t) ==
    /\ mode[t] # "user"
    /\ Block(t, "BLOCKED") \/ \E p \in Threads : Unblock(t, p)
    /\ Scheduled

-----------------------------------------------------------------------------
(* process_execute *)

ExecuteInit(t, p) ==
    /\ mode[t] = "kernel" /\ StartInit(t, p)
    /\ exec' = [exec EXCEPT ![t] = "dir"]
    /\ mode' = [mode EXCEPT ![p] = "new"]
    /\ UNCHANGED <<pgdir, cr3, esp0>>

\* Without a page it would answer NULL, but get_kernel_pages never fails for one
\* page: where there is none it stops the machine (PageAlloc, HaltsOnlyForMemory).
create_page_dir(t) ==
    /\ Running(t) /\ exec[t] = "dir"
    /\ pgdir' = [pgdir EXCEPT ![creating[t]] = creating[t]]
    /\ exec' = [exec EXCEPT ![t] = "list"]
    /\ UNCHANGED <<vars, mode, cr3, esp0>>

\* Unlike thread_start, both lists in one section with interrupts masked.
ExecuteList(t) ==
    /\ Running(t) /\ exec[t] = "list"
    /\ \/ creating[t] \in Listed(ready_list) \cup Listed(all_list)
          /\ Panic /\ UNCHANGED startVars
       \/ /\ creating[t] \notin Listed(ready_list) \cup Listed(all_list)
          /\ ready_list' = Append(ready_list, creating[t])
          /\ all_list' = Append(all_list, creating[t])
          /\ start_pc' = [start_pc EXCEPT ![t] = "out"]
          /\ creating' = [creating EXCEPT ![t] = None]
          /\ UNCHANGED <<status, ticks, cur, saved, intr, panic>>
    /\ exec' = [exec EXCEPT ![t] = "no"]
    /\ UNCHANGED <<idle_pc, masked, pgdir, mode, cr3, esp0>>

-----------------------------------------------------------------------------
(* User mode and back *)

\* Mutant: the initial flags of a process have EFLAGS_IF clear.
start_processMasked(t) ==
    /\ InOwnCode(t) /\ mode[t] = "new" /\ pgdir[t] # None
    /\ mode' = [mode EXCEPT ![t] = "user"] /\ intr' = "OFF"
    /\ UNCHANGED <<queueVars, panic, idle_pc, startVars, masked, pgdir, exec, cr3, esp0>>

\* get_a_page stops the machine when a user page is asked for without a
\* directory; iretd loads EFLAGS_IF_1.
start_process(t) ==
    /\ InOwnCode(t) /\ mode[t] = "new"
    /\ \/ pgdir[t] = None /\ Panic /\ UNCHANGED mode
       \/ /\ pgdir[t] # None /\ mode' = [mode EXCEPT ![t] = "user"]
          /\ intr' = "ON" /\ UNCHANGED <<queueVars, panic>>
    /\ UNCHANGED <<idle_pc, startVars, masked, pgdir, exec, cr3, esp0>>

\* int 0x80 through an interrupt gate, which masks interrupts for t.
syscall_handler(t) ==
    /\ Running(t) /\ mode[t] = "user"
    /\ mode' = [mode EXCEPT ![t] = "syscall"]
    /\ masked' = [masked EXCEPT ![t] = TRUE] /\ intr' = "OFF"
    /\ UNCHANGED <<queueVars, panic, idle_pc, startVars, pgdir, exec, cr3, esp0>>

\* intr_exit restores the flags int 0x80 has pushed.
SyscallReturn(t) ==
    /\ Running(t) /\ mode[t] = "syscall"
    /\ mode' = [mode EXCEPT ![t] = "user"]
    /\ masked' = [masked EXCEPT ![t] = FALSE] /\ intr' = "ON"
    /\ UNCHANGED <<queueVars, panic, idle_pc, startVars, pgdir, exec, cr3, esp0>>

ProcessNext ==
    \/ Interrupt
    \/ \E t \in Clients :
          \/ KernelCode(t) \/ WaitOrWake(t)
          \/ \E p \in Threads : ExecuteInit(t, p)
          \/ create_page_dir(t) \/ ExecuteList(t)
          \/ start_process(t) \/ syscall_handler(t) \/ SyscallReturn(t)

ProcessSpec == ProcessInit /\ [][ProcessNext]_processVars

(***************************************************************************)
(* Fairness.  The 8259A latches the timer's request while interrupts are   *)
(* masked, so a flag that is set again and again lets the timer in (SF).   *)
(* idle, thread_start and process_execute are straight-line code, and no   *)
(* section and no system call masks interrupts for ever.  Nothing else     *)
(* need happen: no thread has to block, to wake another or to leave its    *)
(* loop, and user code owes nothing.                                       *)
(***************************************************************************)
ProcessFairness ==
    /\ SF_processVars(Timer /\ Scheduled) /\ WF_processVars(Idle /\ Scheduled)
    /\ WF_processVars(\E t \in Clients : IntrSet(t, FALSE) /\ Scheduled)
    /\ WF_processVars(\E t \in Clients :
          \/ (StartReady(t) \/ StartAll(t)) /\ exec[t] = "no" /\ Scheduled
          \/ create_page_dir(t) \/ ExecuteList(t) \/ SyscallReturn(t))

FairProcessSpec == ProcessSpec /\ ProcessFairness

-----------------------------------------------------------------------------
(* Correctness *)

\* Whatever the scheduler does, code runs in the address space of its thread:
\* a process in its own, a kernel thread in the kernel's.  In particular no
\* process runs before process_execute has given it its directory.
OwnAddressSpace == cr3 = pgdir[cur]

\* An interrupt or system call that comes in user mode lands on the kernel
\* stack of the process it interrupts, which is where running_thread() finds
\* its PCB; and no process reaches user mode without an address space.
OwnKernelStack == mode[cur] = "user" => esp0 = cur /\ pgdir[cur] = cur

\* The interrupt flag is what the code that runs counts on, through all the
\* switches: set in user mode, clear throughout a system call even when it
\* blocks, and as a kernel thread has set it.
FlagByMode ==
    /\ mode[cur] \in {"new", "user"} => intr = "ON"
    /\ mode[cur] = "syscall" => intr = "OFF"
    /\ mode[cur] = "kernel" /\ cur # idle => (intr = "OFF" <=> masked[cur])

\* NoPanic (Sched): no ASSERT of thread.c or process.c ever fails, schedule
\* always finds a thread to switch to, and no process comes to get_a_page, which
\* would stop the machine, before process_execute has made its directory.

\* Although woken threads go to the front, no ready thread starves, whatever
\* the others do in user mode, in system calls and with interrupts masked.
ReadyThreadRuns ==
    \A t \in Threads : t \in Listed(ready_list) ~> cur = t
=============================================================================
