-------------------------------- MODULE Sched --------------------------------
(***************************************************************************)
(* The scheduler of thread/thread.c on its single CPU, as the operators    *)
(* that every kernel module above it is built from: schedule, thread_block, *)
(* thread_unblock, thread_yield, the timer interrupt and the idle thread.  *)
(*                                                                         *)
(* Only the thread cur executes.  A stretch of code that runs with         *)
(* interrupts disabled is one atomic step; an interrupt can come between   *)
(* two steps whenever intr = "ON".                                         *)
(***************************************************************************)
EXTENDS Naturals, Sequences, Functions

CONSTANTS Threads,      \* the pages that can hold a PCB
          idle,         \* idle_thread
          main,         \* main_thread
          Priority      \* the prio argument each PCB is initialised with

Stopped == {"BLOCKED", "WAITING", "HANGING"}    \* what thread_block may set

Status == Stopped \cup {"RUNNING", "READY",
                        "FREE"}                 \* the page is no PCB yet

Intr == {"ON", "OFF"}                           \* enum intr_status

ASSUME SchedAssumption ==
    /\ idle \in Threads /\ main \in Threads /\ idle # main
    /\ Priority \in [Threads -> 0 .. 255]       \* uint8_t priority

VARIABLES ready_list,   \* thread_ready_list, head first
          status,       \* status[t]: the status field of t's PCB
          ticks,        \* ticks[t]: what is left of t's time slice
          cur,          \* running_thread()
          intr,         \* the CPU's interrupt flag
          saved,        \* saved[t]: the flag t's stack restores when t resumes
          idle_pc,      \* where idle's loop stands
          panic         \* an ASSERT failed: panic_spin stops the machine

queueVars == <<ready_list, status, ticks, cur, saved>>
schedVars == <<ready_list, status, ticks, cur, saved, intr, idle_pc, panic>>

SchedTypeOK ==
    /\ ready_list \in Seq(Threads)
    /\ status \in [Threads -> Status]
    /\ ticks \in [Threads -> 0 .. 255]
    /\ cur \in Threads
    /\ intr \in Intr
    /\ saved \in [Threads -> Intr]
    /\ idle_pc \in {"block", "sti", "hlt"}
    /\ panic \in BOOLEAN

-----------------------------------------------------------------------------
\* The threads on a list, and that none is on it twice.
Listed(list) == Range(list)
Distinct(list) == \A i, j \in 1 .. Len(list) : list[i] = list[j] => i = j

\* A failed ASSERT prints and spins with interrupts off: nothing runs again.
Panic == panic' = TRUE /\ UNCHANGED <<queueVars, intr>>

\* t is the thread that executes the next instruction of kernel code.
Running(t) == cur = t /\ ~panic

\* Mutant: a woken thread is queued but keeps the status it was stopped with.
StatusUnblockingStale(p, st) == st

\* What thread_unblock(p) makes of a ready list rl and of the statuses st: a
\* stopped thread goes to the front of the list, any other is left alone.
ListUnblocking(p, rl, st)   == IF st[p] \in Stopped THEN <<p>> \o rl ELSE rl
StatusUnblocking(p, st)     == IF st[p] \in Stopped
                               THEN [st EXCEPT ![p] = "READY"] ELSE st

\* Mutant: thread_unblock also takes a thread that is already READY.
thread_unblockUntested(p) ==
    IF status[p] # "RUNNING" /\ p \in Listed(ready_list)
    THEN Panic
    ELSE /\ ready_list' = ListUnblocking(p, ready_list, status)
         /\ status' = StatusUnblocking(p, status)
         /\ UNCHANGED <<ticks, cur, saved, intr, panic>>

\* thread_unblock(p), whoever calls it.
thread_unblock(p) ==
    IF status[p] \in Stopped /\ p \in Listed(ready_list)
    THEN Panic
    ELSE /\ ready_list' = ListUnblocking(p, ready_list, status)
         /\ status' = StatusUnblocking(p, status)
         /\ UNCHANGED <<ticks, cur, saved, intr, panic>>

\* The tail of schedule(): the head of the list rl takes the CPU and resumes
\* with the interrupt flag its own stack holds; old is what cur's stack keeps.
SwitchTo(rl, st, old) ==
    /\ rl # <<>>
    /\ cur' = Head(rl)
    /\ ready_list' = Tail(rl)
    /\ status' = [st EXCEPT ![Head(rl)] = "RUNNING"]
    /\ saved' = [saved EXCEPT ![cur] = old]
    /\ intr' = saved'[Head(rl)]
    /\ UNCHANGED panic

\* Mutant: a preempted caller is made READY but not appended to the list.
scheduleDropping(rl, st, old) ==
    LET rl1 == IF rl = <<>> THEN ListUnblocking(idle, rl, st) ELSE rl
        st1 == IF rl = <<>> THEN StatusUnblocking(idle, st) ELSE st
    IN  \/ /\ st1[cur] = "RUNNING" /\ cur \notin Listed(rl1)
           /\ ticks' = [ticks EXCEPT ![cur] = Priority[cur]]
           /\ SwitchTo(rl1, [st1 EXCEPT ![cur] = "READY"], old)
        \/ /\ st1[cur] # "RUNNING" /\ rl1 # <<>>
           /\ ticks' = ticks
           /\ SwitchTo(rl1, st1, old)

\* Mutant: a preempted caller goes to the front of the list.
schedulePushing(rl, st, old) ==
    LET rl1 == IF rl = <<>> THEN ListUnblocking(idle, rl, st) ELSE rl
        st1 == IF rl = <<>> THEN StatusUnblocking(idle, st) ELSE st
    IN  \/ /\ st1[cur] = "RUNNING" /\ cur \notin Listed(rl1)
           /\ ticks' = [ticks EXCEPT ![cur] = Priority[cur]]
           /\ SwitchTo(<<cur>> \o rl1, [st1 EXCEPT ![cur] = "READY"], old)
        \/ /\ st1[cur] # "RUNNING" /\ rl1 # <<>>
           /\ ticks' = ticks
           /\ SwitchTo(rl1, st1, old)

(***************************************************************************)
(* schedule(), entered with the ready list rl and the statuses st its      *)
(* caller leaves.  An empty list wakes idle first.  A caller that is still *)
(* RUNNING goes to the tail with a fresh slice; a stopped one is dropped.  *)
(***************************************************************************)
schedule(rl, st, old) ==
    LET rl1 == IF rl = <<>> THEN ListUnblocking(idle, rl, st) ELSE rl
        st1 == IF rl = <<>> THEN StatusUnblocking(idle, st) ELSE st
    IN  \/ /\ st1[cur] = "RUNNING" /\ cur \notin Listed(rl1)
           /\ ticks' = [ticks EXCEPT ![cur] = Priority[cur]]
           /\ SwitchTo(Append(rl1, cur), [st1 EXCEPT ![cur] = "READY"], old)
        \/ /\ st1[cur] # "RUNNING" /\ rl1 # <<>>
           /\ ticks' = ticks
           /\ SwitchTo(rl1, st1, old)
        \/ /\ IF st1[cur] = "RUNNING" THEN cur \in Listed(rl1) ELSE rl1 = <<>>
           /\ Panic

\* thread_block(stat), called with the interrupt flag old.
thread_block(stat, old) ==
    schedule(ready_list, [status EXCEPT ![cur] = stat], old)

\* thread_yield(): the caller appends itself and calls schedule with its
\* status still RUNNING; line 199 overwrites the local old_status by
\* TASK_READY (1 = INTR_OFF), so that is the flag it would restore.
thread_yield ==
    IF cur \in Listed(ready_list)
    THEN Panic
    ELSE schedule(Append(ready_list, cur), status, "OFF")

-----------------------------------------------------------------------------
\* An interrupt wakes the CPU from idle's hlt.
EndHlt == idle_pc' = IF cur = idle /\ idle_pc = "hlt" THEN "block" ELSE idle_pc

\* Mutant: the tick is taken before the slice is tested for its end.
TimerIntrUnderflow ==
    /\ ~panic /\ intr = "ON"
    /\ EndHlt
    /\ \/ /\ ticks' = [ticks EXCEPT ![cur] = @ - 1]
          /\ UNCHANGED <<ready_list, status, cur, saved, intr, panic>>
       \/ ticks[cur] = 0 /\ schedule(ready_list, status, "ON")

\* Mutant: the last tick of a slice is lost.
TimerIntrEarly ==
    /\ ~panic /\ intr = "ON"
    /\ EndHlt
    /\ \/ /\ ticks[cur] > 1
          /\ ticks' = [ticks EXCEPT ![cur] = @ - 1]
          /\ UNCHANGED <<ready_list, status, cur, saved, intr, panic>>
       \/ ticks[cur] <= 1 /\ schedule(ready_list, status, "ON")

\* intr_timer_handler: the slice of cur loses a tick, or ends in schedule().
TimerIntr ==
    /\ ~panic /\ intr = "ON"
    /\ EndHlt
    /\ \/ /\ ticks[cur] > 0
          /\ ticks' = [ticks EXCEPT ![cur] = @ - 1]
          /\ UNCHANGED <<ready_list, status, cur, saved, intr, panic>>
       \/ ticks[cur] = 0 /\ schedule(ready_list, status, "ON")

\* idle(): thread_block(TASK_BLOCKED), then "sti; hlt", for ever.
IdleBlock ==
    /\ Running(idle) /\ idle_pc = "block"
    /\ idle_pc' = "sti"
    /\ thread_block("BLOCKED", intr)

IdleHlt ==
    /\ Running(idle) /\ idle_pc = "sti"
    /\ idle_pc' = "hlt" /\ intr' = "ON"
    /\ UNCHANGED <<queueVars, panic>>

\* The machine once thread_init has run: main executes, idle is queued.
SchedInit(others) ==
    /\ cur = main /\ ready_list = <<idle>> \o others
    /\ status = [t \in Threads |-> IF t = main THEN "RUNNING"
                                   ELSE IF t \in Listed(ready_list)
                                        THEN "READY" ELSE "FREE"]
    /\ ticks = Priority /\ saved = [t \in Threads |-> "ON"]
    /\ idle_pc = "block" /\ panic = FALSE

-----------------------------------------------------------------------------
(* Correctness *)

\* No ASSERT or PANIC of the scheduler ever fires: nobody is queued twice, and
\* schedule always finds a thread to run.
NoPanic == ~panic

\* The one running thread is the one whose PCB says so, and a thread stands on
\* the ready list at most once, with status READY.
QueueInv ==
    /\ \A t \in Threads : status[t] = "RUNNING" <=> t = cur
    /\ Distinct(ready_list)
    /\ \A t \in Listed(ready_list) : status[t] = "READY"
=============================================================================
