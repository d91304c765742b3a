-------------------------------- MODULE Thread -------------------------------
(***************************************************************************)
(* thread/thread.c as its callers use it: kernel threads that create       *)
(* others, block, wake each other and mask interrupts, in any order the    *)
(* code allows, under the timer and the device interrupts.                 *)
(***************************************************************************)
EXTENDS Sched

CONSTANT None

ASSUME NoneAssumption == None \notin Threads

VARIABLES all_list,     \* thread_all_list
          creating,     \* creating[t]: the PCB t's thread_start call works on
          start_pc,     \* where t stands in thread_start
          masked        \* masked[t]: t's own code has interrupts disabled

vars == <<schedVars, all_list, creating, start_pc, masked>>
startVars == <<all_list, creating, start_pc>>

Clients == Threads \ {idle}

TypeOK ==
    /\ SchedTypeOK
    /\ all_list \in Seq(Threads)
    /\ creating \in [Threads -> Threads \cup {None}]
    /\ start_pc \in [Threads -> {"out", "ready", "all"}]
    /\ masked \in [Threads -> BOOLEAN]

\* main() right after its intr_enable (main.c:27); thread_init has put main
\* and idle on the list of all threads.
Init ==
    /\ SchedInit(<<>>) /\ intr = "ON"
    /\ all_list = <<main, idle>>
    /\ creating = [t \in Threads |-> None]
    /\ start_pc = [t \in Threads |-> "out"]
    /\ masked = [t \in Threads |-> FALSE]

-----------------------------------------------------------------------------
\* t runs code of its own, outside thread_start.
InOwnCode(t) == Running(t) /\ t # idle /\ start_pc[t] = "out"

\* intr_disable() and intr_enable() around a section of t's own code.
IntrSet(t, m) ==
    /\ InOwnCode(t) /\ masked[t] # m
    /\ masked' = [masked EXCEPT ![t] = m]
    /\ intr' = IF m THEN "OFF" ELSE "ON"
    /\ UNCHANGED <<queueVars, idle_pc, panic, startVars>>

\* t gives up the CPU until someone unblocks it; thread_block returns with
\* the interrupt flag it was called with.
Block(t, stat) ==
    /\ InOwnCode(t)
    /\ thread_block(stat, intr)
    /\ UNCHANGED <<idle_pc, startVars, masked>>

Unblock(t, p) ==
    /\ InOwnCode(t) /\ p # idle /\ status[p] # "FREE"
    /\ thread_unblock(p)
    /\ UNCHANGED <<idle_pc, startVars, masked>>

\* thread_start: a fresh page becomes a PCB that is READY but on no list ...
StartInit(t, p) ==
    /\ InOwnCode(t) /\ status[p] = "FREE"
    /\ status' = [status EXCEPT ![p] = "READY"]
    /\ ticks' = [ticks EXCEPT ![p] = Priority[p]]
    /\ creating' = [creating EXCEPT ![t] = p]
    /\ start_pc' = [start_pc EXCEPT ![t] = "ready"]
    /\ UNCHANGED <<ready_list, cur, saved, intr, idle_pc, panic, all_list, masked>>

\* Mutant: thread_start returns without the list of all threads.
StartReadyOnly(t) ==
    /\ Running(t) /\ start_pc[t] = "ready"
    /\ creating[t] \notin Listed(ready_list)
    /\ ready_list' = Append(ready_list, creating[t])
    /\ start_pc' = [start_pc EXCEPT ![t] = "out"]
    /\ creating' = [creating EXCEPT ![t] = None]
    /\ UNCHANGED <<status, ticks, cur, saved, intr, panic, idle_pc, all_list, masked>>

\* Mutant: thread_start pushes the new thread instead of appending it.
StartReadyPush(t) ==
    /\ Running(t) /\ start_pc[t] = "ready"
    /\ creating[t] \notin Listed(ready_list)
    /\ ready_list' = <<creating[t]>> \o ready_list
    /\ start_pc' = [start_pc EXCEPT ![t] = "all"]
    /\ UNCHANGED <<status, ticks, cur, saved, intr, panic, idle_pc, all_list, creating, masked>>

\* ... is appended to the ready list ...
StartReady(t) ==
    /\ Running(t) /\ start_pc[t] = "ready"
    /\ \/ creating[t] \in Listed(ready_list) /\ Panic /\ UNCHANGED start_pc
       \/ /\ creating[t] \notin Listed(ready_list)
          /\ ready_list' = Append(ready_list, creating[t])
          /\ start_pc' = [start_pc EXCEPT ![t] = "all"]
          /\ UNCHANGED <<status, ticks, cur, saved, intr, panic>>
    /\ UNCHANGED <<idle_pc, all_list, creating, masked>>

\* ... and, in a second critical section, to the list of all threads.
StartAll(t) ==
    /\ Running(t) /\ start_pc[t] = "all"
    /\ \/ creating[t] \in Listed(all_list) /\ Panic /\ UNCHANGED startVars
       \/ /\ creating[t] \notin Listed(all_list)
          /\ all_list' = Append(all_list, creating[t])
          /\ start_pc' = [start_pc EXCEPT ![t] = "out"]
          /\ creating' = [creating EXCEPT ![t] = None]
          /\ UNCHANGED <<queueVars, intr, panic>>
    /\ UNCHANGED <<idle_pc, masked>>

Timer == TimerIntr /\ UNCHANGED <<startVars, masked>>

\* A device handler: it may unblock one thread, as sema_up in intr_hd_handler
\* does, and returns to the thread it interrupted.
DeviceIntr ==
    /\ ~panic /\ intr = "ON" /\ EndHlt
    /\ \/ \E p \in Clients : status[p] # "FREE" /\ thread_unblock(p)
       \/ UNCHANGED <<queueVars, intr, panic>>
    /\ UNCHANGED <<startVars, masked>>

Idle == (IdleBlock \/ IdleHlt) /\ UNCHANGED <<startVars, masked>>

Own(t) ==
    \/ \E m \in BOOLEAN : IntrSet(t, m)
    \/ \E stat \in Stopped : Block(t, stat)
    \/ \E p \in Threads : Unblock(t, p) \/ StartInit(t, p)
    \/ StartReady(t)
    \/ StartAll(t)

Next == Timer \/ DeviceIntr \/ Idle \/ \E t \in Clients : Own(t)

Spec == Init /\ [][Next]_vars

\* With thread_yield as one more thing a thread may call.
YieldNext ==
    \/ Next
    \/ \E t \in Clients : InOwnCode(t) /\ thread_yield
                          /\ UNCHANGED <<idle_pc, startVars, masked>>

YieldSpec == Init /\ [][YieldNext]_vars

-----------------------------------------------------------------------------
(* Correctness *)

\* No thread that can run is forgotten: a READY thread is on the ready list,
\* or exactly one thread_start call is about to put it there.
ReadyNotLost ==
    \A p \in Threads :
        status[p] = "READY" /\ p \notin Listed(ready_list) =>
            \E t \in Clients :
                /\ start_pc[t] = "ready" /\ creating[t] = p
                /\ \A u \in Clients \ {t} : creating[u] # p

\* Whatever ran meanwhile, a thread that gets the CPU back finds interrupts
\* masked if and only if its own code has masked them.
MaskRestored == cur # idle => (intr = "OFF" <=> masked[cur])

\* Every PCB in use is on the list of all threads, once, or its creator is
\* still inside thread_start.
AllListed ==
    \A p \in Threads :
        \/ status[p] = "FREE" /\ p \notin Listed(all_list)
        \/ /\ status[p] # "FREE"
           /\ p \in Listed(all_list) <=> \A t \in Clients : creating[t] # p

\* A thread is taken off the CPU against its will only at the end of its
\* slice, and then with a fresh one; waking a thread preempts nobody.
PreemptedAtSliceEnd ==
    [][cur' # cur /\ status'[cur] = "READY" =>
          ticks[cur] = 0 /\ ticks'[cur] = Priority[cur]]_vars

Before(a, b, list) ==
    \E i, j \in 1 .. Len(list) : i < j /\ list[i] = a /\ list[j] = b

\* Ready threads keep their order, and only a thread that was stopped is put
\* in front of one that already waits: a preempted thread and a new one queue
\* up behind it.
FirstComeFirstServed ==
    [][\A a, b \in Threads :
          /\ {a, b} \subseteq Listed(ready_list') /\ a \in Listed(ready_list)
          /\ \/ Before(a, b, ready_list)
             \/ b \notin Listed(ready_list) /\ status[b] \notin Stopped
          => a = b \/ Before(a, b, ready_list')]_vars
=============================================================================
