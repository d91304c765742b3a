--------------------------------- MODULE Sync --------------------------------
(***************************************************************************)
(* thread/sync.c over the scheduler: binary semaphores and the recursive   *)
(* lock built from one.  sema_down and sema_up run with interrupts masked; *)
(* try_lock and try_release touch the holder and its count with interrupts *)
(* as their caller has them, so each access is a step of its own.          *)
(***************************************************************************)
EXTENDS Sched

CONSTANTS Semaphores,   \* every struct semaphore
          Locks,        \* those inside a struct lock
          Workers,      \* the threads main has started, in that order
          None,         \* the NULL holder
          MaxNesting    \* bound: how deep a client nests one lock

ASSUME SyncAssumption ==
    /\ Locks \subseteq Semaphores
    /\ None \notin Threads
    /\ MaxNesting \in Nat
    /\ Workers \in Seq(Threads \ {idle, main})
    /\ Distinct(Workers)

VARIABLES value, waiters,               \* struct semaphore
          holder, holder_repeat_nr,     \* struct lock
          pc,           \* pc[t]: where t stands in sync.c, "out" when it does not
          arg,          \* arg[t]: the semaphore or lock it was called with
          old_status,   \* old_status[t]: the flag t's sema_down restores
          masked,       \* masked[t]: t's own code has interrupts disabled
          depth         \* depth[t][l]: t's try_lock calls less its try_release calls

semaVars == <<value, waiters>>
lockVars == <<holder, holder_repeat_nr>>
callVars == <<pc, arg, old_status, masked, depth>>
vars == <<schedVars, semaVars, lockVars, callVars>>

Clients == Threads \ {idle}

PC == {"out", "try_lock", "sema_down", "woken", "set_holder", "check_nr", "set_nr",
       "nest", "try_release", "read_nr", "unnest", "clear_holder", "clear_nr",
       "sema_up"}

TypeOK ==
    /\ SchedTypeOK
    /\ value \in [Semaphores -> {0, 1}]
    /\ waiters \in [Semaphores -> Seq(Threads)]
    /\ holder \in [Locks -> Threads \cup {None}]
    /\ holder_repeat_nr \in [Locks -> Nat]
    /\ pc \in [Threads -> PC]
    /\ arg \in [Threads -> Semaphores \cup {None}]
    /\ old_status \in [Threads -> Intr]
    /\ masked \in [Threads -> BOOLEAN]
    /\ depth \in [Threads -> [Locks -> Nat]]

\* lock_init and sema_init: a lock's semaphore starts at 1, any other (the
\* disk_done of an ide channel) at 0.
Init ==
    /\ SchedInit(Workers) /\ intr = "ON"
    /\ value = [s \in Semaphores |-> IF s \in Locks THEN 1 ELSE 0]
    /\ waiters = [s \in Semaphores |-> <<>>]
    /\ holder = [l \in Locks |-> None]
    /\ holder_repeat_nr = [l \in Locks |-> 0]
    /\ pc = [t \in Threads |-> "out"]
    /\ arg = [t \in Threads |-> None]
    /\ old_status = [t \in Threads |-> "ON"]
    /\ masked = [t \in Threads |-> FALSE]
    /\ depth = [t \in Threads |-> [l \in Locks |-> 0]]

-----------------------------------------------------------------------------
At(t, label) == Running(t) /\ t # idle /\ pc[t] = label

Goto(t, label) == pc' = [pc EXCEPT ![t] = label]

\* Where sema_down returns to: try_lock, or the caller's own code.
Return(s) == IF s \in Locks THEN "set_holder" ELSE "out"

\* Mutant: sema_down ends with interrupts enabled, whatever they were.
DownLoopEnabling(t, s, old) ==
    \/ /\ value[s] > 0
       /\ value' = [value EXCEPT ![s] = @ - 1]
       /\ panic' = (value[s] # 1)
       /\ intr' = "ON"
       /\ old_status' = [old_status EXCEPT ![t] = "ON"]
       /\ Goto(t, Return(s))
       /\ UNCHANGED <<queueVars, waiters>>
    \/ /\ value[s] = 0 /\ t \notin Listed(waiters[s])
       /\ waiters' = [waiters EXCEPT ![s] = Append(@, t)]
       /\ old_status' = [old_status EXCEPT ![t] = old]
       /\ thread_block("BLOCKED", "OFF")
       /\ Goto(t, "woken")
       /\ UNCHANGED value

\* The body of sema_down's loop, with interrupts masked.  The flag old is what
\* the call restores at its end; the local that holds it lives that long.
DownLoop(t, s, old) ==
    \/ /\ value[s] > 0                          \* --value, which was 1
       /\ value' = [value EXCEPT ![s] = @ - 1]
       /\ panic' = (value[s] # 1)
       /\ intr' = old
       /\ old_status' = [old_status EXCEPT ![t] = "ON"]
       /\ Goto(t, Return(s))
       /\ UNCHANGED <<queueVars, waiters>>
    \/ /\ value[s] = 0 /\ t \notin Listed(waiters[s])
       /\ waiters' = [waiters EXCEPT ![s] = Append(@, t)]
       /\ old_status' = [old_status EXCEPT ![t] = old]
       /\ thread_block("BLOCKED", "OFF")
       /\ Goto(t, "woken")
       /\ UNCHANGED value
    \/ /\ value[s] = 0 /\ t \in Listed(waiters[s])
       /\ Panic
       /\ UNCHANGED <<pc, old_status, semaVars>>

sema_down(t) ==
    /\ At(t, "sema_down")
    /\ DownLoop(t, arg[t], intr)
    /\ UNCHANGED <<idle_pc, lockVars, arg, masked, depth>>

\* Mutant: an if for the while: the woken thread does not test the value again.
DownWokenUntested(t) ==
    /\ At(t, "woken")
    /\ value' = [value EXCEPT ![arg[t]] = @ - 1]
    /\ panic' = (value[arg[t]] # 1)
    /\ intr' = old_status[t]
    /\ old_status' = [old_status EXCEPT ![t] = "ON"]
    /\ Goto(t, Return(arg[t]))
    /\ UNCHANGED <<queueVars, waiters, idle_pc, lockVars, arg, masked, depth>>

\* thread_block has returned inside sema_down: the while tests the value again.
DownWoken(t) ==
    /\ At(t, "woken")
    /\ DownLoop(t, arg[t], old_status[t])
    /\ UNCHANGED <<idle_pc, lockVars, arg, masked, depth>>

\* Mutant: sema_up raises the value and wakes nobody.
sema_upSilent(s) ==
    /\ value[s] = 0
    /\ value' = [value EXCEPT ![s] = 1]
    /\ UNCHANGED <<waiters, queueVars, intr, panic>>

\* Mutant: the woken thread stays on the list of the waiters.
sema_upKeeping(s) ==
    /\ value[s] = 0
    /\ value' = [value EXCEPT ![s] = 1]
    /\ UNCHANGED waiters
    /\ \/ waiters[s] = <<>> /\ UNCHANGED <<queueVars, intr, panic>>
       \/ waiters[s] # <<>> /\ thread_unblock(Head(waiters[s]))

\* sema_up(s), by a thread or by an interrupt handler: the first waiter is
\* made ready, the value rises, and the caller keeps the CPU.
sema_up(s) ==
    \/ /\ value[s] = 0
       /\ value' = [value EXCEPT ![s] = 1]
       /\ \/ /\ waiters[s] = <<>>
             /\ UNCHANGED <<waiters, queueVars, intr, panic>>
          \/ /\ waiters[s] # <<>>
             /\ waiters' = [waiters EXCEPT ![s] = Tail(@)]
             /\ thread_unblock(Head(waiters[s]))
    \/ value[s] # 0 /\ Panic /\ UNCHANGED semaVars       \* ASSERT(value == 1)

-----------------------------------------------------------------------------
(* try_lock, one action per access to the lock *)

TryLock(t) ==
    /\ At(t, "try_lock")
    /\ Goto(t, IF holder[arg[t]] # t THEN "sema_down" ELSE "nest")
    /\ UNCHANGED <<schedVars, semaVars, lockVars, arg, old_status, masked, depth>>

SetHolder(t) ==
    /\ At(t, "set_holder")
    /\ holder' = [holder EXCEPT ![arg[t]] = t]
    /\ Goto(t, "check_nr")
    /\ UNCHANGED <<schedVars, semaVars, holder_repeat_nr, arg, old_status, masked, depth>>

CheckNr(t) ==
    /\ At(t, "check_nr")
    /\ panic' = (holder_repeat_nr[arg[t]] # 0)
    /\ Goto(t, "set_nr")
    /\ UNCHANGED <<queueVars, intr, idle_pc, semaVars, lockVars,
                   arg, old_status, masked, depth>>

\* The call returns: its caller now counts one more.
SetNr(t) ==
    /\ At(t, "set_nr")
    /\ holder_repeat_nr' = [holder_repeat_nr EXCEPT ![arg[t]] = 1]
    /\ depth' = [depth EXCEPT ![t][arg[t]] = @ + 1]
    /\ Goto(t, "out")
    /\ UNCHANGED <<schedVars, semaVars, holder, arg, old_status, masked>>

Nest(t) ==
    /\ At(t, "nest")
    /\ holder_repeat_nr' = [holder_repeat_nr EXCEPT ![arg[t]] = @ + 1]
    /\ depth' = [depth EXCEPT ![t][arg[t]] = @ + 1]
    /\ Goto(t, "out")
    /\ UNCHANGED <<schedVars, semaVars, holder, arg, old_status, masked>>

-----------------------------------------------------------------------------
(* try_release *)

TryRelease(t) ==
    /\ At(t, "try_release")
    /\ panic' = (holder[arg[t]] # t)
    /\ Goto(t, "read_nr")
    /\ UNCHANGED <<queueVars, intr, idle_pc, semaVars, lockVars,
                   arg, old_status, masked, depth>>

\* Mutant: try_release ignores that the lock is nested.
ReadNrFlat(t) ==
    /\ At(t, "read_nr")
    /\ Goto(t, "clear_holder")
    /\ panic' = (holder_repeat_nr[arg[t]] = 0)
    /\ UNCHANGED <<queueVars, intr, idle_pc, semaVars, lockVars,
                   arg, old_status, masked, depth>>

ReadNr(t) ==
    /\ At(t, "read_nr")
    /\ LET nr == holder_repeat_nr[arg[t]]
       IN  /\ Goto(t, IF nr > 1 THEN "unnest" ELSE "clear_holder")
           /\ panic' = (nr = 0)
    /\ UNCHANGED <<queueVars, intr, idle_pc, semaVars, lockVars,
                   arg, old_status, masked, depth>>

Unnest(t) ==
    /\ At(t, "unnest")
    /\ holder_repeat_nr' = [holder_repeat_nr EXCEPT ![arg[t]] = @ - 1]
    /\ depth' = [depth EXCEPT ![t][arg[t]] = @ - 1]
    /\ Goto(t, "out")
    /\ UNCHANGED <<schedVars, semaVars, holder, arg, old_status, masked>>

\* Mutant: the holder is not reset.
ClearHolderNot(t) ==
    /\ At(t, "clear_holder")
    /\ Goto(t, "clear_nr")
    /\ UNCHANGED <<schedVars, semaVars, lockVars, arg, old_status, masked, depth>>

ClearHolder(t) ==
    /\ At(t, "clear_holder")
    /\ holder' = [holder EXCEPT ![arg[t]] = None]
    /\ Goto(t, "clear_nr")
    /\ UNCHANGED <<schedVars, semaVars, holder_repeat_nr, arg, old_status, masked, depth>>

ClearNr(t) ==
    /\ At(t, "clear_nr")
    /\ holder_repeat_nr' = [holder_repeat_nr EXCEPT ![arg[t]] = 0]
    /\ Goto(t, "sema_up")
    /\ UNCHANGED <<schedVars, semaVars, holder, arg, old_status, masked, depth>>

\* The sema_up that ends try_release.
ReleaseUp(t) ==
    /\ At(t, "sema_up")
    /\ sema_up(arg[t])
    /\ depth' = [depth EXCEPT ![t][arg[t]] = @ - 1]
    /\ Goto(t, "out")
    /\ UNCHANGED <<idle_pc, lockVars, arg, old_status, masked>>

Inside(t) ==
    \/ sema_down(t) \/ DownWoken(t)
    \/ TryLock(t) \/ SetHolder(t) \/ CheckNr(t) \/ SetNr(t) \/ Nest(t)
    \/ TryRelease(t) \/ ReadNr(t) \/ Unnest(t)
    \/ ClearHolder(t) \/ ClearNr(t) \/ ReleaseUp(t)

-----------------------------------------------------------------------------
(* The code that uses locks *)

Call(t, label, s) ==
    /\ At(t, "out")
    /\ Goto(t, label)
    /\ arg' = [arg EXCEPT ![t] = s]
    /\ UNCHANGED <<schedVars, semaVars, lockVars, old_status, masked, depth>>

\* No kernel path takes a second lock while it holds one; a lock may be taken
\* again by its holder.
CallTryLock(t, l) ==
    /\ \A k \in Locks \ {l} : depth[t][k] = 0
    /\ depth[t][l] < MaxNesting
    /\ Call(t, "try_lock", l)

CallTryRelease(t, l) ==
    /\ depth[t][l] > 0
    /\ Call(t, "try_release", l)

IntrSet(t, m) ==
    /\ At(t, "out") /\ masked[t] # m
    /\ masked' = [masked EXCEPT ![t] = m]
    /\ intr' = IF m THEN "OFF" ELSE "ON"
    /\ UNCHANGED <<queueVars, idle_pc, panic, semaVars, lockVars,
                   pc, arg, old_status, depth>>

\* Interrupts and the idle thread do not touch locks or their callers.
System == (TimerIntr \/ IdleBlock \/ IdleHlt) /\ UNCHANGED <<semaVars, lockVars, callVars>>

Next ==
    \/ System
    \/ \E t \in Clients :
          \/ Inside(t)
          \/ \E l \in Locks : CallTryLock(t, l) \/ CallTryRelease(t, l)
          \/ \E m \in BOOLEAN : IntrSet(t, m)

Spec == Init /\ [][Next]_vars

(***************************************************************************)
(* Fairness.  As in Process: the latched timer interrupt is delivered       *)
(* whenever interrupts are enabled again and again, idle is straight-line  *)
(* code, and the calls of sync.c and the sections that mask interrupts are *)
(* executed to their end.  No caller has to take or to give back a lock.   *)
(***************************************************************************)
Fairness ==
    /\ SF_vars(TimerIntr /\ UNCHANGED <<semaVars, lockVars, callVars>>)
    /\ WF_vars((IdleBlock \/ IdleHlt) /\ UNCHANGED <<semaVars, lockVars, callVars>>)
    /\ WF_vars(\E t \in Clients : Inside(t))
    /\ SF_vars(\E t \in Clients : IntrSet(t, FALSE))

FairSpec == Spec /\ Fairness

-----------------------------------------------------------------------------
(* Correctness *)

\* t has come through the semaphore of l and has not given it back.
TakingOver(t, l) == arg[t] = l /\ pc[t] \in {"set_holder", "check_nr", "set_nr"}
HandingBack(t, l) == arg[t] = l /\ pc[t] \in {"clear_nr", "sema_up"}
Owns(t, l) == TakingOver(t, l) \/ HandingBack(t, l) \/ holder[l] = t

\* Two threads never both have lock l, by their own count of their calls.
MutualExclusion ==
    \A l \in Locks : \A t, u \in Clients :
        depth[t][l] > 0 /\ depth[u][l] > 0 => t = u

\* The semaphore of a free lock is 1 and that of a taken one is 0, with one
\* thread only between sema_down and sema_up; holder and count, which are
\* written with interrupts enabled, agree with it at every instant.
TokenInv ==
    \A l \in Locks :
        /\ value[l] = 0 <=> \E t \in Clients : Owns(t, l)
        /\ \A t, u \in Clients : Owns(t, l) /\ Owns(u, l) => t = u
        /\ holder[l] = None => holder_repeat_nr[l] = 0
                               \/ \E t \in Clients : HandingBack(t, l)

\* When try_lock or try_release has returned, holder_repeat_nr of the lock
\* is what its holder has taken less what he has given back.
NestingCounted ==
    \A l \in Locks : \A t \in Clients :
        pc[t] = "out" =>
            depth[t][l] = IF holder[l] = t THEN holder_repeat_nr[l] ELSE 0

\* The single general_tag of a PCB is on one list: a thread blocked in
\* sema_down is among the waiters of that semaphore, once, and of no other,
\* and it is never on the ready list at the same time.
WaitersInv ==
    \A s \in Semaphores :
        /\ Distinct(waiters[s])
        /\ \A t \in Clients :
              t \in Listed(waiters[s]) <=>
                  pc[t] = "woken" /\ arg[t] = s /\ status[t] = "BLOCKED"

\* Every PCB that could run is queued, and only a waiter is blocked.
NobodyLost ==
    \A t \in Clients :
        \/ status[t] \in {"FREE", "RUNNING"}
        \/ status[t] = "READY" /\ t \in Listed(ready_list)
        \/ status[t] = "BLOCKED" /\ t \in Listed(waiters[arg[t]])

\* Whenever a semaphore is up and threads wait for it, one that sema_up has
\* taken off the waiters is on its way to test the value again.
NoLostWakeup ==
    \A s \in Semaphores :
        value[s] > 0 /\ waiters[s] # <<>> =>
            \E t \in Clients : /\ pc[t] = "woken" /\ arg[t] = s
                               /\ status[t] \in {"READY", "RUNNING"}

\* sema_down and the blocking inside it give the caller back the interrupt
\* flag it had, whatever ran in between.
MaskRestored ==
    cur # idle /\ pc[cur] # "woken" => (intr = "OFF" <=> masked[cur])

\* A lock that is free while threads wait for it is taken by someone.
FreeLockTaken ==
    \A l \in Locks : (value[l] = 1 /\ waiters[l] # <<>>) ~> value[l] = 0

(***************************************************************************)
(* The lock of AbstractLock.  A thread has it from sema_down to sema_up,   *)
(* which is longer than holder says; from sema_down on it has it once,     *)
(* although its call has not returned.                                     *)
(***************************************************************************)
Owners == [l \in Locks |-> {t \in Clients : Owns(t, l)}]

TheOne(S) == IF S = {} THEN None ELSE CHOOSE t \in S : TRUE

owner == [l \in Locks |-> TheOne(Owners[l])]

taken == [t \in Threads |-> [l \in Locks |-> IF TakingOver(t, l) THEN 1
                                             ELSE depth[t][l]]]

Abstract == INSTANCE AbstractLock WITH owner <- owner, taken <- taken

\* try_lock and try_release implement the lock of AbstractLock.
ImplementsLock == Abstract!Spec
=============================================================================
