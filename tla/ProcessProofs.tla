---------------------------- MODULE ProcessProofs ----------------------------
(***************************************************************************)
(* Thread keeps its queues and its interrupt flag in order, and every      *)
(* process runs in its own address space and comes into the kernel on its  *)
(* own stack, for every set of pages and every assignment of priorities.   *)
(* Every step of thread.c keeps IInv; what processes add to it is ProcInv. *)
(* The last part is about the linked lists that such queues are kept in:   *)
(* every step of list.c keeps ListInv.                                     *)
(***************************************************************************)
EXTENDS Process, List, SchedProofs, FiniteSetTheorems, SequenceTheorems, WellFoundedInduction

-----------------------------------------------------------------------------
(* Threads. *)

\* The PCBs that thread_start has initialised and not yet queued.
Pending == {creating[t] : t \in {u \in Clients : start_pc[u] = "ready"}}

\* thread_start: who is inside it, and with which fresh page.
StartInv ==
    /\ status[idle] # "FREE"
    /\ start_pc[idle] = "out"
    /\ \A t \in Threads : start_pc[t] = "out" <=> creating[t] = None
    /\ \A t \in Threads : creating[t] # None =>
          creating[t] # idle /\ status[creating[t]] # "FREE"
    /\ \A t, u \in Threads : creating[t] # None /\ creating[t] = creating[u] => t = u

\* The interrupt flag of every thread, running or not; idle never masks.
MaskInv ==
    /\ cur = idle => intr = "ON"
    /\ saved[idle] = "ON"
    /\ MaskRestored
    /\ \A t \in Clients \ {cur} : saved[t] = "OFF" <=> masked[t]

IInv ==
    /\ TypeOK
    /\ NoPanic
    /\ QueueInv
    /\ Queued(ready_list, status, Pending)
    /\ StartInv
    /\ MaskInv
    /\ AllListed

(***************************************************************************)
(* A step that leaves the queues alone, or changes them by schedule or by  *)
(* thread_unblock, in an IInv state.                                       *)
(***************************************************************************)
LEMMA ScheduleStep ==
    ASSUME SchedAssumption, IInv, NEW stat \in Stopped \cup {"RUNNING"}, NEW old \in Intr,
           schedule(ready_list, [status EXCEPT ![cur] = stat], old),
           cur = idle => old = "ON",
           cur # idle => (old = "OFF" <=> masked[cur]),
           idle_pc' \in {"block", "sti", "hlt"},
           UNCHANGED <<startVars, masked>>
    PROVE  IInv'
<1> DEFINE st == [status EXCEPT ![cur] = stat]
<1>0. /\ SchedTypeOK /\ cur \in Threads /\ idle \in Threads
      /\ idle \notin Pending /\ Pending' = Pending
      /\ status[cur] = "RUNNING"
  BY NoneAssumption DEF IInv, TypeOK, SchedTypeOK, SchedAssumption, StartInv, Pending, Clients,
     startVars, QueueInv
<1>1. Queued(ready_list, st, Pending)
  BY <1>0 DEF IInv, Queued, Stopped, Status
<1>2. /\ \A t \in Threads : st[t] = "RUNNING" => t = cur
      /\ st[cur] \in Stopped \cup {"RUNNING"}
      /\ st[idle] # "FREE"
      /\ schedule(ready_list, st, old)
  BY <1>0 DEF IInv, SchedTypeOK, QueueInv, StartInv, Stopped
<1> HIDE DEF st
<1>3. /\ Queued(ready_list', status', Pending)
      /\ QueueInv'
      /\ cur' \in Threads
      /\ ticks' \in [Threads -> 0 .. 255]
      /\ saved' = [saved EXCEPT ![cur] = old]
      /\ saved' \in [Threads -> Intr]
      /\ intr' = saved'[cur'] /\ intr' \in Intr
      /\ panic' = panic
      /\ \A t \in Threads \ {idle} :
            status'[t] \in Stopped \cup {"FREE"} \/ st[t] \in Stopped \cup {"FREE"}
                => status'[t] = st[t]
      /\ status'[idle] # "FREE"
  BY <1>0, <1>1, <1>2, ScheduleQueue
<1>4. \A t \in Threads : status'[t] = "FREE" <=> status[t] = "FREE"
  BY <1>0, <1>3 DEF st, IInv, StartInv, SchedTypeOK, Stopped
<1>5. TypeOK'
  BY <1>3 DEF IInv, TypeOK, SchedTypeOK, Queued, startVars
<1>6. StartInv'
  BY <1>4, NoneAssumption DEF IInv, TypeOK, StartInv, startVars
<1>7. AllListed'
  BY <1>4 DEF IInv, AllListed, startVars
<1>8. MaskInv'
  BY <1>0, <1>3 DEF IInv, TypeOK, SchedTypeOK, MaskInv, MaskRestored, Clients, Intr
<1>9. NoPanic'
  BY <1>3 DEF IInv, NoPanic
<1> QED BY <1>0, <1>3, <1>5, <1>6, <1>7, <1>8, <1>9 DEF IInv

LEMMA UnblockStep ==
    ASSUME IInv, NEW p \in Clients, status[p] # "FREE", thread_unblock(p),
           idle_pc' \in {"block", "sti", "hlt"},
           UNCHANGED <<startVars, masked>>
    PROVE  IInv'
<1>0. /\ p \in Threads /\ Pending' = Pending /\ p # idle
      /\ Queued(ready_list, status, Pending)
  BY DEF IInv, Pending, startVars, Clients
<1>1. /\ ready_list' = ListUnblocking(p, ready_list, status)
      /\ status' = StatusUnblocking(p, status)
      /\ UNCHANGED <<ticks, cur, saved, intr, panic>>
  BY <1>0, UnblockQueued DEF thread_unblock
<1>2. Queued(ready_list', status', Pending')
  BY <1>0, <1>1, UnblockQueued
<1>3. \A t \in Threads : /\ status'[t] = "FREE" <=> status[t] = "FREE"
                         /\ status'[t] = "RUNNING" <=> status[t] = "RUNNING"
  BY <1>0, <1>1 DEF StatusUnblocking, IInv, TypeOK, SchedTypeOK, Stopped
<1>4. QueueInv'
  <2>1. Listed(ready_list') \subseteq Threads
    BY <1>2 DEF Queued, Listed, Range
  <2> QED BY <2>1, <1>1, <1>2, <1>3 DEF IInv, QueueInv, Queued, Listed, Distinct
<1>5. TypeOK'
  BY <1>1, <1>2 DEF IInv, TypeOK, SchedTypeOK, Queued, startVars
<1>6. StartInv'
  BY <1>3, NoneAssumption, SchedAssumption
     DEF IInv, TypeOK, StartInv, startVars, SchedAssumption
<1>7. AllListed' /\ MaskInv' /\ NoPanic'
  BY <1>1, <1>3 DEF IInv, AllListed, startVars, MaskInv, MaskRestored, NoPanic
<1> QED BY <1>2, <1>4, <1>5, <1>6, <1>7 DEF IInv

-----------------------------------------------------------------------------
LEMMA InitIInv == Init => IInv
<1> SUFFICES ASSUME Init PROVE IInv
  OBVIOUS
<1>0. /\ cur = main /\ ready_list = <<idle>> /\ intr = "ON" /\ all_list = <<main, idle>>
      /\ ticks = Priority /\ saved = [t \in Threads |-> "ON"]
      /\ idle_pc = "block" /\ panic = FALSE
      /\ creating = [t \in Threads |-> None] /\ start_pc = [t \in Threads |-> "out"]
      /\ masked = [t \in Threads |-> FALSE]
      /\ idle \in Threads /\ main \in Threads /\ idle # main
  BY SchedAssumption DEF Init, SchedInit, SchedAssumption
<1>1. /\ Listed(ready_list) = {idle} /\ Distinct(ready_list)
      /\ ready_list \in Seq(Threads)
  BY <1>0 DEF Listed, Distinct, Range
<1>2. /\ Listed(all_list) = {main, idle} /\ all_list \in Seq(Threads)
  <2>1. /\ all_list \in Seq(Threads) /\ DOMAIN all_list = 1 .. 2
        /\ all_list[1] = main /\ all_list[2] = idle
    BY <1>0
  <2> QED BY <2>1 DEF Listed, Range
<1>3. status = [t \in Threads |-> IF t = main THEN "RUNNING"
                                  ELSE IF t = idle THEN "READY" ELSE "FREE"]
  BY <1>1 DEF Init, SchedInit
<1>4. Pending = {}
  BY <1>0 DEF Pending, Clients
<1>5. TypeOK /\ NoPanic
  BY <1>0, <1>1, <1>2, <1>3, SchedAssumption
     DEF TypeOK, SchedTypeOK, NoPanic, Status, Intr, SchedAssumption
<1>6. QueueInv /\ Queued(ready_list, status, Pending)
  BY <1>0, <1>1, <1>3, <1>4 DEF QueueInv, Queued, Status
<1>7. StartInv /\ MaskInv
  BY <1>0, <1>3, NoneAssumption DEF StartInv, MaskInv, MaskRestored, Clients
<1>8. AllListed
  BY <1>0, <1>2, <1>3, NoneAssumption DEF AllListed, Clients
<1> QED BY <1>5, <1>6, <1>7, <1>8 DEF IInv

LEMMA NextIInv == IInv /\ [Next]_vars => IInv'
<1> SUFFICES ASSUME IInv, [Next]_vars PROVE IInv'
  OBVIOUS
<1> USE SchedAssumption, NoneAssumption
<1>0. /\ cur \in Threads /\ idle \in Threads /\ intr \in Intr /\ ~panic
      /\ status[cur] = "RUNNING" /\ status = [status EXCEPT ![cur] = "RUNNING"]
      /\ idle_pc \in {"block", "sti", "hlt"}
  BY DEF IInv, TypeOK, SchedTypeOK, SchedAssumption, QueueInv, NoPanic
<1>1. CASE Timer
  <2>1. idle_pc' \in {"block", "sti", "hlt"}
    BY <1>1, <1>0 DEF Timer, TimerIntr, EndHlt
  <2>2. CASE schedule(ready_list, status, "ON") /\ intr = "ON"
    <3>1. schedule(ready_list, [status EXCEPT ![cur] = "RUNNING"], "ON")
      BY <2>2, <1>0
    <3>2. cur # idle => ("ON" = "OFF" <=> masked[cur])
      BY <2>2 DEF IInv, MaskInv, MaskRestored
    <3> QED BY <1>1, <2>1, <3>1, <3>2, ScheduleStep DEF Timer, Intr
  <2>3. CASE /\ ticks[cur] > 0 /\ ticks' = [ticks EXCEPT ![cur] = @ - 1]
             /\ UNCHANGED <<ready_list, status, cur, saved, intr, panic>>
    <3>1. ticks' \in [Threads -> 0 .. 255]
      <4>1. ticks \in [Threads -> 0 .. 255] /\ cur \in Threads
        BY <1>0 DEF IInv, TypeOK, SchedTypeOK
      <4>2. ticks[cur] \in 0 .. 255
        BY <4>1
      <4>3. ticks[cur] - 1 \in 0 .. 255
        BY <4>2, <2>3
      <4> QED BY <2>3, <4>1, <4>3
    <3>2. TypeOK'
      BY <1>1, <2>1, <2>3, <3>1 DEF Timer, IInv, TypeOK, SchedTypeOK, startVars
    <3>3. QueueInv' /\ Queued(ready_list', status', Pending') /\ NoPanic'
      BY <1>1, <2>3 DEF Timer, IInv, QueueInv, Queued, Pending, NoPanic, startVars,
         Listed, Distinct
    <3>4. StartInv' /\ MaskInv' /\ AllListed'
      BY <1>1, <2>3 DEF Timer, IInv, StartInv, MaskInv, MaskRestored, AllListed, startVars
    <3> QED BY <3>2, <3>3, <3>4 DEF IInv
  <2> QED BY <1>1, <2>2, <2>3 DEF Timer, TimerIntr
<1>2. CASE DeviceIntr
  <2>1. idle_pc' \in {"block", "sti", "hlt"} /\ UNCHANGED <<startVars, masked>>
    BY <1>2, <1>0 DEF DeviceIntr, EndHlt
  <2>2. ASSUME NEW p \in Clients, status[p] # "FREE", thread_unblock(p) PROVE IInv'
    BY <2>1, <2>2, UnblockStep
  <2>3. CASE UNCHANGED <<queueVars, intr, panic>>
    BY <2>1, <2>3 DEF IInv, TypeOK, SchedTypeOK, NoPanic, QueueInv, Queued, Pending,
       StartInv, MaskInv, MaskRestored, AllListed, startVars, queueVars, Listed, Distinct
  <2> QED BY <1>2, <2>2, <2>3 DEF DeviceIntr
<1>3. CASE Idle
  <2>1. CASE IdleBlock
    <3>1. /\ schedule(ready_list, [status EXCEPT ![cur] = "BLOCKED"], intr)
          /\ idle_pc' = "sti" /\ cur = idle /\ UNCHANGED <<startVars, masked>>
      BY <1>3, <2>1 DEF Idle, IdleBlock, thread_block, Running
    <3>2. intr = "ON"
      BY <3>1 DEF IInv, MaskInv
    <3> QED BY <1>0, <3>1, <3>2, ScheduleStep DEF Stopped
  <2>2. CASE IdleHlt
    BY <1>3, <2>2, <1>0 DEF Idle, IdleHlt, Running, IInv, TypeOK, SchedTypeOK, NoPanic, QueueInv,
       Queued, Pending, StartInv, MaskInv, MaskRestored, AllListed, startVars, queueVars,
       Listed, Distinct, Intr
  <2> QED BY <1>3, <2>1, <2>2 DEF Idle
<1>4. ASSUME NEW t \in Clients, NEW m \in BOOLEAN, IntrSet(t, m) PROVE IInv'
  BY <1>4, <1>0 DEF IntrSet, InOwnCode, Running, IInv, TypeOK, SchedTypeOK, NoPanic, QueueInv,
     Queued, Pending, StartInv, MaskInv, MaskRestored, AllListed, startVars, queueVars,
     Listed, Distinct, Intr, Clients
<1>5. ASSUME NEW t \in Clients, NEW stat \in Stopped, Block(t, stat) PROVE IInv'
  <2>1. /\ schedule(ready_list, [status EXCEPT ![cur] = stat], intr)
        /\ idle_pc' = idle_pc /\ cur # idle /\ UNCHANGED <<startVars, masked>>
    BY <1>5 DEF Block, thread_block, InOwnCode, Running
  <2>2. intr = "OFF" <=> masked[cur]
    BY <2>1 DEF IInv, MaskInv, MaskRestored
  <2> QED BY <1>0, <2>1, <2>2, ScheduleStep
<1>6. ASSUME NEW t \in Clients, NEW p \in Threads, Unblock(t, p) PROVE IInv'
  BY <1>0, <1>6, UnblockStep DEF Unblock, Clients
<1>7. ASSUME NEW t \in Clients, NEW p \in Threads, StartInit(t, p) PROVE IInv'
  <2>1. /\ cur = t /\ t \in Threads /\ t # idle /\ start_pc[t] = "out" /\ creating[t] = None
        /\ status[p] = "FREE" /\ p # idle /\ p # cur
        /\ status' = [status EXCEPT ![p] = "READY"]
        /\ ticks' = [ticks EXCEPT ![p] = Priority[p]]
        /\ creating' = [creating EXCEPT ![t] = p]
        /\ start_pc' = [start_pc EXCEPT ![t] = "ready"]
        /\ UNCHANGED <<ready_list, cur, saved, intr, idle_pc, panic, all_list, masked>>
    BY <1>7, <1>0 DEF StartInit, InOwnCode, Running, IInv, StartInv, Clients
  <2>2. \A u \in Threads : creating[u] # p
    BY <2>1, <1>0 DEF IInv, StartInv
  <2>3. TypeOK' /\ NoPanic'
    BY <2>1 DEF IInv, TypeOK, SchedTypeOK, NoPanic, Status, SchedAssumption
  <2>4. Pending' = Pending \cup {p}
    <3>1. \A u \in Clients : start_pc'[u] = IF u = t THEN "ready" ELSE start_pc[u]
      BY <2>1, <2>3 DEF IInv, TypeOK, Clients
    <3>2. \A u \in Clients : creating'[u] = IF u = t THEN p ELSE creating[u]
      BY <2>1, <2>3 DEF IInv, TypeOK, Clients
    <3> QED BY <2>1, <3>1, <3>2, <1>7 DEF Pending
  <2>5. p \notin Listed(ready_list)
    BY <2>1 DEF IInv, QueueInv
  <2>6. Queued(ready_list', status', Pending')
    <3>1. \A u \in Threads : status'[u] = IF u = p THEN "READY" ELSE status[u]
      BY <2>1 DEF IInv, TypeOK, SchedTypeOK
    <3> QED BY <2>1, <2>3, <2>4, <2>5, <3>1 DEF IInv, Queued, TypeOK, SchedTypeOK
  <2>7. QueueInv'
    BY <2>1, <2>5 DEF IInv, TypeOK, SchedTypeOK, QueueInv, Listed, Distinct
  <2>8. StartInv'
    BY <2>1, <2>2 DEF IInv, TypeOK, SchedTypeOK, StartInv
  <2>9. MaskInv'
    BY <2>1 DEF IInv, MaskInv, MaskRestored
  <2>10. AllListed'
    <3> SUFFICES ASSUME NEW q \in Threads
                 PROVE  \/ status'[q] = "FREE" /\ q \notin Listed(all_list)
                        \/ /\ status'[q] # "FREE"
                           /\ q \in Listed(all_list) <=> \A u \in Clients : creating'[u] # q
      BY <2>1 DEF AllListed
    <3>1. CASE q = p
      BY <3>1, <2>1, <1>7 DEF IInv, AllListed, TypeOK, SchedTypeOK
    <3>2. CASE q # p
      <4>1. status'[q] = status[q]
        BY <3>2, <2>1 DEF IInv, TypeOK, SchedTypeOK
      <4>2. \A u \in Clients : creating'[u] # q <=> creating[u] # q
        BY <3>2, <2>1, NoneAssumption DEF IInv, TypeOK, Clients
      <4> QED BY <4>1, <4>2 DEF IInv, AllListed
    <3> QED BY <3>1, <3>2
  <2> QED BY <2>3, <2>6, <2>7, <2>8, <2>9, <2>10 DEF IInv
<1>8. ASSUME NEW t \in Clients, StartReady(t) PROVE IInv'
  <2> DEFINE p == creating[t]
  <2>1. /\ cur = t /\ t \in Threads /\ start_pc[t] = "ready" /\ t # idle
        /\ p \in Pending /\ p \in Threads
    BY <1>8 DEF StartReady, Running, IInv, StartInv, TypeOK, Pending, Clients
  <2>2. p \notin Listed(ready_list) /\ status[p] = "READY"
    BY <2>1 DEF IInv, Queued
  <2>3. /\ ready_list' = Append(ready_list, p)
        /\ start_pc' = [start_pc EXCEPT ![t] = "all"]
        /\ UNCHANGED <<status, ticks, cur, saved, intr, panic, idle_pc, all_list,
                       creating, masked>>
    BY <1>8, <2>2 DEF StartReady
  <2>4. /\ ready_list' \in Seq(Threads) /\ Listed(ready_list') = Listed(ready_list) \cup {p}
        /\ Distinct(ready_list')
    BY <2>1, <2>2, <2>3, AppendList DEF IInv, QueueInv, TypeOK, SchedTypeOK
  <2>5. Pending' = Pending \ {p}
    <3>1. \A u \in Clients : start_pc'[u] = "ready" <=> start_pc[u] = "ready" /\ u # t
      BY <2>3, <2>1 DEF IInv, TypeOK, Clients
    <3>2. \A u \in Clients : u # t /\ start_pc[u] = "ready" => creating[u] # p
      BY <2>1 DEF IInv, StartInv, Clients
    <3> QED BY <2>3, <3>1, <3>2 DEF Pending
  <2>6. TypeOK' /\ NoPanic'
    BY <2>3, <2>4 DEF IInv, TypeOK, SchedTypeOK, NoPanic
  <2>7. Queued(ready_list', status', Pending')
    BY <2>1, <2>2, <2>3, <2>4, <2>5 DEF IInv, Queued
  <2>8. QueueInv'
    BY <2>2, <2>3, <2>4 DEF IInv, QueueInv, Listed, Distinct
  <2>9. StartInv' /\ MaskInv' /\ AllListed'
    BY <2>1, <2>3 DEF IInv, TypeOK, StartInv, MaskInv, MaskRestored, AllListed
  <2> QED BY <2>6, <2>7, <2>8, <2>9 DEF IInv
<1>9. ASSUME NEW t \in Clients, StartAll(t) PROVE IInv'
  <2> DEFINE p == creating[t]
  <2>1. /\ cur = t /\ t \in Threads /\ start_pc[t] = "all" /\ t # idle
        /\ p \in Threads /\ p # idle /\ status[p] # "FREE"
    BY <1>9 DEF StartAll, Running, IInv, StartInv, TypeOK, Clients
  <2>2. p \notin Listed(all_list)
    BY <1>9, <2>1 DEF IInv, AllListed
  <2>3. /\ all_list' = Append(all_list, p)
        /\ start_pc' = [start_pc EXCEPT ![t] = "out"]
        /\ creating' = [creating EXCEPT ![t] = None]
        /\ UNCHANGED <<queueVars, intr, panic, idle_pc, masked>>
    BY <1>9, <2>2 DEF StartAll
  <2>4. /\ all_list' \in Seq(Threads) /\ Listed(all_list') = Listed(all_list) \cup {p}
    BY <2>1, <2>3, AppendList DEF IInv, TypeOK
  <2>5. Pending' = Pending
    <3>1. \A u \in Clients : start_pc'[u] = "ready" <=> start_pc[u] = "ready"
      BY <2>3, <2>1 DEF IInv, TypeOK, Clients
    <3>2. \A u \in Clients : start_pc[u] = "ready" => creating'[u] = creating[u]
      BY <2>1, <2>3 DEF IInv, TypeOK, Clients
    <3> QED BY <3>1, <3>2 DEF Pending
  <2>6. TypeOK' /\ NoPanic'
    BY <2>3, <2>4 DEF IInv, TypeOK, SchedTypeOK, NoPanic, queueVars
  <2>7. Queued(ready_list', status', Pending') /\ QueueInv'
    BY <2>3, <2>5 DEF IInv, Queued, QueueInv, queueVars, Listed, Distinct
  <2>8. \A u \in Threads : creating'[u] = IF u = t THEN None ELSE creating[u]
    BY <2>3 DEF IInv, TypeOK
  <2>9. StartInv' /\ MaskInv'
    BY <2>1, <2>3, <2>8 DEF IInv, TypeOK, StartInv, MaskInv, MaskRestored, queueVars
  <2>10. AllListed'
    <3> SUFFICES ASSUME NEW q \in Threads
                 PROVE  \/ status[q] = "FREE" /\ q \notin Listed(all_list')
                        \/ /\ status[q] # "FREE"
                           /\ q \in Listed(all_list') <=> \A u \in Clients : creating'[u] # q
      BY <2>3 DEF AllListed, queueVars
    <3>1. CASE q = p
      <4>1. \A u \in Clients : creating'[u] # p
        BY <2>1, <2>8 DEF IInv, StartInv, Clients
      <4> QED BY <3>1, <4>1, <2>1, <2>4
    <3>2. CASE q # p
      <4>1. \A u \in Clients : creating'[u] # q <=> creating[u] # q
        BY <3>2, <2>8 DEF Clients
      <4> QED BY <3>2, <4>1, <2>4 DEF IInv, AllListed
    <3> QED BY <3>1, <3>2
  <2> QED BY <2>6, <2>7, <2>9, <2>10 DEF IInv
<1>10. CASE UNCHANGED vars
  BY <1>10 DEF vars, schedVars, IInv, TypeOK, SchedTypeOK, NoPanic, QueueInv, Queued, Pending,
     StartInv, MaskInv, MaskRestored, AllListed, startVars, queueVars, Listed, Distinct
<1> QED BY <1>1, <1>2, <1>3, <1>4, <1>5, <1>6, <1>7, <1>8, <1>9, <1>10 DEF Next, Own

-----------------------------------------------------------------------------
THEOREM Invariance == Spec => []IInv
<1>1. Init => IInv
  BY InitIInv
<1>2. IInv /\ [Next]_vars => IInv'
  BY NextIInv
<1> QED BY <1>1, <1>2, PTL DEF Spec

\* Every variable of the scheduler keeps its type, ticks its width of 8 bits.
THEOREM TypeCorrect == Spec => []TypeOK
<1>1. IInv => TypeOK
  BY DEF IInv
<1> QED BY <1>1, Invariance, PTL

\* The ready list and the statuses never disagree and no ASSERT of thread.c
\* fails, with any number of threads and whatever they and the interrupts do.
THEOREM QueueCorrect == Spec => [](QueueInv /\ NoPanic)
<1>1. IInv => QueueInv /\ NoPanic
  BY DEF IInv
<1> QED BY <1>1, Invariance, PTL

\* No thread that could run is ever missing from the ready list.
THEOREM NoReadyThreadLost == Spec => []ReadyNotLost
<1>1. IInv => ReadyNotLost
  <2> SUFFICES ASSUME IInv, NEW p \in Threads, status[p] = "READY", p \notin Listed(ready_list)
               PROVE  \E t \in Clients : /\ start_pc[t] = "ready" /\ creating[t] = p
                                         /\ \A u \in Clients \ {t} : creating[u] # p
    BY DEF ReadyNotLost
  <2>1. PICK t \in Clients : start_pc[t] = "ready" /\ creating[t] = p
    BY DEF IInv, Queued, Pending
  <2>2. \A u \in Clients \ {t} : creating[u] # p
    BY <2>1, NoneAssumption DEF IInv, StartInv, Clients
  <2> QED BY <2>1, <2>2
<1> QED BY <1>1, Invariance, PTL

\* A thread always resumes with interrupts masked exactly if it masked them.
THEOREM MaskCorrect == Spec => []MaskRestored
<1>1. IInv => MaskRestored
  BY DEF IInv, MaskInv
<1> QED BY <1>1, Invariance, PTL

\* Every thread ever started is on the list of all threads, or about to be.
THEOREM AllThreadsListed == Spec => []AllListed
<1>1. IInv => AllListed
  BY DEF IInv
<1> QED BY <1>1, Invariance, PTL

-----------------------------------------------------------------------------
(* Processes. *)

ProcTypeOK ==
    /\ pgdir \in [Threads -> Threads \cup {None}]
    /\ mode \in [Threads -> {"kernel", "new", "user", "syscall"}]
    /\ exec \in [Threads -> {"no", "dir", "list"}]

\* process_execute: who is inside it, and for a PCB that cannot run yet.
ExecInv ==
    /\ \A t \in Threads : exec[t] # "no" => start_pc[t] = "ready"
    /\ \A t \in Threads : exec[t] # "no" => mode[creating[t]] = "new"

\* A new process without a directory is in the hands of the thread that makes it.
DirInv ==
    \A t \in Threads : mode[t] = "new" /\ pgdir[t] = None =>
        \E c \in Clients : exec[c] = "dir" /\ creating[c] = t

\* What a thread executes agrees with its directory and with its mask.
ModeInv ==
    /\ mode[idle] = "kernel"
    /\ \A t \in Threads :
          /\ pgdir[t] \in {t, None}
          /\ mode[t] \in {"user", "syscall"} => pgdir[t] = t
          /\ mode[t] \in {"new", "user"} => ~masked[t]
          /\ mode[t] = "syscall" => masked[t]
          /\ status[t] = "FREE" => mode[t] = "kernel" /\ ~masked[t]

\* What the CPU's registers name.
ActiveInv ==
    /\ cur \in Threads
    /\ cr3 = pgdir[cur]
    /\ pgdir[cur] # None => esp0 = cur

ProcInv == ProcTypeOK /\ ExecInv /\ DirInv /\ ModeInv /\ ActiveInv

PInv == ProcInv /\ IInv

-----------------------------------------------------------------------------
\* A PCB is in use from the moment its creator has it until for ever.
LEMMA InUse ==
    ASSUME IInv, NEW q \in Threads
    PROVE  status[q] = "FREE" <=> q \notin Listed(all_list) /\ \A t \in Clients : creating[t] # q
  BY NoneAssumption DEF IInv, StartInv, AllListed, Clients

\* The flag follows from MaskRestored.
LEMMA FlagFromMask ==
    ASSUME IInv, ProcInv
    PROVE  FlagByMode
  BY DEF IInv, TypeOK, SchedTypeOK, ProcInv, ModeInv, MaskInv, MaskRestored, FlagByMode, Intr,
     ProcTypeOK

\* A step of thread.c that schedule accompanies with process_activate.
LEMMA ScheduledStep ==
    ASSUME IInv, ProcInv, [Next]_vars, Scheduled,
           \A t \in Threads : mode[t] # "kernel" => masked'[t] = masked[t],
           \A t \in Threads : status[t] = "FREE" => masked'[t] = masked[t],
           \A t \in Threads : exec[t] # "no" =>
               start_pc'[t] = start_pc[t] /\ creating'[t] = creating[t],
           \A q \in Threads : q \in Listed(all_list) => q \in Listed(all_list'),
           \A q \in Threads, t \in Clients :
               creating[t] = q => creating'[t] = q \/ q \in Listed(all_list')
    PROVE  IInv' /\ ProcInv'
<1>1. IInv'
  BY NextIInv
<1>2. /\ pgdir' = pgdir /\ mode' = mode /\ exec' = exec
  BY DEF Scheduled
<1>3. \A q \in Threads : status'[q] = "FREE" => status[q] = "FREE"
  <2> SUFFICES ASSUME NEW q \in Threads, status'[q] = "FREE" PROVE status[q] = "FREE"
    OBVIOUS
  <2>1. q \notin Listed(all_list') /\ \A t \in Clients : creating'[t] # q
    BY <1>1, NoneAssumption DEF IInv, StartInv, AllListed, Clients
  <2> QED BY <2>1, InUse
<1>4. ProcTypeOK' /\ ExecInv'
  BY <1>2 DEF ProcInv, ProcTypeOK, ExecInv
<1>7. DirInv'
  BY <1>2 DEF ProcInv, DirInv, Clients
<1>5. ModeInv'
  BY <1>2, <1>3 DEF ProcInv, ModeInv, ProcTypeOK
<1>6. ActiveInv'
  BY <1>1, <1>2 DEF ProcInv, ActiveInv, Scheduled, process_activate, page_dir_activate,
     update_tss_esp, IInv, TypeOK, SchedTypeOK
<1> QED BY <1>1, <1>4, <1>5, <1>6, <1>7 DEF ProcInv

-----------------------------------------------------------------------------
LEMMA ProcessInitInv == ProcessInit => PInv
<1> SUFFICES ASSUME ProcessInit PROVE PInv
  OBVIOUS
<1>1. IInv
  BY InitIInv DEF ProcessInit
<1>2. ProcInv
  BY <1>1, NoneAssumption DEF ProcessInit, Init, IInv, TypeOK, SchedTypeOK, SchedAssumption,
     ProcInv, ProcTypeOK, ExecInv, DirInv, ModeInv, ActiveInv, StartInv
<1> QED BY <1>1, <1>2 DEF PInv

LEMMA InterruptStep ==
    ASSUME IInv, ProcInv, Interrupt
    PROVE  PInv'
<1>1. [Next]_vars /\ Scheduled /\ UNCHANGED <<startVars, masked>>
  BY DEF Interrupt, Next, Timer, DeviceIntr, Idle
<1>2. IInv' /\ ProcInv'
  BY <1>1, ScheduledStep DEF startVars
<1> QED BY <1>2 DEF PInv

LEMMA WaitOrWakeStep ==
    ASSUME IInv, ProcInv, NEW t \in Clients, WaitOrWake(t)
    PROVE  PInv'
<1>1. Next /\ Scheduled /\ UNCHANGED <<startVars, masked>>
  BY DEF WaitOrWake, Next, Own, Block, Unblock, Stopped
<1>2. IInv' /\ ProcInv'
  BY <1>1, ScheduledStep DEF startVars
<1> QED BY <1>2 DEF PInv

LEMMA KernelCodeStep ==
    ASSUME IInv, ProcInv, NEW t \in Clients, KernelCode(t)
    PROVE  PInv'
<1> DEFINE Kept ==
      /\ \A u \in Threads : mode[u] # "kernel" => masked'[u] = masked[u]
      /\ \A u \in Threads : status[u] = "FREE" => masked'[u] = masked[u]
      /\ \A u \in Threads : exec[u] # "no" =>
            start_pc'[u] = start_pc[u] /\ creating'[u] = creating[u]
      /\ \A q \in Threads : q \in Listed(all_list) => q \in Listed(all_list')
      /\ \A q \in Threads, u \in Clients :
            creating[u] = q => creating'[u] = q \/ q \in Listed(all_list')
<1>0. /\ mode[t] = "kernel" /\ exec[t] = "no" /\ t \in Threads /\ Scheduled /\ ~panic
      /\ status[cur] = "RUNNING" /\ cur \in Threads
      /\ masked \in [Threads -> BOOLEAN] /\ start_pc \in [Threads -> {"out", "ready", "all"}]
      /\ creating \in [Threads -> Threads \cup {None}] /\ all_list \in Seq(Threads)
  BY DEF KernelCode, Clients, IInv, TypeOK, SchedTypeOK, QueueInv, NoPanic
<1>1. ASSUME NEW m \in BOOLEAN, IntrSet(t, m) PROVE Next /\ Kept
  <2>1. cur = t /\ masked' = [masked EXCEPT ![t] = m] /\ UNCHANGED startVars
    BY <1>1 DEF IntrSet, InOwnCode, Running
  <2> QED BY <1>0, <1>1, <2>1 DEF Next, Own, startVars
<1>2. ASSUME NEW p \in Threads, StartInit(t, p) PROVE Next /\ Kept
  <2>1. /\ creating' = [creating EXCEPT ![t] = p] /\ UNCHANGED <<masked, all_list>>
        /\ start_pc' = [start_pc EXCEPT ![t] = "ready"] /\ creating[t] = None
    BY <1>0, <1>2 DEF StartInit, InOwnCode, IInv, StartInv
  <2> QED BY <1>0, <1>2, <2>1, NoneAssumption DEF Next, Own
<1>3. ASSUME StartReady(t) PROVE Next /\ Kept
  <2>1. UNCHANGED <<masked, all_list, creating>>
    BY <1>3 DEF StartReady
  <2>2. \A u \in Threads : u # t => start_pc'[u] = start_pc[u]
    BY <1>0, <1>3 DEF StartReady
  <2> QED BY <1>0, <1>3, <2>1, <2>2 DEF Next, Own
<1>4. ASSUME StartAll(t) PROVE Next /\ Kept
  <2>1. CASE UNCHANGED startVars
    BY <1>0, <1>4, <2>1 DEF Next, Own, StartAll, startVars
  <2>2. CASE /\ all_list' = Append(all_list, creating[t])
             /\ start_pc' = [start_pc EXCEPT ![t] = "out"]
             /\ creating' = [creating EXCEPT ![t] = None]
    <3>1. start_pc[t] = "all" /\ UNCHANGED masked
      BY <1>4 DEF StartAll
    <3>2. creating[t] \in Threads
      BY <1>0, <3>1 DEF IInv, StartInv
    <3>3. Listed(all_list') = Listed(all_list) \cup {creating[t]}
      BY <1>0, <2>2, <3>2, AppendList
    <3> QED BY <1>0, <1>4, <2>2, <3>1, <3>2, <3>3 DEF Next, Own
  <2> QED BY <1>4, <2>1, <2>2 DEF StartAll
<1>5. Next /\ Kept
  BY <1>1, <1>2, <1>3, <1>4 DEF KernelCode
<1>6. IInv' /\ ProcInv'
  BY <1>0, <1>5, ScheduledStep
<1> QED BY <1>6 DEF PInv

-----------------------------------------------------------------------------
LEMMA ExecuteInitStep ==
    ASSUME IInv, ProcInv, NEW t \in Clients, NEW p \in Threads, ExecuteInit(t, p)
    PROVE  PInv'
<1>1. [Next]_vars
  BY DEF ExecuteInit, Next, Own
<1>2. IInv'
  BY <1>1, NextIInv
<1>3. /\ cur = t /\ t \in Threads /\ mode[t] = "kernel" /\ creating[t] = None
      /\ status[p] = "FREE" /\ p # cur /\ p # idle /\ p # t
      /\ status' = [status EXCEPT ![p] = "READY"]
      /\ creating' = [creating EXCEPT ![t] = p]
      /\ start_pc' = [start_pc EXCEPT ![t] = "ready"]
      /\ exec' = [exec EXCEPT ![t] = "dir"]
      /\ mode' = [mode EXCEPT ![p] = "new"]
      /\ UNCHANGED <<cur, masked, pgdir, cr3, esp0>>
  BY DEF ExecuteInit, StartInit, InOwnCode, Running, IInv, StartInv, QueueInv, Clients,
     TypeOK, SchedTypeOK
<1>4. /\ creating \in [Threads -> Threads \cup {None}] /\ status \in [Threads -> Status]
      /\ start_pc \in [Threads -> {"out", "ready", "all"}]
  BY DEF IInv, TypeOK, SchedTypeOK
<1>5. \A u \in Threads : exec[u] # "no" => creating[u] # p /\ u # t
  BY <1>3, <1>4, NoneAssumption DEF IInv, StartInv, ProcInv, ExecInv
<1>6. ProcTypeOK'
  BY <1>3 DEF ProcInv, ProcTypeOK
<1>7. ExecInv'
  <2>1. \A u \in Threads : exec'[u] # "no" => u = t \/ exec[u] # "no"
    BY <1>3 DEF ProcInv, ProcTypeOK
  <2>2. \A u \in Threads : u # t => creating'[u] = creating[u] /\ start_pc'[u] = start_pc[u]
    BY <1>3, <1>4
  <2>3. creating'[t] = p /\ start_pc'[t] = "ready" /\ mode'[p] = "new"
    BY <1>3, <1>4 DEF ProcInv, ProcTypeOK
  <2>4. \A u \in Threads : exec[u] # "no" => creating[u] \in Threads
    BY <1>4 DEF IInv, StartInv, ProcInv, ExecInv
  <2>5. \A q \in Threads : q # p => mode'[q] = mode[q]
    BY <1>3 DEF ProcInv, ProcTypeOK
  <2> QED BY <2>1, <2>2, <2>3, <2>4, <2>5, <1>5 DEF ProcInv, ExecInv
<1>8. ModeInv'
  BY <1>3, <1>4 DEF ProcInv, ModeInv, ProcTypeOK
<1>9. ActiveInv'
  BY <1>3 DEF ProcInv, ActiveInv
<1>10. DirInv'
  <2> SUFFICES ASSUME NEW q \in Threads, mode'[q] = "new", pgdir'[q] = None
               PROVE  \E c \in Clients : exec'[c] = "dir" /\ creating'[c] = q
    BY DEF DirInv
  <2>1. CASE q = p
    <3>1. exec'[t] = "dir" /\ creating'[t] = p
      BY <1>3, <1>4 DEF ProcInv, ProcTypeOK
    <3> QED BY <2>1, <3>1
  <2>2. CASE q # p
    <3>1. mode[q] = "new" /\ pgdir[q] = None
      BY <1>3, <2>2 DEF ProcInv, ProcTypeOK
    <3>2. PICK c \in Clients : exec[c] = "dir" /\ creating[c] = q
      BY <3>1 DEF ProcInv, DirInv
    <3>3. c # t /\ c \in Threads
      BY <1>5, <3>2 DEF Clients
    <3> QED BY <1>3, <1>4, <3>2, <3>3 DEF ProcInv, ProcTypeOK
  <2> QED BY <2>1, <2>2
<1> QED BY <1>2, <1>6, <1>7, <1>8, <1>9, <1>10 DEF PInv, ProcInv

\* The PCB that process_execute builds is not the one that runs.
LEMMA create_page_dirStep ==
    ASSUME IInv, ProcInv, NEW t \in Clients, create_page_dir(t)
    PROVE  PInv'
<1> DEFINE p == creating[t]
<1>1. IInv'
  BY NextIInv DEF create_page_dir
<1>2. /\ t \in Threads /\ start_pc[t] = "ready" /\ mode[p] = "new" /\ exec[t] = "dir"
  BY DEF create_page_dir, ProcInv, ExecInv, Clients
<1>3. p \in Threads /\ p # cur
  <2>1. p \in Pending /\ p \in Threads
    BY <1>2 DEF Pending, IInv, StartInv, TypeOK
  <2>2. status[p] = "READY" /\ status[cur] = "RUNNING"
    BY <2>1 DEF IInv, Queued, QueueInv, TypeOK, SchedTypeOK
  <2> QED BY <2>1, <2>2
<1>4. pgdir' = [pgdir EXCEPT ![p] = p]
  BY DEF create_page_dir
<1>5. exec' = [exec EXCEPT ![t] = "list"] /\ UNCHANGED <<vars, mode, cr3, esp0>>
  BY DEF create_page_dir
<1>6. ProcTypeOK' /\ ExecInv'
  BY <1>2, <1>3, <1>4, <1>5 DEF ProcInv, ProcTypeOK, ExecInv, vars
<1>7. ModeInv'
  BY <1>2, <1>3, <1>4, <1>5 DEF ProcInv, ProcTypeOK, ModeInv, vars, schedVars
<1>8. ActiveInv'
  BY <1>3, <1>4, <1>5 DEF ProcInv, ProcTypeOK, ActiveInv, vars, schedVars
<1>9. DirInv'
  <2> SUFFICES ASSUME NEW q \in Threads, mode'[q] = "new", pgdir'[q] = None
               PROVE  \E c \in Clients : exec'[c] = "dir" /\ creating'[c] = q
    BY DEF DirInv
  <2>1. q # p /\ mode[q] = "new" /\ pgdir[q] = None
    BY <1>3, <1>4, <1>5, NoneAssumption DEF ProcInv, ProcTypeOK
  <2>2. PICK c \in Clients : exec[c] = "dir" /\ creating[c] = q
    BY <2>1 DEF ProcInv, DirInv
  <2>3. c # t /\ c \in Threads
    BY <2>1, <2>2 DEF Clients
  <2> QED BY <1>2, <1>5, <2>2, <2>3 DEF ProcInv, ProcTypeOK, vars, schedVars, startVars
<1> QED BY <1>1, <1>6, <1>7, <1>8, <1>9 DEF PInv, ProcInv

\* Both appends of process_execute: the new PCB leaves the pending ones.
LEMMA ExecuteListInv ==
    ASSUME IInv, ProcInv, NEW t \in Clients, ExecuteList(t)
    PROVE  /\ IInv'
           /\ start_pc' = [start_pc EXCEPT ![t] = "out"]
           /\ creating' = [creating EXCEPT ![t] = None]
           /\ UNCHANGED <<status, cur, masked>>
<1> USE SchedAssumption, NoneAssumption
<1> DEFINE p == creating[t]
<1>0. /\ creating \in [Threads -> Threads \cup {None}]
      /\ start_pc \in [Threads -> {"out", "ready", "all"}]
      /\ all_list \in Seq(Threads) /\ ready_list \in Seq(Threads)
  BY DEF IInv, TypeOK, SchedTypeOK
<1>1. /\ cur = t /\ t \in Threads /\ start_pc[t] = "ready" /\ t # idle
      /\ p \in Pending /\ p \in Threads /\ p # idle
  BY <1>0 DEF ExecuteList, Running, ProcInv, ExecInv, IInv, StartInv, Pending, Clients
<1>2. p \notin Listed(ready_list) /\ status[p] = "READY"
  BY <1>1 DEF IInv, Queued
<1>3. p \notin Listed(all_list)
  BY <1>1, <1>2 DEF IInv, AllListed
<1>4. /\ ready_list' = Append(ready_list, p)
      /\ all_list' = Append(all_list, p)
      /\ start_pc' = [start_pc EXCEPT ![t] = "out"]
      /\ creating' = [creating EXCEPT ![t] = None]
      /\ UNCHANGED <<status, ticks, cur, saved, intr, panic, idle_pc, masked>>
  BY <1>2, <1>3 DEF ExecuteList
<1>5. /\ ready_list' \in Seq(Threads) /\ Listed(ready_list') = Listed(ready_list) \cup {p}
      /\ Distinct(ready_list')
  BY <1>0, <1>1, <1>2, <1>4, AppendList DEF IInv, QueueInv
<1>6. all_list' \in Seq(Threads) /\ Listed(all_list') = Listed(all_list) \cup {p}
  BY <1>0, <1>1, <1>4, AppendList
<1>7. \A u \in Threads : /\ creating'[u] = IF u = t THEN None ELSE creating[u]
                         /\ start_pc'[u] = IF u = t THEN "out" ELSE start_pc[u]
  BY <1>0, <1>4
<1>8. \A u \in Threads : u # t => creating[u] # p
  BY <1>1 DEF IInv, StartInv
<1>9. Pending' = Pending \ {p}
  BY <1>1, <1>7, <1>8 DEF Pending, Clients
<1>10. TypeOK' /\ NoPanic'
  BY <1>4, <1>5, <1>6 DEF IInv, TypeOK, SchedTypeOK, NoPanic
<1>11. Queued(ready_list', status', Pending')
  BY <1>1, <1>2, <1>4, <1>5, <1>9 DEF IInv, Queued
<1>12. QueueInv'
  BY <1>2, <1>4, <1>5 DEF IInv, QueueInv, Listed, Distinct
<1>13. StartInv'
  BY <1>1, <1>4, <1>7 DEF IInv, StartInv
<1>14. MaskInv'
  BY <1>4 DEF IInv, MaskInv, MaskRestored
<1>15. AllListed'
  <2> SUFFICES ASSUME NEW q \in Threads
               PROVE  \/ status[q] = "FREE" /\ q \notin Listed(all_list')
                      \/ /\ status[q] # "FREE"
                         /\ q \in Listed(all_list') <=> \A u \in Clients : creating'[u] # q
    BY <1>4 DEF AllListed
  <2>1. CASE q = p
    <3>1. \A u \in Clients : creating'[u] # p
      BY <1>1, <1>7, <1>8 DEF Clients
    <3> QED BY <2>1, <3>1, <1>2, <1>6
  <2>2. CASE q # p
    <3>1. \A u \in Clients : creating'[u] # q <=> creating[u] # q
      BY <2>2, <1>7 DEF Clients
    <3> QED BY <2>2, <3>1, <1>6 DEF IInv, AllListed
  <2> QED BY <2>1, <2>2
<1> QED BY <1>4, <1>10, <1>11, <1>12, <1>13, <1>14, <1>15 DEF IInv

LEMMA ExecuteListStep ==
    ASSUME IInv, ProcInv, NEW t \in Clients, ExecuteList(t)
    PROVE  PInv'
<1>1. /\ IInv' /\ UNCHANGED <<status, cur, masked>>
      /\ start_pc' = [start_pc EXCEPT ![t] = "out"]
      /\ creating' = [creating EXCEPT ![t] = None]
  BY ExecuteListInv
<1>2. exec' = [exec EXCEPT ![t] = "no"] /\ UNCHANGED <<pgdir, mode, cr3, esp0>>
  BY DEF ExecuteList
<1>3. /\ creating \in [Threads -> Threads \cup {None}]
      /\ start_pc \in [Threads -> {"out", "ready", "all"}]
  BY DEF IInv, TypeOK
<1>4. ProcTypeOK' /\ ExecInv' /\ ModeInv' /\ ActiveInv'
  BY <1>1, <1>2, <1>3 DEF ProcInv, ProcTypeOK, ExecInv, ModeInv, ActiveInv
<1>5. DirInv'
  <2> SUFFICES ASSUME NEW q \in Threads, mode'[q] = "new", pgdir'[q] = None
               PROVE  \E c \in Clients : exec'[c] = "dir" /\ creating'[c] = q
    BY DEF DirInv
  <2>1. PICK c \in Clients : exec[c] = "dir" /\ creating[c] = q
    BY <1>2 DEF ProcInv, DirInv
  <2>2. c # t /\ c \in Threads
    BY <2>1 DEF ExecuteList, Clients
  <2> QED BY <1>1, <1>2, <1>3, <2>1, <2>2 DEF ProcInv, ProcTypeOK
<1> QED BY <1>1, <1>4, <1>5 DEF PInv, ProcInv

-----------------------------------------------------------------------------
(* Entering and leaving user mode changes the flag and the mask of cur. *)

\* The PCB that a process_execute call works on does not run.
LEMMA NotExecuted ==
    ASSUME IInv, ProcInv, NEW t \in Threads, exec[t] # "no"
    PROVE  creating[t] \in Threads \ {cur}
<1>1. start_pc[t] = "ready" /\ t \in Clients
  BY DEF ProcInv, ExecInv, IInv, StartInv, Clients
<1>2. creating[t] \in Pending /\ creating[t] \in Threads
  BY <1>1 DEF Pending, IInv, StartInv, TypeOK
<1>3. status[creating[t]] = "READY" /\ status[cur] = "RUNNING"
  BY <1>2 DEF IInv, Queued, QueueInv, TypeOK, SchedTypeOK
<1> QED BY <1>2, <1>3

LEMMA MaskStep ==
    ASSUME IInv, ProcInv, NEW m \in BOOLEAN,
           cur # idle, masked' = [masked EXCEPT ![cur] = m],
           intr' = (IF m THEN "OFF" ELSE "ON"),
           UNCHANGED <<queueVars, panic, idle_pc, startVars>>
    PROVE  IInv'
  BY DEF IInv, TypeOK, SchedTypeOK, NoPanic, QueueInv, Queued, Pending, StartInv, MaskInv,
     MaskRestored, AllListed, startVars, queueVars, Listed, Distinct, Intr, Clients

LEMMA ModeStep ==
    ASSUME IInv, ProcInv, NEW m \in BOOLEAN, NEW new \in {"user", "syscall"},
           mode[cur] # "kernel", pgdir[cur] = cur,
           m <=> new = "syscall",
           mode' = [mode EXCEPT ![cur] = new],
           masked' = [masked EXCEPT ![cur] = m],
           intr' = (IF m THEN "OFF" ELSE "ON"),
           UNCHANGED <<queueVars, panic, idle_pc, startVars, pgdir, exec, cr3, esp0>>
    PROVE  PInv'
<1>0. cur # idle /\ cur \in Threads /\ status[cur] = "RUNNING" /\ masked \in [Threads -> BOOLEAN]
  BY DEF ProcInv, ModeInv, IInv, TypeOK, SchedTypeOK, QueueInv
<1>1. IInv'
  BY <1>0, MaskStep
<1>2. ProcTypeOK' /\ ExecInv' /\ ActiveInv'
  BY <1>0, NotExecuted DEF ProcInv, ProcTypeOK, ExecInv, ActiveInv, startVars, queueVars
<1>3. ModeInv'
  BY <1>0 DEF ProcInv, ProcTypeOK, ModeInv, queueVars
<1>4. DirInv'
  BY <1>0 DEF ProcInv, ProcTypeOK, DirInv, startVars
<1> QED BY <1>1, <1>2, <1>3, <1>4 DEF PInv, ProcInv

LEMMA start_processStep ==
    ASSUME IInv, ProcInv, NEW t \in Clients, start_process(t)
    PROVE  PInv'
<1>1. /\ cur = t /\ mode[cur] = "new" /\ ~masked[cur] /\ pgdir[cur] \in {cur, None}
      /\ cur \in Threads /\ masked \in [Threads -> BOOLEAN]
  BY DEF start_process, InOwnCode, Running, ProcInv, ModeInv, IInv, TypeOK, SchedTypeOK
<1>2. pgdir[t] # None
  <2> SUFFICES ASSUME pgdir[t] = None PROVE FALSE
    OBVIOUS
  <2>1. PICK c \in Clients : exec[c] = "dir" /\ creating[c] = cur
    BY <1>1 DEF ProcInv, DirInv
  <2>2. cur \in Pending
    BY <2>1 DEF ProcInv, ExecInv, Clients, Pending
  <2>3. status[cur] = "READY" /\ status[cur] = "RUNNING"
    BY <1>1, <2>2 DEF IInv, Queued, QueueInv, TypeOK, SchedTypeOK
  <2> QED BY <2>3
<1>3. masked' = [masked EXCEPT ![cur] = FALSE]
  BY <1>1 DEF start_process
<1> QED BY <1>1, <1>2, <1>3, ModeStep DEF start_process

LEMMA SyscallStep ==
    ASSUME IInv, ProcInv, NEW t \in Clients, syscall_handler(t) \/ SyscallReturn(t)
    PROVE  PInv'
<1>1. cur = t /\ cur \in Threads /\ mode[cur] \in {"user", "syscall"} /\ pgdir[cur] = cur
  BY DEF syscall_handler, SyscallReturn, Running, Clients, ProcInv, ModeInv
<1>2. CASE syscall_handler(t)
  BY <1>1, <1>2, ModeStep DEF syscall_handler
<1>3. CASE SyscallReturn(t)
  BY <1>1, <1>3, ModeStep DEF SyscallReturn
<1> QED BY <1>2, <1>3

-----------------------------------------------------------------------------
LEMMA ProcessNextInv == PInv /\ [ProcessNext]_processVars => PInv'
<1> SUFFICES ASSUME PInv, [ProcessNext]_processVars PROVE PInv'
  OBVIOUS
<1>1. CASE UNCHANGED processVars
  <2>1. UNCHANGED <<vars, procVars>>
    BY <1>1 DEF processVars
  <2>2. IInv'
    BY <2>1, NextIInv DEF PInv
  <2>3. DirInv'
    BY <2>1 DEF PInv, ProcInv, DirInv, vars, schedVars, startVars, procVars
  <2> QED BY <2>1, <2>2, <2>3 DEF PInv, ProcInv, ProcTypeOK, ExecInv, ModeInv, ActiveInv, vars, schedVars,
         startVars, procVars
<1>2. CASE ProcessNext
  <2>2. IInv /\ ProcInv
    BY DEF PInv
  <2>3. CASE Interrupt
    BY <2>2, <2>3, InterruptStep
  <2>4. ASSUME NEW t \in Clients,
               \/ KernelCode(t) \/ WaitOrWake(t)
               \/ \E p \in Threads : ExecuteInit(t, p)
               \/ create_page_dir(t) \/ ExecuteList(t)
               \/ start_process(t) \/ syscall_handler(t) \/ SyscallReturn(t)
        PROVE  PInv'
    BY <2>2, <2>4, KernelCodeStep, WaitOrWakeStep, ExecuteInitStep, create_page_dirStep,
       ExecuteListStep, start_processStep, SyscallStep
  <2> QED BY <1>2, <2>3, <2>4 DEF ProcessNext
<1> QED BY <1>1, <1>2

THEOREM ProcessInvariance == ProcessSpec => []PInv
<1>1. ProcessInit => PInv
  BY ProcessInitInv
<1>2. PInv /\ [ProcessNext]_processVars => PInv'
  BY ProcessNextInv
<1> QED BY <1>1, <1>2, PTL DEF ProcessSpec

\* schedule's process_activate keeps up with every switch: cr3 always holds
\* the directory of the thread that runs.
THEOREM AddressSpaceActive == ProcessSpec => []OwnAddressSpace
<1>1. PInv => OwnAddressSpace
  BY DEF PInv, ProcInv, ActiveInv, OwnAddressSpace
<1> QED BY <1>1, ProcessInvariance, PTL

\* tss.esp0 names the running process's own stack whenever it is in user mode,
\* although switches to kernel threads leave it alone.
THEOREM KernelStackNamed == ProcessSpec => []OwnKernelStack
<1>1. PInv => OwnKernelStack
  <2> SUFFICES ASSUME PInv, mode[cur] = "user" PROVE esp0 = cur /\ pgdir[cur] = cur
    BY DEF OwnKernelStack
  <2> QED BY NoneAssumption DEF PInv, ProcInv, ModeInv, ActiveInv
<1> QED BY <1>1, ProcessInvariance, PTL

\* thread_block inside a system call, switches and interrupts give every
\* thread back the interrupt flag that its mode counts on.
THEOREM FlagKept == ProcessSpec => []FlagByMode
<1>1. PInv => FlagByMode
  BY FlagFromMask DEF PInv
<1> QED BY <1>1, ProcessInvariance, PTL

\* No ASSERT of thread.c or process.c fails, schedule always finds a thread, and
\* no process asks get_a_page for its stack before it has its directory.
THEOREM NoAssertFails == ProcessSpec => []NoPanic
<1>1. PInv => NoPanic
  BY DEF PInv, IInv
<1> QED BY <1>1, ProcessInvariance, PTL

\* The queues of thread.c stay as IInv has them when processes are
\* created, preempted in user mode and blocked in system calls.
THEOREM ProcessQueues == ProcessSpec => [](TypeOK /\ QueueInv /\ ReadyNotLost /\ AllListed)
<1>1. PInv => ReadyNotLost
  BY DEF PInv, IInv, ReadyNotLost, Queued, Pending, StartInv, TypeOK, Clients
<1>2. PInv => TypeOK /\ QueueInv /\ AllListed
  BY DEF PInv, IInv
<1> QED BY <1>1, <1>2, ProcessInvariance, PTL

-----------------------------------------------------------------------------
(* What one step may do to the CPU's owner and to the order of the queue. *)

\* A thread that leaves the CPU READY was RUNNING when schedule was entered,
\* and gets a fresh slice.
LEMMA ScheduleSlice ==
    ASSUME SchedTypeOK, SchedAssumption, NEW rl, NEW st \in [Threads -> Status], NEW old,
           schedule(rl, st, old), cur' # cur, status'[cur] = "READY", st[cur] # "READY"
    PROVE  st[cur] = "RUNNING" /\ ticks'[cur] = Priority[cur]
<1> DEFINE rl1 == IF rl = <<>> THEN ListUnblocking(idle, rl, st) ELSE rl
           st1 == IF rl = <<>> THEN StatusUnblocking(idle, st) ELSE st
<1>1. /\ cur \in Threads /\ idle \in Threads /\ ticks \in [Threads -> 0 .. 255]
      /\ st1 \in [Threads -> Status]
  BY DEF SchedTypeOK, SchedAssumption, StatusUnblocking, Status
<1>2. ~Panic
  BY DEF Panic, queueVars
<1>3. CASE /\ st1[cur] = "RUNNING"
           /\ ticks' = [ticks EXCEPT ![cur] = Priority[cur]]
  <2>1. ticks'[cur] = Priority[cur]
    BY <1>1, <1>3
  <2>2. st[cur] = "RUNNING"
    BY <1>1, <1>3 DEF StatusUnblocking
  <2> QED BY <2>1, <2>2
<1>4. CASE st1[cur] # "RUNNING" /\ SwitchTo(rl1, st1, old)
  <2>1. cur' = Head(rl1) /\ status' = [st1 EXCEPT ![Head(rl1)] = "RUNNING"]
    BY <1>4 DEF SwitchTo
  <2> HIDE DEF rl1
  <2>2. st1[cur] = "READY"
    BY <1>1, <2>1
  <2>3. rl = <<>> /\ cur = idle /\ st[idle] \in Stopped
    BY <1>1, <2>2 DEF StatusUnblocking
  <2>4. rl1 = <<idle>>
    BY <2>3 DEF rl1, ListUnblocking
  <2> QED BY <2>1, <2>3, <2>4
<1> QED BY <1>2, <1>3, <1>4 DEF schedule

LEMMA BeforeAppend ==
    ASSUME NEW l \in Seq(Threads), NEW x \in Threads, NEW a, NEW b
    PROVE  /\ Before(a, b, l) => Before(a, b, Append(l, x))
           /\ a \in Listed(l) => Before(a, x, Append(l, x))
<1> DEFINE n == Append(l, x)
<1>1. /\ Len(l) \in Nat /\ Len(n) = Len(l) + 1 /\ n[Len(l) + 1] = x
      /\ \A i \in 1 .. Len(l) : n[i] = l[i]
  OBVIOUS
<1> HIDE DEF n
<1>2. ASSUME Before(a, b, l) PROVE Before(a, b, n)
  <2>1. PICK i, j \in 1 .. Len(l) : i < j /\ l[i] = a /\ l[j] = b
    BY <1>2 DEF Before
  <2>2. i \in 1 .. Len(n) /\ j \in 1 .. Len(n) /\ n[i] = a /\ n[j] = b
    BY <1>1, <2>1
  <2> QED BY <2>1, <2>2 DEF Before
<1>3. ASSUME a \in Listed(l) PROVE Before(a, x, n)
  <2>1. PICK i \in 1 .. Len(l) : l[i] = a
    BY <1>3 DEF Listed, Range
  <2>2. i \in 1 .. Len(n) /\ Len(l) + 1 \in 1 .. Len(n) /\ i < Len(l) + 1 /\ n[i] = a
    BY <1>1, <2>1
  <2> QED BY <1>1, <2>2 DEF Before
<1> QED BY <1>2, <1>3 DEF n

LEMMA BeforePush ==
    ASSUME NEW l \in Seq(Threads), NEW p \in Threads, NEW a, NEW b, Before(a, b, l)
    PROVE  Before(a, b, <<p>> \o l)
<1> DEFINE n == <<p>> \o l
<1>1. Len(l) \in Nat /\ Len(n) = Len(l) + 1 /\ \A i \in 1 .. Len(l) : n[i + 1] = l[i]
  OBVIOUS
<1> HIDE DEF n
<1>2. PICK i, j \in 1 .. Len(l) : i < j /\ l[i] = a /\ l[j] = b
  BY DEF Before
<1>3. /\ i + 1 \in 1 .. Len(n) /\ j + 1 \in 1 .. Len(n) /\ i + 1 < j + 1
      /\ n[i + 1] = a /\ n[j + 1] = b
  BY <1>1, <1>2
<1>4. Before(a, b, n)
  BY <1>3 DEF Before
<1> QED BY <1>4 DEF n

LEMMA BeforePop ==
    ASSUME NEW l \in Seq(Threads), l # <<>>, Distinct(l), NEW a, NEW b,
           Before(a, b, l), a \in Listed(Tail(l))
    PROVE  Before(a, b, Tail(l))
<1> DEFINE n == Tail(l)
<1>1. /\ Len(l) \in Nat /\ Len(n) = Len(l) - 1 /\ Len(n) \in Nat
      /\ \A i \in 1 .. Len(n) : n[i] = l[i + 1]
  OBVIOUS
<1>2. PICK k \in 1 .. Len(n) : n[k] = a
  BY <1>1 DEF Listed, Range
<1> HIDE DEF n
<1>3. PICK i, j \in 1 .. Len(l) : i < j /\ l[i] = a /\ l[j] = b
  BY DEF Before
<1>4. i = k + 1
  <2>1. k + 1 \in 1 .. Len(l) /\ l[k + 1] = l[i]
    BY <1>1, <1>2, <1>3
  <2> QED BY <1>3, <2>1 DEF Distinct
<1>5. j - 1 \in 1 .. Len(n) /\ k < j - 1 /\ n[j - 1] = b
  <2>1. j - 1 \in 1 .. Len(n) /\ k < j - 1 /\ (j - 1) + 1 = j
    BY <1>1, <1>2, <1>3, <1>4
  <2> QED BY <1>1, <1>3, <2>1
<1>6. Before(a, b, n)
  BY <1>2, <1>5 DEF Before
<1> QED BY <1>6 DEF n

\* The step from list l to list n keeps the order, where st are the statuses.
InOrder(l, n, st) ==
    \A a, b \in Threads :
        /\ {a, b} \subseteq Listed(n) /\ a \in Listed(l)
        /\ \/ Before(a, b, l)
           \/ b \notin Listed(l) /\ st[b] \notin Stopped
        => a = b \/ Before(a, b, n)

LEMMA AppendInOrder ==
    ASSUME NEW l \in Seq(Threads), NEW x \in Threads, NEW st
    PROVE  InOrder(l, Append(l, x), st)
<1>1. Listed(Append(l, x)) = Listed(l) \cup {x}
  BY AppendList
<1> QED BY <1>1, BeforeAppend DEF InOrder

LEMMA PushInOrder ==
    ASSUME NEW l \in Seq(Threads), NEW p \in Threads, NEW st, st[p] \in Stopped
    PROVE  InOrder(l, <<p>> \o l, st)
<1>1. Listed(<<p>> \o l) = Listed(l) \cup {p}
  BY PushList
<1> QED BY <1>1, BeforePush DEF InOrder

LEMMA ScheduleInOrder ==
    ASSUME SchedTypeOK, SchedAssumption, QueueInv,
           NEW st \in [Threads -> Status], NEW old,
           schedule(ready_list, st, old)
    PROVE  InOrder(ready_list, ready_list', status)
<1> DEFINE rl1 == IF ready_list = <<>> THEN ListUnblocking(idle, ready_list, st) ELSE ready_list
           st1 == IF ready_list = <<>> THEN StatusUnblocking(idle, st) ELSE st
<1>1. ready_list \in Seq(Threads) /\ Distinct(ready_list) /\ cur \in Threads
  BY DEF SchedTypeOK, QueueInv
<1>2. CASE ready_list = <<>>
  <2>1. Listed(ready_list) = {}
    BY <1>2 DEF Listed, Range
  <2> QED BY <2>1 DEF InOrder
<1>3. CASE ready_list # <<>>
  <2>1. rl1 = ready_list
    BY <1>3
  <2>2. CASE Panic
    BY <2>2 DEF Panic, queueVars, InOrder
  <2>3. CASE cur \notin Listed(ready_list) /\ ready_list' = Tail(Append(ready_list, cur))
    <3> DEFINE n == Append(ready_list, cur)
    <3>1. n \in Seq(Threads) /\ n # <<>> /\ Distinct(n)
      BY <1>1, <2>3, AppendList
    <3>2. InOrder(ready_list, n, status)
      BY <1>1, AppendInOrder
    <3>3. Listed(Tail(n)) \subseteq Listed(n)
      BY <3>1, PopList
    <3> HIDE DEF n
    <3>4. InOrder(ready_list, Tail(n), status)
      BY <3>1, <3>2, <3>3, BeforePop DEF InOrder
    <3> QED BY <2>3, <3>4 DEF n
  <2>4. CASE ready_list' = Tail(ready_list)
    <3>1. Listed(Tail(ready_list)) \subseteq Listed(ready_list)
      BY <1>1, <1>3, PopList
    <3> QED BY <1>1, <1>3, <2>4, <3>1, BeforePop DEF InOrder
  <2> QED BY <2>1, <2>2, <2>3, <2>4 DEF schedule, SwitchTo
<1> QED BY <1>2, <1>3

\* Every step of thread.c gives the CPU away as PreemptedAtSliceEnd says, and
\* keeps the ready threads in order.
LEMMA ThreadStep ==
    ASSUME IInv, Next
    PROVE  /\ cur' # cur /\ status'[cur] = "READY" =>
                  ticks[cur] = 0 /\ ticks'[cur] = Priority[cur]
           /\ InOrder(ready_list, ready_list', status)
<1> DEFINE Slice == cur' # cur /\ status'[cur] = "READY" =>
                       ticks[cur] = 0 /\ ticks'[cur] = Priority[cur]
           Order == InOrder(ready_list, ready_list', status)
<1>1. /\ SchedTypeOK /\ QueueInv /\ SchedAssumption /\ status[cur] = "RUNNING"
      /\ status \in [Threads -> Status] /\ cur \in Threads /\ ready_list \in Seq(Threads)
  BY SchedAssumption DEF IInv, TypeOK, SchedTypeOK, QueueInv
<1>2. ASSUME ready_list' = ready_list PROVE Order
  BY <1>2 DEF InOrder
<1>3. ASSUME NEW p \in Threads, thread_unblock(p) PROVE Slice /\ Order
  <2>1. CASE Panic
    BY <1>2, <2>1 DEF Panic, queueVars
  <2>2. CASE ready_list' = ready_list /\ cur' = cur
    BY <1>2, <2>2
  <2>3. CASE status[p] \in Stopped /\ ready_list' = <<p>> \o ready_list /\ cur' = cur
    BY <1>1, <2>3, PushInOrder
  <2> QED BY <1>3, <2>1, <2>2, <2>3 DEF thread_unblock, ListUnblocking
<1>4. ASSUME NEW stat \in Stopped, thread_block(stat, intr) PROVE Slice /\ Order
  <2> DEFINE st == [status EXCEPT ![cur] = stat]
  <2>1. st \in [Threads -> Status] /\ st[cur] = stat
    BY <1>1 DEF Status
  <2>2. schedule(ready_list, st, intr)
    BY <1>4 DEF thread_block
  <2> HIDE DEF st
  <2>3. stat # "READY" /\ stat # "RUNNING"
    BY DEF Stopped
  <2>4. Order
    BY <1>1, <2>1, <2>2, ScheduleInOrder
  <2>5. Slice
    BY <1>1, <2>1, <2>2, <2>3, ScheduleSlice
  <2> QED BY <2>4, <2>5
<1>5. CASE Timer
  <2>1. CASE ready_list' = ready_list /\ cur' = cur
    BY <1>2, <2>1
  <2>2. CASE ticks[cur] = 0 /\ schedule(ready_list, status, "ON")
    <3>1. Order
      BY <1>1, <2>2, ScheduleInOrder
    <3>2. Slice
      BY <1>1, <2>2, ScheduleSlice
    <3> QED BY <3>1, <3>2
  <2> QED BY <1>5, <2>1, <2>2 DEF Timer, TimerIntr
<1>6. CASE DeviceIntr
  <2>1. CASE \E p \in Clients : status[p] # "FREE" /\ thread_unblock(p)
    BY <1>3, <2>1 DEF Clients
  <2>2. CASE UNCHANGED queueVars
    BY <1>2, <2>2 DEF queueVars
  <2> QED BY <1>6, <2>1, <2>2 DEF DeviceIntr
<1>7. CASE Idle
  <2>1. CASE IdleBlock
    <3>1. thread_block("BLOCKED", intr) /\ "BLOCKED" \in Stopped
      BY <2>1 DEF IdleBlock, Stopped
    <3> QED BY <1>4, <3>1
  <2>2. CASE IdleHlt
    BY <1>2, <2>2 DEF IdleHlt, queueVars
  <2> QED BY <1>7, <2>1, <2>2 DEF Idle
<1>8. ASSUME NEW t \in Clients, Own(t) PROVE Slice /\ Order
  <2>1. CASE \E stat \in Stopped : Block(t, stat)
    BY <1>4, <2>1 DEF Block
  <2>2. CASE \E p \in Threads : Unblock(t, p)
    BY <1>3, <2>2 DEF Unblock
  <2>3. CASE StartReady(t) /\ ready_list' = Append(ready_list, creating[t]) /\ cur' = cur
    <3>1. creating[t] \in Threads
      BY <2>3, NoneAssumption DEF StartReady, IInv, TypeOK, StartInv, Clients
    <3> QED BY <1>1, <2>3, <3>1, AppendInOrder
  <2>4. CASE ready_list' = ready_list /\ cur' = cur
    BY <1>2, <2>4
  <2> HIDE DEF Slice, Order
  <2>5. (\E m \in BOOLEAN : IntrSet(t, m)) \/ (\E p \in Threads : StartInit(t, p)) \/ StartAll(t)
           => ready_list' = ready_list /\ cur' = cur
    BY DEF IntrSet, StartInit, StartAll, queueVars, Panic
  <2>6. StartReady(t) => \/ ready_list' = Append(ready_list, creating[t]) /\ cur' = cur
                         \/ ready_list' = ready_list /\ cur' = cur
    BY DEF StartReady, queueVars, Panic
  <2> QED BY <1>8, <2>1, <2>2, <2>3, <2>4, <2>5, <2>6 DEF Own
<1> QED BY <1>5, <1>6, <1>7, <1>8 DEF Next

\* So does every step of a process.
LEMMA ProcessStep ==
    ASSUME PInv, [ProcessNext]_processVars
    PROVE  /\ cur' # cur /\ status'[cur] = "READY" =>
                  ticks[cur] = 0 /\ ticks'[cur] = Priority[cur]
           /\ InOrder(ready_list, ready_list', status)
<1>1. ASSUME ready_list' = ready_list, cur' = cur PROVE InOrder(ready_list, ready_list', status)
  BY <1>1 DEF InOrder
<1>2. CASE UNCHANGED processVars
  BY <1>1, <1>2 DEF processVars, vars, schedVars
<1>3. ASSUME ~panic, Next
      PROVE  /\ cur' # cur /\ status'[cur] = "READY" =>
                    ticks[cur] = 0 /\ ticks'[cur] = Priority[cur]
             /\ InOrder(ready_list, ready_list', status)
  BY <1>3, ThreadStep DEF PInv
<1>4. CASE Interrupt
  <2>1. ~panic /\ Next
    BY <1>4 DEF Interrupt, Next, Timer, TimerIntr, DeviceIntr, Idle, IdleBlock, IdleHlt, Running
  <2> QED BY <1>3, <2>1
<1>5. ASSUME NEW t \in Clients, KernelCode(t) \/ WaitOrWake(t) \/ \E p \in Threads : ExecuteInit(t, p)
      PROVE  ~panic /\ Next
  <2>1. Own(t)
    BY <1>5 DEF KernelCode, WaitOrWake, ExecuteInit, Own, Stopped
  <2>2. ~panic
    BY <2>1 DEF Own, IntrSet, Block, Unblock, StartInit, StartReady, StartAll, InOwnCode, Running
  <2> QED BY <2>1, <2>2 DEF Next
<1>6. ASSUME NEW t \in Clients, ExecuteList(t) PROVE InOrder(ready_list, ready_list', status) /\ cur' = cur
  <2>1. CASE Panic
    BY <1>1, <2>1 DEF Panic, queueVars
  <2>2. CASE ready_list' = Append(ready_list, creating[t]) /\ cur' = cur
    <3>1. ~panic /\ exec[t] # "no" /\ t \in Threads
      BY <1>6 DEF ExecuteList, Running, Clients
    <3>2. start_pc[t] = "ready" /\ IInv
      BY <3>1 DEF PInv, ProcInv, ExecInv
    <3>3. creating[t] \in Threads /\ ready_list \in Seq(Threads)
      BY <3>1, <3>2, NoneAssumption DEF IInv, TypeOK, SchedTypeOK, StartInv
    <3> QED BY <2>2, <3>3, AppendInOrder
  <2> QED BY <1>6, <2>1, <2>2 DEF ExecuteList
<1>7. ASSUME NEW t \in Clients,
             create_page_dir(t) \/ start_process(t) \/ syscall_handler(t) \/ SyscallReturn(t)
      PROVE  ready_list' = ready_list /\ cur' = cur
  BY <1>7 DEF create_page_dir, start_process, syscall_handler, SyscallReturn, vars, schedVars,
     queueVars, Panic
<1> QED BY <1>1, <1>2, <1>3, <1>4, <1>5, <1>6, <1>7 DEF ProcessNext

\* The timer takes the CPU from a thread only when its slice is used up, and
\* refills it; no wake-up preempts, whoever wakes whom.
THEOREM SlicesKept == ProcessSpec => PreemptedAtSliceEnd
<1>1. PInv /\ [ProcessNext]_processVars =>
          [cur' # cur /\ status'[cur] = "READY" =>
              ticks[cur] = 0 /\ ticks'[cur] = Priority[cur]]_vars
  BY ProcessStep
<1> QED BY <1>1, ProcessInvariance, PTL DEF ProcessSpec, PreemptedAtSliceEnd

\* schedule, thread_unblock, thread_start and process_execute keep the ready
\* threads in their order; only a woken thread goes in front of another.
THEOREM QueueInOrder == ProcessSpec => FirstComeFirstServed
<1>1. PInv /\ [ProcessNext]_processVars =>
          [\A a, b \in Threads :
              /\ {a, b} \subseteq Listed(ready_list') /\ a \in Listed(ready_list)
              /\ \/ Before(a, b, ready_list)
                 \/ b \notin Listed(ready_list) /\ status[b] \notin Stopped
              => a = b \/ Before(a, b, ready_list')]_vars
  BY ProcessStep DEF InOrder
<1> QED BY <1>1, ProcessInvariance, PTL DEF ProcessSpec, FirstComeFirstServed

-----------------------------------------------------------------------------
(* Lists: the links of list.c and the sequences that they spell. *)

\* A set of naturals has a least element.
LEMMA LeastOf ==
    ASSUME NEW S \in SUBSET Nat, S # {}
    PROVE  \E m \in S : \A x \in S : m <= x
<1>. DEFINE T == {0 .. n : n \in S}
<1>1. T \subseteq FiniteSubsetsOf(Nat)
  <2>1. \A n \in S : IsFiniteSet(0 .. n)
    BY FS_Interval
  <2>. QED  BY <2>1 DEF FiniteSubsetsOf
<1>2. PICK i \in T : \A y \in T : ~(<<y, i>> \in StrictSubsetOrdering(Nat))
  <2>1. T # {}
    OBVIOUS
  <2>. HIDE DEF T
  <2>. QED  BY <1>1, <2>1, FS_StrictSubsetOrderingWellFounded, WFMin
<1>3. PICK m \in S : i = 0 .. m
  OBVIOUS
<1>4. ASSUME NEW x \in S, x < m
      PROVE  FALSE
  <2>1. 0 .. x \in T /\ 0 .. x \subseteq Nat /\ i \subseteq Nat
    BY <1>3
  <2>2. 0 .. x \subseteq i /\ m \in i /\ m \notin 0 .. x
    BY <1>3, <1>4
  <2>3. <<0 .. x, i>> \in StrictSubsetOrdering(Nat)
    BY <2>1, <2>2 DEF StrictSubsetOrdering
  <2>. QED  BY <1>2, <2>1, <2>3
<1>. QED  BY <1>4

\* No element twice.
Once(s) == \A i, j \in 1 .. Len(s) : s[i] = s[j] => i = j

\* Both links of neighbours say that s is on list l.
Linked(nx, pv, l, s) ==
    \A k \in 0 .. Len(s) : /\ nx[Place(l, s, k)] = Place(l, s, k + 1)
                           /\ pv[Place(l, s, k + 1)] = Place(l, s, k)

On(e, s) == \E i \in 1 .. Len(s) : s[i] = e

\* The lists are the sequences C, no element is on two, and who is on none is
\* in somebody's hands.
Chains(nx, pv, us, C) ==
    /\ \A l \in Lists : Linked(nx, pv, l, C[l]) /\ Once(C[l])
    /\ \A l, m \in Lists, e \in Elements : On(e, C[l]) /\ On(e, C[m]) => l = m
    /\ \A e \in Elements : us[e] = NULL <=> \E l \in Lists : On(e, C[l])

LEMMA SentinelsApart ==
    /\ \A l \in Lists : head(l) \in Nodes \ Elements /\ tail(l) \in Nodes \ Elements
    /\ \A l, m \in Lists : /\ head(l) # tail(m)
                           /\ head(l) = head(m) => l = m
                           /\ tail(l) = tail(m) => l = m
    /\ Elements \subseteq Nodes
BY ListAssumption DEF head, tail, Nodes, Sentinels

\* Two places of a list are two nodes.
LEMMA PlacesApart ==
    ASSUME NEW l \in Lists, NEW s \in Seq(Elements), Once(s)
    PROVE  /\ \A k \in 0 .. Len(s) + 1 : Place(l, s, k) \in Nodes
           /\ \A j, k \in 0 .. Len(s) + 1 : Place(l, s, j) = Place(l, s, k) => j = k
           /\ \A k \in 1 .. Len(s) : Place(l, s, k) = s[k] /\ s[k] \in Elements
           /\ Place(l, s, 0) = head(l) /\ Place(l, s, Len(s) + 1) = tail(l)
           /\ \A k \in 0 .. Len(s) + 1 : Place(l, s, k) \in Elements => k \in 1 .. Len(s)
<1>0. Len(s) \in Nat
  OBVIOUS
<1>1. \A k \in 1 .. Len(s) : Place(l, s, k) = s[k] /\ s[k] \in Elements
  BY DEF Place
<1>2. Place(l, s, 0) = head(l) /\ Place(l, s, Len(s) + 1) = tail(l)
  BY <1>0 DEF Place
<1>3. \A k \in 0 .. Len(s) + 1 : k = 0 \/ k = Len(s) + 1 \/ k \in 1 .. Len(s)
  BY <1>0
<1>. QED  BY <1>0, <1>1, <1>2, <1>3, SentinelsApart DEF Once

\* Places of two lists are two nodes.
LEMMA ListsApart ==
    ASSUME NEW l \in Lists, NEW s \in Seq(Elements), Once(s),
           NEW m \in Lists, NEW t \in Seq(Elements), Once(t),
           l # m, \A e \in Elements : ~(On(e, s) /\ On(e, t))
    PROVE  \A j \in 0 .. Len(s) + 1, k \in 0 .. Len(t) + 1 : Place(l, s, j) # Place(m, t, k)
<1>1. /\ \A k \in 1 .. Len(s) : Place(l, s, k) = s[k] /\ s[k] \in Elements
      /\ Place(l, s, 0) = head(l) /\ Place(l, s, Len(s) + 1) = tail(l)
  BY PlacesApart
<1>2. /\ \A k \in 1 .. Len(t) : Place(m, t, k) = t[k] /\ t[k] \in Elements
      /\ Place(m, t, 0) = head(m) /\ Place(m, t, Len(t) + 1) = tail(m)
  BY PlacesApart
<1>3. /\ \A k \in 0 .. Len(s) + 1 : k = 0 \/ k = Len(s) + 1 \/ k \in 1 .. Len(s)
      /\ \A k \in 0 .. Len(t) + 1 : k = 0 \/ k = Len(t) + 1 \/ k \in 1 .. Len(t)
  OBVIOUS
<1>4. \A j \in 1 .. Len(s), k \in 1 .. Len(t) : s[j] # t[k]
  BY <1>1 DEF On
<1>. QED  BY <1>1, <1>2, <1>3, <1>4, SentinelsApart

\* The links spell one sequence.
LEMMA SpelledOnce ==
    ASSUME NEW nx, NEW l \in Lists,
           NEW s \in Seq(Elements), Spells(nx, l, s), NEW t \in Seq(Elements), Spells(nx, l, t)
    PROVE  s = t
<1>n. PICK n \in Nat : n = Len(s)
  OBVIOUS
<1>m. PICK m \in Nat : m = Len(t)
  OBVIOUS
<1>1. n = Len(s) /\ m = Len(t)
  BY <1>n, <1>m
<1>2. /\ \A k \in 1 .. n : Place(l, s, k) = s[k] /\ s[k] \in Elements
      /\ \A k \in 1 .. m : Place(l, t, k) = t[k] /\ t[k] \in Elements
      /\ Place(l, s, 0) = Place(l, t, 0)
      /\ Place(l, s, n + 1) = tail(l) /\ Place(l, t, m + 1) = tail(l)
      /\ tail(l) \notin Elements
  BY <1>1, SentinelsApart DEF Place
<1>. DEFINE D == {k \in Nat : k <= n + 1 /\ k <= m + 1 /\ Place(l, s, k) # Place(l, t, k)}
<1>3. D = {}
  <2>1. SUFFICES ASSUME D # {} PROVE FALSE
    OBVIOUS
  <2>2. PICK k \in D : \A x \in D : k <= x
    BY <2>1, LeastOf
  <2>3. k # 0
    BY <1>2
  <2>4. k - 1 \in Nat /\ k - 1 \notin D
    BY <2>2, <2>3
  <2>5. Place(l, s, k - 1) = Place(l, t, k - 1)
    BY <2>2, <2>4
  <2>6. k - 1 \in 0 .. n /\ k - 1 \in 0 .. m /\ (k - 1) + 1 = k
    BY <2>2, <2>3
  <2>. QED  BY <1>1, <2>2, <2>5, <2>6 DEF Spells
<1>4. ~(n < m)
  <2>1. SUFFICES ASSUME n < m PROVE FALSE
    OBVIOUS
  <2>2. Place(l, t, n + 1) = tail(l)
    BY <1>2, <1>3, <2>1
  <2>. QED  BY <1>2, <2>1, <2>2
<1>5. ~(m < n)
  <2>1. SUFFICES ASSUME m < n PROVE FALSE
    OBVIOUS
  <2>2. Place(l, s, m + 1) = tail(l)
    BY <1>2, <1>3, <2>1
  <2>. QED  BY <1>2, <2>1, <2>2
<1>6. n = m /\ \A k \in 1 .. n : s[k] = t[k]
  <2>1. n = m
    BY <1>4, <1>5
  <2>2. \A k \in 1 .. n : k \notin D
    BY <1>3
  <2>. QED  BY <1>2, <2>1, <2>2
<1>7. s \in [1 .. n -> Elements] /\ t \in [1 .. n -> Elements]
  <2>1. s \in [1 .. Len(s) -> Elements] /\ t \in [1 .. Len(t) -> Elements]
    OBVIOUS
  <2>. QED  BY <1>1, <1>6, <2>1
<1>. QED  BY <1>6, <1>7

\* A list of distinct elements is no longer than there are elements.
LEMMA OrderOf ==
    ASSUME NEW s \in Seq(Elements), Once(s)
    PROVE  s \in Orders
<1>1. s \in [1 .. Len(s) -> Elements] /\ Len(s) \in Nat
  OBVIOUS
<1>2. s \in Injection(1 .. Len(s), Elements)
  BY <1>1 DEF Once, Injection, IsInjective
<1>3. Cardinality(1 .. Len(s)) <= Cardinality(Elements) /\ Cardinality(Elements) \in Nat
  BY <1>2, FS_Injection, FS_CardinalityType, ListAssumption
<1>4. Cardinality(1 .. Len(s)) = Len(s)
  <2>1. PICK n \in Nat : n = Len(s)
    BY <1>1
  <2>2. n - 1 + 1 = n /\ (1 > n <=> n = 0)
    OBVIOUS
  <2>3. Cardinality(1 .. n) = IF 1 > n THEN 0 ELSE n - 1 + 1
    BY FS_Interval
  <2>. QED  BY <2>1, <2>2, <2>3
<1>5. Len(s) \in 0 .. Cardinality(Elements)
  BY <1>1, <1>3, <1>4
<1>. QED  BY <1>1, <1>5 DEF Orders

\* So Along finds the sequence that is on a list.
LEMMA AlongIs ==
    ASSUME NEW nx, NEW l \in Lists, NEW s \in Seq(Elements), Once(s), Spells(nx, l, s)
    PROVE  Along(nx, l) = s
<1>1. s \in Orders
  BY OrderOf
<1>2. \A t \in Orders : t \in Seq(Elements)
  <2>1. \A n \in Nat : \A t \in [1 .. n -> Elements] : t \in Seq(Elements)
    OBVIOUS
  <2>2. Cardinality(Elements) \in Nat
    BY FS_CardinalityType, ListAssumption
  <2>. QED  BY <2>1, <2>2 DEF Orders
<1>3. \A t \in Orders : Spells(nx, l, t) => t = s
  BY <1>2, SpelledOnce
<1>. QED  BY <1>1, <1>3 DEF Along

\* s2 is s with e behind its i-th element.
Inserted(s, i, e, s2) ==
    /\ s2 \in Seq(Elements) /\ Len(s2) = Len(s) + 1
    /\ \A k \in 1 .. i : s2[k] = s[k]
    /\ s2[i + 1] = e
    /\ \A k \in i + 1 .. Len(s) : s2[k + 1] = s[k]

\* s2 is s without its i-th element.
Without(s, i, s2) ==
    /\ s2 \in Seq(Elements) /\ Len(s2) = Len(s) - 1
    /\ \A k \in 1 .. i - 1 : s2[k] = s[k]
    /\ \A k \in i .. Len(s) - 1 : s2[k] = s[k + 1]

Links == [Nodes -> Nodes \cup {NULL}]

\* f with v at x.
With(f, x, v) == [f EXCEPT ![x] = v]

\* The links after insert(before, e) and after remove(e).
NextWith(nx, pv, before, e) == [nx EXCEPT ![e] = before, ![pv[before]] = e]
PrevWith(pv, before, e) == [pv EXCEPT ![e] = pv[before], ![before] = e]
NextWithout(nx, pv, e) == [nx EXCEPT ![pv[e]] = nx[e]]
PrevWithout(nx, pv, e) == [pv EXCEPT ![nx[e]] = pv[e]]

\* insert links an element that is on no list in where it should.
LEMMA InsertLinks ==
    ASSUME NEW nx \in Links, NEW pv \in Links, NEW l \in Lists,
           NEW s \in Seq(Elements), Once(s), Linked(nx, pv, l, s),
           NEW i \in 0 .. Len(s), NEW e \in Elements, ~On(e, s),
           NEW s2, Inserted(s, i, e, s2),
           NEW before, before = Place(l, s, i + 1),
           NEW nx2, nx2 = NextWith(nx, pv, before, e),
           NEW pv2, pv2 = PrevWith(pv, before, e)
    PROVE  /\ Linked(nx2, pv2, l, s2) /\ Once(s2)
           /\ pv[before] = Place(l, s, i)
           /\ \A x \in Elements : On(x, s2) <=> x = e \/ On(x, s)
<1>0. PICK n \in Nat : n = Len(s)
  OBVIOUS
<1>1. /\ \A k \in 0 .. n + 1 : Place(l, s, k) \in Nodes
      /\ \A j, k \in 0 .. n + 1 : Place(l, s, j) = Place(l, s, k) => j = k
      /\ \A k \in 1 .. n : Place(l, s, k) = s[k] /\ s[k] \in Elements
      /\ Place(l, s, 0) = head(l) /\ Place(l, s, n + 1) = tail(l)
      /\ \A k \in 0 .. n + 1 : Place(l, s, k) \in Elements => k \in 1 .. n
  BY <1>0, PlacesApart
<1>2. \A k \in 0 .. n + 1 : Place(l, s, k) # e
  BY <1>0, <1>1 DEF On
<1>3. /\ \A k \in 0 .. i : Place(l, s2, k) = Place(l, s, k)
      /\ Place(l, s2, i + 1) = e
      /\ \A k \in i + 2 .. n + 2 : Place(l, s2, k) = Place(l, s, k - 1)
  <2>1. \A k \in 1 .. n + 1 : Place(l, s2, k) = s2[k]
    BY <1>0 DEF Place, Inserted
  <2>2. Place(l, s2, 0) = head(l) /\ Place(l, s2, n + 2) = tail(l)
    BY <1>0 DEF Place, Inserted
  <2>3. \A k \in 0 .. i : Place(l, s2, k) = Place(l, s, k)
    BY <1>0, <1>1, <2>1, <2>2 DEF Inserted
  <2>4. Place(l, s2, i + 1) = e
    BY <1>0, <2>1 DEF Inserted
  <2>5. ASSUME NEW k \in i + 2 .. n + 1
        PROVE  Place(l, s2, k) = Place(l, s, k - 1)
    <3>1. k - 1 \in i + 1 .. n /\ k - 1 \in 1 .. n /\ k \in 1 .. n + 1 /\ (k - 1) + 1 = k
      BY <1>0
    <3>2. s2[k] = s[k - 1]
      BY <1>0, <3>1 DEF Inserted
    <3>. QED  BY <1>1, <2>1, <3>1, <3>2
  <2>6. Place(l, s2, n + 2) = Place(l, s, n + 2 - 1)
    BY <1>1, <2>2
  <2>7. ASSUME NEW k \in i + 2 .. n + 2
        PROVE  Place(l, s2, k) = Place(l, s, k - 1)
    <3>1. k \in i + 2 .. n + 1 \/ k = n + 2
      BY <1>0
    <3>2. CASE k = n + 2
      BY <2>6, <3>2
    <3>. QED  BY <2>5, <3>1, <3>2
  <2>. QED  BY <2>3, <2>4, <2>7
<1>4. /\ \A k \in 0 .. n : nx[Place(l, s, k)] = Place(l, s, k + 1) 
      /\ \A k \in 0 .. n : pv[Place(l, s, k + 1)] = Place(l, s, k)
  BY <1>0 DEF Linked
<1>5. pv[before] = Place(l, s, i) /\ before \in Nodes /\ pv[before] \in Nodes /\ e \in Nodes
  <2>1. i \in 0 .. n /\ i \in 0 .. n + 1 /\ i + 1 \in 0 .. n + 1
    BY <1>0
  <2>. QED  BY <1>1, <1>4, <2>1, SentinelsApart
<1>6. /\ nx2[e] = before /\ nx2[Place(l, s, i)] = e
      /\ pv2[e] = Place(l, s, i) /\ pv2[Place(l, s, i + 1)] = e
      /\ \A k \in 0 .. n + 1 : k # i => nx2[Place(l, s, k)] = nx[Place(l, s, k)]
      /\ \A k \in 0 .. n + 1 : k # i + 1 => pv2[Place(l, s, k)] = pv[Place(l, s, k)]
  <2>1. i \in 0 .. n + 1 /\ i + 1 \in 0 .. n + 1
    BY <1>0
  <2>2. \A x \in Nodes : /\ nx2[x] = IF x = Place(l, s, i) THEN e ELSE IF x = e THEN before ELSE nx[x]
                         /\ pv2[x] = IF x = before THEN e ELSE IF x = e THEN Place(l, s, i) ELSE pv[x]
    BY <1>5 DEF Links, NextWith, PrevWith
  <2>. QED  BY <1>1, <1>2, <1>5, <2>1, <2>2
<1>7. Linked(nx2, pv2, l, s2)
  <2>1. SUFFICES ASSUME NEW k \in 0 .. n + 1
                 PROVE  /\ nx2[Place(l, s2, k)] = Place(l, s2, k + 1)
                        /\ pv2[Place(l, s2, k + 1)] = Place(l, s2, k)
    BY <1>0 DEF Linked, Inserted
  <2>2. CASE k < i
    <3>1. k \in 0 .. n /\ k \in 0 .. n + 1 /\ k + 1 \in 0 .. n + 1 /\ k \in 0 .. i /\ k + 1 \in 0 .. i /\ k # i /\ k + 1 # i + 1
      BY <1>0, <2>2
    <3>. QED  BY <1>3, <1>4, <1>6, <3>1
  <2>3. CASE k = i
    <3>1. i \in 0 .. i
      OBVIOUS
    <3>. QED  BY <1>3, <1>6, <2>3, <3>1
  <2>4. CASE k = i + 1
    <3>1. i + 2 \in i + 2 .. n + 2 /\ i + 2 - 1 = i + 1 /\ k + 1 = i + 2
      BY <1>0, <2>4
    <3>2. Place(l, s2, i + 2) = Place(l, s, i + 1)
      BY <1>3, <3>1
    <3>. QED  BY <1>3, <1>6, <2>4, <3>1, <3>2
  <2>5. CASE k > i + 1
    <3>1. PICK j \in Nat : j = k - 1
      BY <2>5
    <3>2. j \in 0 .. n /\ j \in 0 .. n + 1 /\ j + 1 \in 0 .. n + 1 /\ j # i /\ j + 1 # i + 1 /\ k = j + 1
          /\ k \in i + 2 .. n + 2 /\ k + 1 \in i + 2 .. n + 2 /\ k + 1 - 1 = j + 1
      BY <1>0, <2>5, <3>1
    <3>3. Place(l, s2, k) = Place(l, s, j) /\ Place(l, s2, k + 1) = Place(l, s, j + 1)
      BY <1>3, <3>1, <3>2
    <3>. QED  BY <1>4, <1>6, <3>2, <3>3
  <2>. QED  BY <2>2, <2>3, <2>4, <2>5, <1>0
<1>8. \A k \in 1 .. n + 1 : \/ k <= i /\ k \in 1 .. n /\ s2[k] = s[k]
                            \/ k = i + 1 /\ s2[k] = e
                            \/ k > i + 1 /\ k - 1 \in 1 .. n /\ s2[k] = s[k - 1]
  <2>1. SUFFICES ASSUME NEW k \in 1 .. n + 1, k > i + 1
                 PROVE  k - 1 \in 1 .. n /\ s2[k] = s[k - 1]
    BY <1>0 DEF Inserted
  <2>2. k - 1 \in i + 1 .. n /\ (k - 1) + 1 = k
    BY <1>0, <2>1
  <2>. QED  BY <1>0, <2>2 DEF Inserted
<1>9. Once(s2)
  <2>1. SUFFICES ASSUME NEW j \in 1 .. n + 1, NEW k \in 1 .. n + 1, s2[j] = s2[k]
                 PROVE  j = k
    BY <1>0 DEF Once, Inserted
  <2>2. \A a \in 1 .. n : s[a] # e
    BY <1>0 DEF On
  <2>3. \A a, b \in 1 .. n : s[a] = s[b] => a = b
    BY <1>0 DEF Once
  <2>4. CASE j = i + 1 \/ k = i + 1
    BY <1>8, <2>1, <2>2, <2>4
  <2>5. SUFFICES ASSUME j # i + 1, k # i + 1
                 PROVE  j = k
    BY <2>4
  <2>6. PICK a \in 1 .. n : s2[j] = s[a] /\ ((j <= i /\ a = j) \/ (j > i + 1 /\ a = j - 1))
    BY <1>8, <2>5
  <2>7. PICK b \in 1 .. n : s2[k] = s[b] /\ ((k <= i /\ b = k) \/ (k > i + 1 /\ b = k - 1))
    BY <1>8, <2>5
  <2>8. s[a] = s[b]
    BY <2>1, <2>6, <2>7
  <2>9. a = b
    BY <2>3, <2>8
  <2>10. i \in Int /\ j \in Int /\ k \in Int
    BY <1>0
  <2>. QED  BY <2>6, <2>7, <2>9, <2>10
<1>10. ASSUME NEW x \in Elements
       PROVE  On(x, s2) <=> x = e \/ On(x, s)
  <2>1. On(x, s2) => x = e \/ On(x, s)
    BY <1>0, <1>8 DEF On, Inserted
  <2>2. On(e, s2)
    BY <1>0 DEF On, Inserted
  <2>3. ASSUME NEW a \in 1 .. n, s[a] = x
        PROVE  On(x, s2)
    <3>1. CASE a <= i
      BY <1>0, <2>3, <3>1 DEF On, Inserted
    <3>2. CASE a > i
      <4>1. a \in i + 1 .. Len(s) /\ a + 1 \in 1 .. Len(s2)
        BY <1>0, <3>2 DEF Inserted
      <4>. QED  BY <2>3, <4>1 DEF On, Inserted
    <3>. QED  BY <1>0, <3>1, <3>2
  <2>. QED  BY <1>0, <2>1, <2>2, <2>3 DEF On
<1>. QED  BY <1>5, <1>7, <1>9, <1>10

\* remove links its neighbours together.
LEMMA RemoveLinks ==
    ASSUME NEW nx \in Links, NEW pv \in Links, NEW l \in Lists,
           NEW s \in Seq(Elements), Once(s), Linked(nx, pv, l, s),
           NEW i \in 1 .. Len(s), NEW e, e = s[i],
           NEW s2, Without(s, i, s2),
           NEW nx2, nx2 = NextWithout(nx, pv, e),
           NEW pv2, pv2 = PrevWithout(nx, pv, e)
    PROVE  /\ Linked(nx2, pv2, l, s2) /\ Once(s2)
           /\ pv[e] = Place(l, s, i - 1) /\ nx[e] = Place(l, s, i + 1)
           /\ \A x \in Elements : On(x, s2) <=> x # e /\ On(x, s)
<1>0. PICK n \in Nat : n = Len(s)
  OBVIOUS
<1>1. /\ \A k \in 0 .. n + 1 : Place(l, s, k) \in Nodes
      /\ \A j, k \in 0 .. n + 1 : Place(l, s, j) = Place(l, s, k) => j = k
      /\ \A k \in 1 .. n : Place(l, s, k) = s[k] /\ s[k] \in Elements
      /\ Place(l, s, 0) = head(l) /\ Place(l, s, n + 1) = tail(l)
  BY <1>0, PlacesApart
<1>2. i - 1 \in 0 .. n /\ i \in 0 .. n /\ i - 1 \in 0 .. n + 1 /\ i + 1 \in 0 .. n + 1 /\ (i - 1) + 1 = i
  BY <1>0
<1>3. /\ \A k \in 0 .. i - 1 : Place(l, s2, k) = Place(l, s, k)
      /\ \A k \in i .. n : Place(l, s2, k) = Place(l, s, k + 1)
  <2>1. \A k \in 1 .. n - 1 : Place(l, s2, k) = s2[k]
    BY <1>0 DEF Place, Without
  <2>2. Place(l, s2, 0) = head(l) /\ Place(l, s2, n) = tail(l)
    <3>1. Len(s2) + 1 = n /\ n # 0
      BY <1>0 DEF Without
    <3>. QED  BY <3>1 DEF Place
  <2>3. ASSUME NEW k \in 0 .. i - 1
        PROVE  Place(l, s2, k) = Place(l, s, k)
    BY <1>0, <1>1, <2>1, <2>2 DEF Without
  <2>4. ASSUME NEW k \in i .. n - 1
        PROVE  Place(l, s2, k) = Place(l, s, k + 1)
    <3>1. k \in 1 .. n - 1 /\ k + 1 \in 1 .. n
      BY <1>0
    <3>2. s2[k] = s[k + 1]
      BY <1>0 DEF Without
    <3>. QED  BY <1>1, <2>1, <3>1, <3>2
  <2>5. \A k \in i .. n : k \in i .. n - 1 \/ k = n
    BY <1>0
  <2>. QED  BY <1>1, <2>2, <2>3, <2>4, <2>5
<1>4. /\ \A k \in 0 .. n : nx[Place(l, s, k)] = Place(l, s, k + 1) 
      /\ \A k \in 0 .. n : pv[Place(l, s, k + 1)] = Place(l, s, k)
  BY <1>0 DEF Linked
<1>5. pv[e] = Place(l, s, i - 1) /\ nx[e] = Place(l, s, i + 1)
  <2>1. e = Place(l, s, i)
    BY <1>0, <1>1
  <2>. QED  BY <1>2, <1>4, <2>1
<1>6. /\ nx2[Place(l, s, i - 1)] = Place(l, s, i + 1)
      /\ pv2[Place(l, s, i + 1)] = Place(l, s, i - 1)
      /\ \A k \in 0 .. n + 1 : k # i - 1 => nx2[Place(l, s, k)] = nx[Place(l, s, k)]
      /\ \A k \in 0 .. n + 1 : k # i + 1 => pv2[Place(l, s, k)] = pv[Place(l, s, k)]
  <2>1. \A x \in Nodes : /\ nx2[x] = IF x = Place(l, s, i - 1) THEN Place(l, s, i + 1) ELSE nx[x]
                         /\ pv2[x] = IF x = Place(l, s, i + 1) THEN Place(l, s, i - 1) ELSE pv[x]
    BY <1>5 DEF Links, NextWithout, PrevWithout
  <2>. QED  BY <1>1, <1>2, <2>1
<1>7. Linked(nx2, pv2, l, s2)
  <2>1. SUFFICES ASSUME NEW k \in 0 .. n - 1
                 PROVE  /\ nx2[Place(l, s2, k)] = Place(l, s2, k + 1)
                        /\ pv2[Place(l, s2, k + 1)] = Place(l, s2, k)
    BY <1>0 DEF Linked, Without
  <2>2. CASE k < i - 1
    <3>1. k \in 0 .. n /\ k \in 0 .. n + 1 /\ k + 1 \in 0 .. n + 1 /\ k \in 0 .. i - 1 /\ k + 1 \in 0 .. i - 1 /\ k # i - 1 /\ k + 1 # i + 1
      BY <1>0, <2>2
    <3>. QED  BY <1>3, <1>4, <1>6, <3>1
  <2>3. CASE k = i - 1
    <3>1. i - 1 \in 0 .. i - 1 /\ i \in i .. n /\ k + 1 = i
      BY <1>0, <2>3
    <3>. QED  BY <1>3, <1>6, <2>3, <3>1
  <2>4. CASE k > i - 1
    <3>1. PICK j \in Nat : j = k + 1
      OBVIOUS
    <3>2. j \in 0 .. n /\ j \in 0 .. n + 1 /\ j + 1 \in 0 .. n + 1 /\ j # i - 1 /\ j + 1 # i + 1
          /\ k \in i .. n /\ j \in i .. n
      BY <1>0, <2>4, <3>1
    <3>3. Place(l, s2, k) = Place(l, s, j) /\ Place(l, s2, k + 1) = Place(l, s, j + 1)
      BY <1>3, <3>1, <3>2
    <3>. QED  BY <1>4, <1>6, <3>1, <3>2, <3>3
  <2>. QED  BY <2>2, <2>3, <2>4, <1>0
<1>8. \A k \in 1 .. n - 1 : \/ k < i /\ k \in 1 .. n /\ s2[k] = s[k]
                            \/ k >= i /\ k + 1 \in 1 .. n /\ s2[k] = s[k + 1]
  BY <1>0 DEF Without
<1>9. Once(s2)
  <2>1. SUFFICES ASSUME NEW j \in 1 .. n - 1, NEW k \in 1 .. n - 1, s2[j] = s2[k]
                 PROVE  j = k
    BY <1>0 DEF Once, Without
  <2>. QED  BY <1>0, <1>8, <2>1 DEF Once
<1>10. ASSUME NEW x \in Elements
       PROVE  On(x, s2) <=> x # e /\ On(x, s)
  <2>1. ASSUME NEW k \in 1 .. n - 1, s2[k] = x
        PROVE  x # e /\ On(x, s)
    BY <1>0, <1>8, <2>1 DEF On, Once
  <2>2. ASSUME NEW a \in 1 .. n, s[a] = x, x # e
        PROVE  On(x, s2)
    <3>1. CASE a < i
      BY <1>0, <2>2, <3>1 DEF On, Without
    <3>2. CASE a > i
      <4>1. PICK b \in Nat : b = a - 1
        BY <3>2
      <4>2. b \in i .. Len(s) - 1 /\ b \in 1 .. Len(s2) /\ b + 1 = a
        BY <1>0, <3>2, <4>1 DEF Without
      <4>. QED  BY <2>2, <4>2 DEF On, Without
    <3>. QED  BY <1>0, <2>2, <3>1, <3>2
  <2>3. Len(s2) = n - 1
    BY <1>0 DEF Without
  <2>. QED  BY <1>0, <2>1, <2>2, <2>3 DEF On
<1>. QED  BY <1>5, <1>7, <1>9, <1>10

Holders == [Elements -> Callers \cup {NULL}]
Shapes == [Lists -> Seq(Elements)]

\* Only at e and at p does ny differ from nx.
OnlyAt(nx, ny, e, p) == \A x \in Nodes : x # e /\ x # p => ny[x] = nx[x]

\* What changes the links around one list leaves the others as they are.
LEMMA OtherLists ==
    ASSUME NEW nx \in Links, NEW pv \in Links, NEW us, NEW C \in Shapes, Chains(nx, pv, us, C),
           NEW l \in Lists, NEW m \in Lists, m # l,
           NEW i \in 0 .. Len(C[l]) + 1, NEW j \in 0 .. Len(C[l]) + 1,
           NEW e \in Elements, ~On(e, C[m]),
           NEW nx2, NEW pv2,
           OnlyAt(nx, nx2, e, Place(l, C[l], i)), OnlyAt(pv, pv2, e, Place(l, C[l], j))
    PROVE  Linked(nx2, pv2, m, C[m])
<1>1. /\ C[l] \in Seq(Elements) /\ C[m] \in Seq(Elements) /\ Once(C[l]) /\ Once(C[m])
      /\ Linked(nx, pv, m, C[m]) /\ \A x \in Elements : ~(On(x, C[l]) /\ On(x, C[m]))
  BY DEF Chains, Shapes
<1>2. PICK s \in Seq(Elements) : s = C[m]
  BY <1>1
<1>3. PICK n \in Nat : n = Len(s)
  OBVIOUS
<1>4. \A k \in 0 .. n + 1 : /\ Place(m, s, k) \in Nodes
                           /\ Place(m, s, k) # Place(l, C[l], i) /\ Place(m, s, k) # Place(l, C[l], j)
  <2>1. \A a \in 0 .. Len(C[m]) + 1, b \in 0 .. Len(C[l]) + 1 : Place(m, C[m], a) # Place(l, C[l], b)
    BY <1>1, ListsApart
  <2>2. \A a \in 0 .. Len(C[m]) + 1 : Place(m, C[m], a) \in Nodes
    BY <1>1, PlacesApart
  <2>. QED  BY <1>2, <1>3, <2>1, <2>2
<1>5. \A k \in 0 .. n + 1 : Place(m, s, k) # e
  <2>1. \A k \in 1 .. Len(s) : Place(m, s, k) = s[k]
    BY <1>1, <1>2, PlacesApart
  <2>2. \A k \in 0 .. n + 1 : Place(m, s, k) \in Elements => k \in 1 .. n
    BY <1>1, <1>2, <1>3, PlacesApart
  <2>. QED  BY <1>2, <1>3, <2>1, <2>2 DEF On
<1>6. \A k \in 0 .. n : k \in 0 .. n + 1 /\ k + 1 \in 0 .. n + 1
  BY <1>3
<1>7. \A k \in 0 .. n : /\ nx[Place(m, s, k)] = Place(m, s, k + 1)
                       /\ pv[Place(m, s, k + 1)] = Place(m, s, k)
  BY <1>1, <1>2, <1>3 DEF Linked
<1>8. \A k \in 0 .. n : /\ nx2[Place(m, s, k)] = nx[Place(m, s, k)]
                       /\ pv2[Place(m, s, k + 1)] = pv[Place(m, s, k + 1)]
  BY <1>4, <1>5, <1>6 DEF OnlyAt
<1>. QED  BY <1>2, <1>3, <1>7, <1>8 DEF Linked

\* insert, seen by all the lists.
LEMMA InsertAt ==
    ASSUME NEW nx \in Links, NEW pv \in Links, NEW us \in Holders, NEW C \in Shapes,
           Chains(nx, pv, us, C),
           NEW l \in Lists, NEW i \in 0 .. Len(C[l]), NEW e \in Elements, us[e] # NULL,
           NEW s2, Inserted(C[l], i, e, s2),
           NEW before, before = Place(l, C[l], i + 1),
           NEW us2, us2 = With(us, e, NULL), NEW C2, C2 = With(C, l, s2)
    PROVE  /\ NextWith(nx, pv, before, e) \in Links
           /\ PrevWith(pv, before, e) \in Links
           /\ C2 \in Shapes
           /\ Chains(NextWith(nx, pv, before, e), PrevWith(pv, before, e), us2, C2)
           /\ pv[before] = Place(l, C[l], i)
<1>1. PICK nx2 : nx2 = NextWith(nx, pv, before, e)
  OBVIOUS
<1>2. PICK pv2 : pv2 = PrevWith(pv, before, e)
  OBVIOUS
<1>3. us2 = With(us, e, NULL)
  OBVIOUS
<1>4. C2 = With(C, l, s2)
  OBVIOUS
<1>5. PICK s \in Seq(Elements) : s = C[l]
  BY DEF Shapes
<1>6. Once(s) /\ Linked(nx, pv, l, s) /\ \A m \in Lists : ~On(e, C[m])
  BY <1>5 DEF Chains
<1>7. /\ Linked(nx2, pv2, l, s2) /\ Once(s2)
      /\ pv[before] = Place(l, s, i)
      /\ \A x \in Elements : On(x, s2) <=> x = e \/ On(x, s)
  <2>1. i \in 0 .. Len(s) /\ Inserted(s, i, e, s2) /\ before = Place(l, s, i + 1) /\ ~On(e, s)
    BY <1>5, <1>6
  <2>. QED  BY <1>1, <1>2, <1>5, <1>6, <2>1, InsertLinks
<1>8. i \in 0 .. Len(s) /\ i \in 0 .. Len(s) + 1 /\ i + 1 \in 0 .. Len(s) + 1
  BY <1>5
<1>9. before \in Nodes /\ pv[before] \in Nodes /\ e \in Nodes
  BY <1>5, <1>6, <1>7, <1>8, PlacesApart, SentinelsApart
<1>10. nx2 \in Links /\ pv2 \in Links
  BY <1>1, <1>2, <1>9 DEF Links, NextWith, PrevWith
<1>11. C2 \in Shapes /\ C2[l] = s2 /\ \A m \in Lists : m # l => C2[m] = C[m]
  BY <1>4 DEF Shapes, Inserted, With
<1>12. us2[e] = NULL /\ \A x \in Elements : x # e => us2[x] = us[x]
  BY <1>3 DEF Holders, With
<1>13. ASSUME NEW m \in Lists
       PROVE  Linked(nx2, pv2, m, C2[m]) /\ Once(C2[m])
  <2>1. CASE m = l
    BY <1>7, <1>11, <2>1
  <2>2. CASE m # l
    <3>1. /\ OnlyAt(nx, nx2, e, Place(l, C[l], i))
          /\ OnlyAt(pv, pv2, e, Place(l, C[l], i + 1))
      BY <1>1, <1>2, <1>5, <1>7, <1>9 DEF Links, NextWith, PrevWith, OnlyAt
    <3>2. Linked(nx2, pv2, m, C[m])
      BY <1>5, <1>6, <1>8, <2>2, <3>1, OtherLists
    <3>. QED  BY <1>11, <2>2, <3>2 DEF Chains
  <2>. QED  BY <2>1, <2>2
<1>14. \A m \in Lists, x \in Elements : On(x, C2[m]) <=> (x = e /\ m = l) \/ On(x, C[m])
  BY <1>5, <1>7, <1>11
<1>15. Chains(nx2, pv2, us2, C2)
  <2>1. \A m, k \in Lists, x \in Elements : On(x, C2[m]) /\ On(x, C2[k]) => m = k
    BY <1>6, <1>14 DEF Chains
  <2>2. \A x \in Elements : us2[x] = NULL <=> \E m \in Lists : On(x, C2[m])
    BY <1>12, <1>14 DEF Chains
  <2>. QED  BY <1>13, <2>1, <2>2 DEF Chains
<1>. QED  BY <1>1, <1>2, <1>3, <1>4, <1>5, <1>7, <1>10, <1>11, <1>15

\* remove, seen by all the lists.
LEMMA RemoveAt ==
    ASSUME NEW nx \in Links, NEW pv \in Links, NEW us \in Holders, NEW C \in Shapes,
           Chains(nx, pv, us, C), NEW c \in Callers,
           NEW l \in Lists, NEW i \in 1 .. Len(C[l]), NEW e, e = C[l][i],
           NEW s2, Without(C[l], i, s2),
           NEW us2, us2 = With(us, e, c), NEW C2, C2 = With(C, l, s2)
    PROVE  /\ NextWithout(nx, pv, e) \in Links
           /\ PrevWithout(nx, pv, e) \in Links
           /\ C2 \in Shapes
           /\ Chains(NextWithout(nx, pv, e), PrevWithout(nx, pv, e), us2, C2)
           /\ pv[e] = Place(l, C[l], i - 1) /\ nx[e] = Place(l, C[l], i + 1)
<1>1. PICK nx2 : nx2 = NextWithout(nx, pv, e)
  OBVIOUS
<1>2. PICK pv2 : pv2 = PrevWithout(nx, pv, e)
  OBVIOUS
<1>3. us2 = With(us, e, c)
  OBVIOUS
<1>4. C2 = With(C, l, s2)
  OBVIOUS
<1>5. PICK s \in Seq(Elements) : s = C[l]
  BY DEF Shapes
<1>6. Once(s) /\ Linked(nx, pv, l, s) /\ e \in Elements /\ On(e, s)
      /\ \A m \in Lists : m # l => ~On(e, C[m])
  BY <1>5 DEF Chains, On
<1>7. /\ Linked(nx2, pv2, l, s2) /\ Once(s2)
      /\ pv[e] = Place(l, s, i - 1) /\ nx[e] = Place(l, s, i + 1)
      /\ \A x \in Elements : On(x, s2) <=> x # e /\ On(x, s)
  <2>1. i \in 1 .. Len(s) /\ Without(s, i, s2) /\ e = s[i]
    BY <1>5
  <2>. QED  BY <1>1, <1>2, <1>5, <1>6, <2>1, RemoveLinks
<1>8. i \in 0 .. Len(s) /\ i - 1 \in 0 .. Len(s) + 1 /\ i + 1 \in 0 .. Len(s) + 1
  BY <1>5
<1>9. nx[e] \in Nodes /\ pv[e] \in Nodes /\ e \in Nodes
  BY <1>5, <1>6, <1>7, <1>8, PlacesApart, SentinelsApart
<1>10. nx2 \in Links /\ pv2 \in Links
  BY <1>1, <1>2, <1>9 DEF Links, NextWithout, PrevWithout
<1>11. C2 \in Shapes /\ C2[l] = s2 /\ \A m \in Lists : m # l => C2[m] = C[m]
  BY <1>4 DEF Shapes, Without, With
<1>12. us2[e] = c /\ c # NULL /\ \A x \in Elements : x # e => us2[x] = us[x]
  BY <1>3, <1>6, ListAssumption DEF Holders, With
<1>13. ASSUME NEW m \in Lists
       PROVE  Linked(nx2, pv2, m, C2[m]) /\ Once(C2[m])
  <2>1. CASE m = l
    BY <1>7, <1>11, <2>1
  <2>2. CASE m # l
    <3>1. /\ OnlyAt(nx, nx2, e, Place(l, C[l], i - 1))
          /\ OnlyAt(pv, pv2, e, Place(l, C[l], i + 1))
      BY <1>1, <1>2, <1>5, <1>7, <1>9 DEF Links, NextWithout, PrevWithout, OnlyAt
    <3>2. Linked(nx2, pv2, m, C[m])
      <4>1. PICK j, k \in 0 .. Len(C[l]) + 1 : j = i - 1 /\ k = i + 1
        BY <1>5, <1>8
      <4>2. OnlyAt(nx, nx2, e, Place(l, C[l], j)) /\ OnlyAt(pv, pv2, e, Place(l, C[l], k))
        BY <3>1, <4>1
      <4>3. e \in Elements /\ ~On(e, C[m])
        BY <1>6, <2>2
      <4>. QED  BY <2>2, <4>1, <4>2, <4>3, OtherLists
    <3>. QED  BY <1>11, <2>2, <3>2 DEF Chains
  <2>. QED  BY <2>1, <2>2
<1>14. \A m \in Lists, x \in Elements : On(x, C2[m]) <=> x # e /\ On(x, C[m])
  BY <1>5, <1>6, <1>7, <1>11
<1>15. Chains(nx2, pv2, us2, C2)
  <2>1. \A m, k \in Lists, x \in Elements : On(x, C2[m]) /\ On(x, C2[k]) => m = k
    BY <1>6, <1>14 DEF Chains
  <2>2. \A x \in Elements : us2[x] = NULL <=> \E m \in Lists : On(x, C2[m])
    BY <1>12, <1>14 DEF Chains
  <2>. QED  BY <1>13, <2>1, <2>2 DEF Chains
<1>. QED  BY <1>1, <1>2, <1>3, <1>4, <1>5, <1>7, <1>10, <1>11, <1>15

-----------------------------------------------------------------------------
(* Lists: the invariant of the links and of the callers' registers. *)

\* No element has been on two lists.
NoMany == \A e \in Elements : home[e] # Many

\* Where a walk along l may stand: its end, and whoever has been on l alone.
Trail(l) == {tail(l)} \cup {e \in Elements : home[e] = l}

\* The links and the hands, when the lists are C: nothing leads to an element
\* that has been on no list, and who has left l still leads back to it.
SharedInv(C) ==
    /\ next \in Links /\ prev \in Links /\ user \in Holders
    /\ home \in [Elements -> Lists \cup {NULL, Many}]
    /\ C \in Shapes /\ Chains(next, prev, user, C)
    /\ \A l \in Lists, e \in Elements : On(e, C[l]) => home[e] \in {l, Many}
    /\ \A e \in Elements : home[e] = NULL => \A n \in Nodes : next[n] # e
    /\ NoMany => \A l \in Lists, e \in Elements : home[e] = l => next[e] \in Trail(l)

Inside(c) == pc[c] \in {"locked", "push", "pop", "release"}

\* What a caller in the middle of an operation relies on.
CallerInv(c) ==
    /\ Inside(c) => on[c] \in Lists /\ owner[on[c]] = c
    /\ At(c, "push") => /\ elem[c] \in Elements /\ user[elem[c]] = c
                       /\ spot[c] \in {next[head(on[c])], tail(on[c])}
    /\ At(c, "pop") => spot[c] = next[head(on[c])] /\ spot[c] \in Elements
    /\ pc[c] \in {"find", "absent"} =>
          /\ on[c] \in Lists /\ elem[c] \in Elements
          /\ user[elem[c]] = c /\ home[elem[c]] = NULL
          /\ spot[c] # elem[c] /\ spot[c] \in Nodes \cup {NULL}
          /\ NoMany => spot[c] \in Trail(on[c])
    /\ ~At(c, "present")
    /\ At(c, "astray") => ~NoMany

RegsTyped ==
    /\ pc \in [Callers -> {"out", "locked", "push", "pop", "release",
                           "find", "absent", "present", "astray"}]
    /\ DOMAIN on = Callers /\ DOMAIN elem = Callers /\ DOMAIN spot = Callers
    /\ DOMAIN owner = Lists

ListInv ==
    /\ RegsTyped
    /\ \E C \in Shapes : SharedInv(C)
    /\ \A c \in Callers : CallerInv(c)

\* c puts e, which it has, behind the i-th element of l.
Puts(c, l, e, i, C) ==
    /\ user[e] = c /\ i \in 0 .. Len(C[l])
    /\ next' = NextWith(next, prev, Place(l, C[l], i + 1), e)
    /\ prev' = PrevWith(prev, Place(l, C[l], i + 1), e)
    /\ Given(c, l, e)

\* c takes the i-th element of l.
Takes(c, l, i, C) ==
    /\ i \in 1 .. Len(C[l])
    /\ next' = NextWithout(next, prev, C[l][i])
    /\ prev' = PrevWithout(next, prev, C[l][i])
    /\ Taken(c, C[l][i])

\* The head of a list leads to its first element.
LEMMA FirstPlace ==
    ASSUME NEW C, SharedInv(C), NEW l \in Lists
    PROVE  /\ C[l] \in Seq(Elements) /\ Once(C[l]) /\ Linked(next, prev, l, C[l])
           /\ next[head(l)] = Place(l, C[l], 1)
           /\ prev[tail(l)] = Place(l, C[l], Len(C[l]))
<1>1. C[l] \in Seq(Elements) /\ Once(C[l]) /\ Linked(next, prev, l, C[l])
  BY DEF SharedInv, Chains, Shapes
<1>2. PICK s \in Seq(Elements) : s = C[l]
  BY <1>1
<1>3. PICK n \in Nat : n = Len(s)
  BY <1>2
<1>4. Place(l, s, 0) = head(l) /\ Place(l, s, n + 1) = tail(l)
  BY <1>3 DEF Place
<1>5. next[Place(l, s, 0)] = Place(l, s, 0 + 1) /\ prev[Place(l, s, n + 1)] = Place(l, s, n)
  <2>1. 0 \in 0 .. n /\ n \in 0 .. n
    BY <1>3
  <2>. QED  BY <1>1, <1>2, <1>3, <2>1 DEF Linked
<1>. QED  BY <1>1, <1>2, <1>3, <1>4, <1>5

\* The places of a list, seen by those who have been on it.
LEMMA PlaceHomes ==
    ASSUME NEW C, SharedInv(C), NEW l \in Lists, NEW k \in 0 .. Len(C[l]) + 1
    PROVE  /\ Place(l, C[l], k) \in Nodes
           /\ Place(l, C[l], k) \in Elements => home[Place(l, C[l], k)] \in {l, Many}
           /\ k # 0 => Place(l, C[l], k) \in Elements \cup {tail(l)}
<1>1. PICK s \in Seq(Elements) : s = C[l] /\ Once(s)
  BY FirstPlace
<1>2. /\ Place(l, s, k) \in Nodes
      /\ Place(l, s, k) \in Elements => k \in 1 .. Len(s)
      /\ k \in 1 .. Len(s) => Place(l, s, k) = s[k] /\ s[k] \in Elements
      /\ Place(l, s, Len(s) + 1) = tail(l)
  BY <1>1, PlacesApart
<1>3. k \in 1 .. Len(s) => On(s[k], s)
  BY DEF On
<1>4. k = 0 \/ k = Len(s) + 1 \/ k \in 1 .. Len(s)
  BY <1>1
<1>. QED  BY <1>1, <1>2, <1>3, <1>4 DEF SharedInv

\* Putting an element on a list keeps the links and hands in order.
LEMMA PutKeeps ==
    ASSUME NEW C, SharedInv(C), NEW c \in Callers, NEW l \in Lists, NEW e \in Elements, NEW i,
           Puts(c, l, e, i, C), NEW s2, Inserted(C[l], i, e, s2),
           NEW C2, C2 = With(C, l, s2)
    PROVE  /\ SharedInv(C2)'
           /\ NoMany' => NoMany /\ \A m \in Lists : Trail(m) \subseteq Trail(m)'
           /\ user' = [user EXCEPT ![e] = NULL]
           /\ \A x \in Elements : x # e => home'[x] = home[x]
<1>1. /\ next \in Links /\ prev \in Links /\ user \in Holders
      /\ home \in [Elements -> Lists \cup {NULL, Many}]
      /\ C \in Shapes /\ Chains(next, prev, user, C)
  BY DEF SharedInv
<1>2. i \in 0 .. Len(C[l]) /\ user[e] # NULL
  BY ListAssumption DEF Puts
<1>3. PICK before : before = Place(l, C[l], i + 1)
  OBVIOUS
<1>4. /\ next' \in Links /\ prev' \in Links
      /\ C2 \in Shapes
      /\ Chains(next', prev', user', C2)
      /\ prev[before] = Place(l, C[l], i)
  <2>1. /\ next' = NextWith(next, prev, before, e) /\ prev' = PrevWith(prev, before, e)
        /\ user' = [user EXCEPT ![e] = NULL]
    BY <1>3 DEF Puts, Given
  <2>2. PICK us2 : us2 = With(user, e, NULL)
    OBVIOUS
  <2>3. C2 = With(C, l, s2)
    OBVIOUS
  <2>4. PICK nx \in Links, pv \in Links, us \in Holders :
           nx = next /\ pv = prev /\ us = user /\ us2 = With(us, e, NULL) /\ C \in Shapes /\ Chains(nx, pv, us, C)
    BY <1>1, <2>2
  <2>5. /\ NextWith(nx, pv, before, e) \in Links /\ PrevWith(pv, before, e) \in Links
        /\ C2 \in Shapes
        /\ Chains(NextWith(nx, pv, before, e), PrevWith(pv, before, e), us2, C2)
        /\ pv[before] = Place(l, C[l], i)
    BY <1>2, <1>3, <2>2, <2>3, <2>4, InsertAt
  <2>. QED  BY <2>1, <2>2, <2>3, <2>4, <2>5 DEF With
<1>5. user' = [user EXCEPT ![e] = NULL] /\ user' \in Holders
  BY <1>1 DEF Puts, Given, Holders
<1>6. /\ home'[e] = IF home[e] \in {NULL, l} THEN l ELSE Many
      /\ \A x \in Elements : x # e => home'[x] = home[x]
      /\ home' \in [Elements -> Lists \cup {NULL, Many}]
  BY <1>1 DEF Puts, Given
<1>7. l # NULL /\ l # Many /\ Many # NULL /\ NULL \notin Nodes
  BY ListAssumption
<1>8. /\ before \in Elements \cup {tail(l)} /\ before \in Nodes
      /\ before \in Elements => home[before] \in {l, Many}
      /\ prev[before] \in Nodes
      /\ prev[before] \in Elements => home[prev[before]] \in {l, Many}
  <2>1. C[l] \in Seq(Elements)
    BY FirstPlace
  <2>2. PICK j, k \in 0 .. Len(C[l]) + 1 : j = i /\ k = i + 1 /\ k # 0
    BY <1>2, <2>1
  <2>. QED  BY <1>3, <1>4, <2>2, PlaceHomes
<1>9. /\ e \in Nodes
      /\ next'[prev[before]] = e
      /\ e # prev[before] => next'[e] = before
      /\ \A x \in Nodes : x # e /\ x # prev[before] => next'[x] = next[x]
  <2>1. e \in Nodes
    BY SentinelsApart
  <2>2. next' = [next EXCEPT ![e] = before, ![prev[before]] = e]
    BY <1>3 DEF Puts, NextWith
  <2>. QED  BY <1>1, <1>8, <2>1, <2>2 DEF Links
<1>10. e # prev[before]
  <2>1. ~On(e, C[l])
    BY <1>1, <1>2 DEF Chains
  <2>2. C[l] \in Seq(Elements) /\ Once(C[l])
    BY FirstPlace
  <2>3. i \in 0 .. Len(C[l]) + 1
    BY <1>2, <2>2
  <2>4. Place(l, C[l], i) \in Elements => i \in 1 .. Len(C[l]) /\ Place(l, C[l], i) = C[l][i]
    BY <2>2, <2>3, PlacesApart
  <2>. QED  BY <1>4, <2>1, <2>4 DEF On
<1>11. \A m \in Lists, x \in Elements : On(x, C2[m]) => (x = e /\ m = l) \/ On(x, C[m])
  <2>1. \A x \in Elements : On(x, s2) => x = e \/ On(x, C[l])
    <3>1. C[l] \in Seq(Elements)
      BY FirstPlace
    <3>2. PICK n \in Nat : n = Len(C[l])
      BY <3>1
    <3>3. ASSUME NEW k \in 1 .. n + 1, k > i + 1
          PROVE  k - 1 \in 1 .. n /\ s2[k] = C[l][k - 1]
      <4>1. k - 1 \in i + 1 .. n /\ (k - 1) + 1 = k
        BY <1>2, <3>2, <3>3
      <4>. QED  BY <1>2, <3>2, <4>1 DEF Inserted
    <3>4. ASSUME NEW k \in 1 .. n + 1
          PROVE  s2[k] = e \/ \E j \in 1 .. n : s2[k] = C[l][j]
      <4>1. CASE k <= i
        BY <1>2, <3>2, <4>1 DEF Inserted
      <4>2. CASE k = i + 1
        BY <4>2 DEF Inserted
      <4>. QED  BY <1>2, <3>2, <3>3, <4>1, <4>2
    <3>. QED  BY <3>2, <3>4 DEF On, Inserted
  <2>2. C2[l] = s2 /\ \A m \in Lists : m # l => C2[m] = C[m]
    BY <1>1 DEF Shapes, With
  <2>. QED  BY <2>1, <2>2
<1>12. \A m \in Lists, x \in Elements : On(x, C2[m]) => home'[x] \in {m, Many}
  <2>1. \A m \in Lists, x \in Elements : On(x, C[m]) => x # e /\ home[x] \in {m, Many}
    BY <1>1, <1>2 DEF Chains, SharedInv
  <2>. QED  BY <1>6, <1>11, <2>1
<1>13. NoMany' => NoMany /\ \A m \in Lists : Trail(m) \subseteq Trail(m)'
  <2>1. NoMany' => NoMany
    BY <1>6, <1>7 DEF NoMany
  <2>2. ASSUME NoMany', NEW m \in Lists, NEW x \in Elements, home[x] = m
        PROVE  home'[x] = m
    BY <1>6, <1>7, <2>2, ListAssumption DEF NoMany
  <2>. QED  BY <2>1, <2>2 DEF Trail
<1>14. ASSUME NEW x \in Elements, home'[x] = NULL, NEW n \in Nodes
       PROVE  next'[n] # x
  <2>1. home[x] = NULL /\ x # e
    BY <1>6, <1>7, <1>14
  <2>2. before # x
    BY <1>7, <1>8, <2>1, SentinelsApart
  <2>3. next[n] # x
    BY <2>1 DEF SharedInv
  <2>. QED  BY <1>9, <1>10, <2>1, <2>2, <2>3
<1>15. ASSUME NoMany', NEW m \in Lists, NEW x \in Elements, home'[x] = m
       PROVE  next'[x] \in Trail(m)'
  <2>1. /\ NoMany /\ \A y \in Lists : Trail(y) \subseteq Trail(y)'
        /\ home'[e] = l
    BY <1>6, <1>13, <1>15 DEF NoMany
  <2>2. CASE x = e
    <3>1. before \in Trail(l)
      BY <1>8, <2>1 DEF Trail, NoMany
    <3>. QED  BY <1>9, <1>10, <1>15, <2>1, <2>2, <3>1
  <2>3. CASE x # e /\ x = prev[before]
    <3>1. m = l
      BY <1>6, <1>8, <1>15, <2>1, <2>3 DEF NoMany
    <3>. QED  BY <1>9, <2>1, <2>3, <3>1 DEF Trail
  <2>4. CASE x # e /\ x # prev[before]
    <3>1. home[x] = m /\ x \in Nodes
      BY <1>6, <1>15, <2>4, SentinelsApart
    <3>2. next[x] \in Trail(m)
      BY <2>1, <3>1 DEF SharedInv
    <3>. QED  BY <1>9, <2>1, <2>4, <3>1, <3>2
  <2>. QED  BY <2>2, <2>3, <2>4
<1>16. SharedInv(C2)'
  BY <1>4, <1>5, <1>6, <1>12, <1>14, <1>15 DEF SharedInv
<1>. QED  BY <1>5, <1>6, <1>13, <1>16

\* So does taking one.
LEMMA TakeKeeps ==
    ASSUME NEW C, SharedInv(C), NEW c \in Callers, NEW l \in Lists, NEW i,
           Takes(c, l, i, C), NEW s2, Without(C[l], i, s2),
           NEW C2, C2 = With(C, l, s2)
    PROVE  /\ SharedInv(C2)'
           /\ user' = [user EXCEPT ![C[l][i]] = c] /\ home' = home
           /\ C[l][i] \in Elements /\ user[C[l][i]] = NULL
<1>1. /\ next \in Links /\ prev \in Links /\ user \in Holders
      /\ home \in [Elements -> Lists \cup {NULL, Many}]
      /\ C \in Shapes /\ Chains(next, prev, user, C)
  BY DEF SharedInv
<1>2. i \in 1 .. Len(C[l])
  BY DEF Takes
<1>3. PICK e : e = C[l][i]
  OBVIOUS
<1>4. /\ next' \in Links /\ prev' \in Links
      /\ C2 \in Shapes
      /\ Chains(next', prev', user', C2)
      /\ prev[e] = Place(l, C[l], i - 1)
  <2>1. /\ next' = NextWithout(next, prev, e) /\ prev' = PrevWithout(next, prev, e)
        /\ user' = [user EXCEPT ![e] = c]
    BY <1>3 DEF Takes, Taken
  <2>2. PICK us2 : us2 = With(user, e, c)
    OBVIOUS
  <2>3. C2 = With(C, l, s2)
    OBVIOUS
  <2>4. PICK nx \in Links, pv \in Links, us \in Holders :
           nx = next /\ pv = prev /\ us = user /\ us2 = With(us, e, c) /\ C \in Shapes /\ Chains(nx, pv, us, C)
    BY <1>1, <2>2
  <2>5. /\ NextWithout(nx, pv, e) \in Links /\ PrevWithout(nx, pv, e) \in Links
        /\ C2 \in Shapes
        /\ Chains(NextWithout(nx, pv, e), PrevWithout(nx, pv, e), us2, C2)
        /\ pv[e] = Place(l, C[l], i - 1)
    BY <1>2, <1>3, <2>2, <2>3, <2>4, RemoveAt
  <2>. QED  BY <2>1, <2>2, <2>3, <2>4, <2>5 DEF With
<1>5. e \in Elements /\ On(e, C[l]) /\ user[e] = NULL
  <2>1. C[l] \in Seq(Elements)
    BY FirstPlace
  <2>2. e \in Elements /\ On(e, C[l])
    BY <1>2, <1>3, <2>1 DEF On
  <2>. QED  BY <1>1, <2>2 DEF Chains
<1>6. user' = [user EXCEPT ![e] = c] /\ user' \in Holders /\ home' = home
  BY <1>1, <1>3 DEF Takes, Taken, Holders
<1>7. /\ prev[e] \in Nodes /\ e \in Nodes
      /\ prev[e] \in Elements => home[prev[e]] \in {l, Many}
  <2>1. C[l] \in Seq(Elements)
    BY FirstPlace
  <2>2. PICK j \in 0 .. Len(C[l]) + 1 : j = i - 1
    BY <1>2, <2>1
  <2>. QED  BY <1>4, <1>5, <2>2, PlaceHomes, SentinelsApart
<1>8. /\ next'[prev[e]] = next[e]
      /\ \A x \in Nodes : x # prev[e] => next'[x] = next[x]
  <2>1. next' = [next EXCEPT ![prev[e]] = next[e]]
    BY <1>3 DEF Takes, NextWithout
  <2>. QED  BY <1>1, <1>7, <2>1 DEF Links
<1>9. \A m \in Lists, x \in Elements : On(x, C2[m]) => On(x, C[m])
  <2>1. \A x \in Elements : On(x, s2) => On(x, C[l])
    <3>1. C[l] \in Seq(Elements)
      BY FirstPlace
    <3>2. PICK n \in Nat : n = Len(C[l])
      BY <3>1
    <3>3. ASSUME NEW k \in 1 .. n - 1
          PROVE  \E j \in 1 .. n : s2[k] = C[l][j]
      <4>1. CASE k < i
        BY <1>2, <3>2, <4>1 DEF Without
      <4>2. CASE k >= i
        <5>1. k \in i .. Len(C[l]) - 1 /\ k + 1 \in 1 .. n
          BY <1>2, <3>2, <4>2
        <5>. QED  BY <5>1 DEF Without
      <4>. QED  BY <1>2, <3>2, <4>1, <4>2
    <3>. QED  BY <3>2, <3>3 DEF On, Without
  <2>2. C2[l] = s2 /\ \A m \in Lists : m # l => C2[m] = C[m]
    BY <1>1 DEF Shapes, With
  <2>. QED  BY <2>1, <2>2
<1>10. \A m \in Lists, x \in Elements : On(x, C2[m]) => home'[x] \in {m, Many}
  BY <1>6, <1>9 DEF SharedInv
<1>11. ASSUME NEW x \in Elements, home'[x] = NULL, NEW n \in Nodes
       PROVE  next'[n] # x
  BY <1>6, <1>7, <1>8, <1>11 DEF SharedInv
<1>12. ASSUME NoMany', NEW m \in Lists, NEW x \in Elements, home'[x] = m
       PROVE  next'[x] \in Trail(m)'
  <2>1. NoMany /\ Trail(m)' = Trail(m) /\ home[x] = m
    BY <1>6, <1>12 DEF NoMany, Trail
  <2>2. CASE x = prev[e]
    <3>1. home[e] = l
      BY <1>5, <2>1 DEF SharedInv, NoMany
    <3>2. m = l
      BY <1>7, <2>1, <2>2 DEF NoMany
    <3>3. next[e] \in Trail(l)
      BY <1>5, <2>1, <3>1 DEF SharedInv
    <3>. QED  BY <1>8, <2>1, <2>2, <3>2, <3>3
  <2>3. CASE x # prev[e]
    <3>1. x \in Nodes
      BY SentinelsApart
    <3>2. next[x] \in Trail(m)
      BY <2>1 DEF SharedInv
    <3>. QED  BY <1>8, <2>1, <2>3, <3>1, <3>2
  <2>. QED  BY <2>2, <2>3
<1>13. SharedInv(C2)'
  BY <1>1, <1>4, <1>6, <1>10, <1>11, <1>12 DEF SharedInv
<1>. QED  BY <1>3, <1>5, <1>6, <1>13

\* What the operations make of the sequence.
LEMMA InsertedFirst ==
    ASSUME NEW s \in Seq(Elements), NEW e \in Elements
    PROVE  Inserted(s, 0, e, <<e>> \o s)
<1>1. <<e>> \in Seq(Elements) /\ Len(<<e>>) = 1 /\ <<e>>[1] = e
  OBVIOUS
<1>2. PICK t : t = <<e>>
  OBVIOUS
<1>3. /\ t \o s \in Seq(Elements) /\ Len(t \o s) = 1 + Len(s)
      /\ \A k \in 1 .. 1 + Len(s) : (t \o s)[k] = IF k <= 1 THEN t[k] ELSE s[k - 1]
  BY <1>1, <1>2, ConcatProperties
<1>4. PICK u \in Seq(Elements) : u = t \o s
  BY <1>3
<1>5. \A k \in 0 + 1 .. Len(s) : k + 1 \in 1 .. 1 + Len(s) /\ ~(k + 1 <= 1) /\ k + 1 - 1 = k
  OBVIOUS
<1>6. Len(u) = Len(s) + 1 /\ u[0 + 1] = e /\ \A k \in 0 + 1 .. Len(s) : u[k + 1] = s[k]
  BY <1>1, <1>2, <1>3, <1>4, <1>5
<1>. QED  BY <1>2, <1>4, <1>6 DEF Inserted

LEMMA InsertedLast ==
    ASSUME NEW s \in Seq(Elements), NEW e \in Elements
    PROVE  Inserted(s, Len(s), e, Append(s, e))
BY DEF Inserted

LEMMA WithoutAt ==
    ASSUME NEW s \in Seq(Elements), NEW i \in 1 .. Len(s)
    PROVE  Without(s, i, SubSeq(s, 1, i - 1) \o SubSeq(s, i + 1, Len(s)))
<1>0. PICK n \in Nat : n = Len(s)
  OBVIOUS
<1>1. PICK a \in Seq(Elements) : /\ a = SubSeq(s, 1, i - 1) /\ Len(a) = i - 1
                                /\ \A k \in 1 .. i - 1 : a[k] = s[k]
  <2>1. SubSeq(s, 1, i - 1) \in Seq(Elements) /\ Len(SubSeq(s, 1, i - 1)) = i - 1
    BY <1>0
  <2>2. \A k \in 1 .. i - 1 : SubSeq(s, 1, i - 1)[k] = s[k]
    BY <1>0
  <2>. QED  BY <2>1, <2>2
<1>2. PICK b \in Seq(Elements) : /\ b = SubSeq(s, i + 1, Len(s)) /\ Len(b) = n - i
                                /\ \A k \in 1 .. n - i : b[k] = s[i + k]
  <2>1. SubSeq(s, i + 1, n) \in Seq(Elements) /\ Len(SubSeq(s, i + 1, n)) = n - i
    BY <1>0
  <2>2. \A k \in 1 .. n - i : SubSeq(s, i + 1, n)[k] = s[i + k]
    BY <1>0
  <2>. QED  BY <1>0, <2>1, <2>2
<1>p. PICK p \in Nat, q \in Nat : p = i - 1 /\ q = n - i /\ p + q = n - 1
  <2>1. i \in 1 .. n
    BY <1>0
  <2>2. i - 1 \in Nat /\ n - i \in Nat /\ (i - 1) + (n - i) = n - 1
    BY <1>0, <2>1
  <2>. QED  BY <2>2
<1>3. PICK u \in Seq(Elements) :
         /\ u = a \o b /\ Len(u) = Len(a) + Len(b)
         /\ \A k \in 1 .. Len(a) + Len(b) : u[k] = IF k <= Len(a) THEN a[k] ELSE b[k - Len(a)]
  <2>1. a \in Seq(Elements) /\ b \in Seq(Elements)
    BY <1>1, <1>2
  <2>2. PICK u : u = a \o b
    OBVIOUS
  <2>3. /\ a \o b \in Seq(Elements) /\ Len(a \o b) = Len(a) + Len(b)
        /\ \A k \in 1 .. Len(a) + Len(b) : (a \o b)[k] = IF k <= Len(a) THEN a[k] ELSE b[k - Len(a)]
    BY <2>1, ConcatProperties
  <2>. QED  BY <2>2, <2>3
<1>4. \A k \in 1 .. n - 1 : u[k] = IF k <= i - 1 THEN a[k] ELSE b[k - (i - 1)]
  <2>1. Len(a) = p /\ Len(b) = q
    BY <1>1, <1>2, <1>p
  <2>. QED  BY <1>3, <1>p, <2>1
<1>5. Len(u) = n - 1
  <2>1. Len(a) = p /\ Len(b) = q
    BY <1>1, <1>2, <1>p
  <2>. QED  BY <1>3, <1>p, <2>1
<1>6. \A k \in 1 .. i - 1 : u[k] = s[k]
  <2>1. \A k \in 1 .. i - 1 : k \in 1 .. n - 1 /\ k <= i - 1
    BY <1>0
  <2>. QED  BY <1>1, <1>4, <2>1
<1>7. ASSUME NEW k \in i .. n - 1
      PROVE  u[k] = s[k + 1]
  <2>1. PICK j \in 1 .. n - i : j = k - (i - 1)
    BY <1>0
  <2>2. k \in 1 .. n - 1 /\ ~(k <= i - 1) /\ i + j = k + 1
    BY <1>0, <2>1
  <2>3. u[k] = b[j]
    BY <1>4, <2>1, <2>2
  <2>. QED  BY <1>2, <2>1, <2>2, <2>3
<1>. QED  BY <1>0, <1>1, <1>2, <1>3, <1>5, <1>6, <1>7 DEF Without

\* Each list is spelled by its links.
LEMMA SpelledIs ==
    ASSUME NEW nx, NEW pv, NEW us, NEW C \in Shapes, Chains(nx, pv, us, C)
    PROVE  [l \in Lists |-> Along(nx, l)] = C
<1>1. ASSUME NEW l \in Lists
      PROVE  Along(nx, l) = C[l]
  <2>1. C[l] \in Seq(Elements) /\ Once(C[l]) /\ Linked(nx, pv, l, C[l])
    BY DEF Chains, Shapes
  <2>2. Spells(nx, l, C[l])
    BY <2>1 DEF Linked, Spells
  <2>. QED  BY <2>1, <2>2, AlongIs
<1>. QED  BY <1>1 DEF Shapes

\* What a step makes of the lists, as lists promise it.
Moves(C, C2) ==
    \/ C2 = C /\ user' = user
    \/ \E c \in Callers, l \in Lists, e \in Elements :
          /\ user[e] = c /\ user' = [user EXCEPT ![e] = NULL]
          /\ \/ C2 = [C EXCEPT ![l] = <<e>> \o @]
             \/ C2 = [C EXCEPT ![l] = Append(@, e)]
    \/ \E c \in Callers, l \in Lists : \E i \in 1 .. Len(C[l]) :
          /\ user' = [user EXCEPT ![C[l][i]] = c]
          /\ C2 = [C EXCEPT ![l] = SubSeq(@, 1, i - 1) \o SubSeq(@, i + 1, Len(@))]

\* push puts its element first; or last, if an append came in between.
LEMMA PushPuts ==
    ASSUME NEW C, SharedInv(C), NEW c \in Callers, CallerInv(c), push(c)
    PROVE  /\ on[c] \in Lists /\ elem[c] \in Elements
           /\ \/ Puts(c, on[c], elem[c], 0, C)
              \/ Puts(c, on[c], elem[c], Len(C[on[c]]), C)
<1>1. /\ on[c] \in Lists /\ elem[c] \in Elements /\ user[elem[c]] = c
      /\ spot[c] \in {next[head(on[c])], tail(on[c])}
  BY DEF push, At, CallerInv, Inside
<1>2. PICK l \in Lists : l = on[c]
  BY <1>1
<1>3. PICK n \in Nat : n = Len(C[l]) /\ tail(l) = Place(l, C[l], n + 1)
  <2>1. C[l] \in Seq(Elements) /\ Once(C[l])
    BY FirstPlace
  <2>. QED  BY <2>1, PlacesApart
<1>4. next[head(l)] = Place(l, C[l], 0 + 1)
  BY FirstPlace
<1>5. /\ next' = NextWith(next, prev, spot[c], elem[c])
      /\ prev' = PrevWith(prev, spot[c], elem[c])
      /\ Given(c, on[c], elem[c])
  BY DEF push, insert, NextWith, PrevWith
<1>6. 0 \in 0 .. n /\ n \in 0 .. n
  BY <1>3
<1>. QED  BY <1>1, <1>2, <1>3, <1>4, <1>5, <1>6 DEF Puts

LEMMA AppendPuts ==
    ASSUME NEW C, SharedInv(C), NEW c \in Callers, NEW l \in Lists, NEW e \in Elements,
           append(c, l, e)
    PROVE  Puts(c, l, e, Len(C[l]), C)
<1>1. PICK n \in Nat : n = Len(C[l]) /\ tail(l) = Place(l, C[l], n + 1)
  <2>1. C[l] \in Seq(Elements) /\ Once(C[l])
    BY FirstPlace
  <2>. QED  BY <2>1, PlacesApart
<1>2. n \in 0 .. n
  BY <1>1
<1>. QED  BY <1>1, <1>2 DEF append, insert, Puts, NextWith, PrevWith

LEMMA PopTakes ==
    ASSUME NEW C, SharedInv(C), NEW c \in Callers, CallerInv(c), pop(c)
    PROVE  on[c] \in Lists /\ Takes(c, on[c], 1, C)
<1>1. on[c] \in Lists /\ spot[c] = next[head(on[c])] /\ spot[c] \in Elements
  BY DEF pop, At, CallerInv, Inside
<1>2. PICK l \in Lists : l = on[c]
  BY <1>1
<1>3. next[head(l)] = Place(l, C[l], 1) /\ C[l] \in Seq(Elements) /\ Once(C[l])
  BY FirstPlace
<1>4. 1 \in 1 .. Len(C[l]) /\ spot[c] = C[l][1]
  <2>1. 1 \in 0 .. Len(C[l]) + 1
    BY <1>3
  <2>. QED  BY <1>1, <1>2, <1>3, <2>1, PlacesApart
<1>. QED  BY <1>1, <1>2, <1>3, <1>4 DEF pop, remove, Takes, NextWithout, PrevWithout

LEMMA RemoveTakes ==
    ASSUME NEW C, SharedInv(C), NEW c \in Callers, CallerInv(c), NEW e \in Elements, Remove(c, e)
    PROVE  on[c] \in Lists /\ \E k : Takes(c, on[c], k, C)
<1>1. on[c] \in Lists
  BY DEF Remove, At, CallerInv, Inside
<1>2. Spelled(on[c]) = C[on[c]]
  <2>1. PICK f : f = [l \in Lists |-> Along(next, l)]
    OBVIOUS
  <2>2. f = C
    BY <2>1, SpelledIs DEF SharedInv
  <2>. QED  BY <1>1, <2>1, <2>2 DEF Spelled
<1>3. C[on[c]] \in Seq(Elements)
  BY <1>1, FirstPlace
<1>4. PICK k \in 1 .. Len(C[on[c]]) : C[on[c]][k] = e
  BY <1>2, <1>3 DEF Remove
<1>. QED  BY <1>1, <1>4 DEF Remove, remove, Takes, NextWithout, PrevWithout

\* A step of c leaves alone who has been on one list only, what others have in
\* their hands, and where the heads of lists lead, but for those in S; the head
\* of an empty list may move too.
Apart(c, S) ==
    /\ NoMany' => NoMany /\ \A m \in Lists : Trail(m) \subseteq Trail(m)'
    /\ \A x \in Elements : user[x] \notin {c, NULL} => user'[x] = user[x] /\ home'[x] = home[x]
    /\ \A m \in Lists \ S : \/ next'[head(m)] = next[head(m)]
                           \/ next[head(m)] = tail(m)

LEMMA HeadOf ==
    ASSUME NEW nx, NEW pv, NEW us, NEW C \in Shapes, Chains(nx, pv, us, C), NEW l \in Lists
    PROVE  nx[head(l)] = Place(l, C[l], 1) /\ C[l] \in Seq(Elements)
<1>1. PICK s \in Seq(Elements) : s = C[l] /\ Linked(nx, pv, l, s)
  BY DEF Shapes, Chains
<1>2. 0 \in 0 .. Len(s) /\ 0 + 1 = 1
  BY <1>1
<1>3. nx[Place(l, s, 0)] = Place(l, s, 1)
  BY <1>1, <1>2 DEF Linked
<1>. QED  BY <1>1, <1>3 DEF Place

LEMMA PutMoves ==
    ASSUME NEW C, SharedInv(C), NEW c \in Callers, NEW l \in Lists, NEW e \in Elements,
           NEW i \in {0, Len(C[l])}, Puts(c, l, e, i, C)
    PROVE  /\ \E C2 : SharedInv(C2)' /\ Moves(C, C2)
           /\ Apart(c, IF i = Len(C[l]) THEN {} ELSE {l})
<1>1. PICK s \in Seq(Elements) : s = C[l]
  BY FirstPlace
<1>2. PICK s2 : /\ s2 = IF i = Len(s) THEN Append(s, e) ELSE <<e>> \o s
                /\ Inserted(C[l], i, e, s2)
  BY <1>1, InsertedFirst, InsertedLast
<1>3. PICK C2 : C2 = With(C, l, s2)
  OBVIOUS
<1>4. /\ SharedInv(C2)'
      /\ NoMany' => NoMany /\ \A m \in Lists : Trail(m) \subseteq Trail(m)'
      /\ user' = [user EXCEPT ![e] = NULL]
      /\ \A x \in Elements : x # e => home'[x] = home[x]
  BY <1>2, <1>3, PutKeeps
<1>5. SharedInv(C2)'
  BY <1>4
<1>6. Moves(C, C2)
  <2>1. user[e] = c
    BY DEF Puts
  <2>2. \/ C2 = [C EXCEPT ![l] = <<e>> \o @]
        \/ C2 = [C EXCEPT ![l] = Append(@, e)]
    BY <1>1, <1>2, <1>3 DEF With
  <2>. QED  BY <1>4, <2>1, <2>2 DEF Moves
<1>7. \A x \in Elements : user[x] \notin {c, NULL} => user'[x] = user[x] /\ home'[x] = home[x]
  BY <1>4 DEF Puts, SharedInv, Holders
<1>8. ASSUME NEW m \in Lists, m # l \/ i = Len(s)
      PROVE  next'[head(m)] = next[head(m)] \/ next[head(m)] = tail(m)
  <2>1. C \in Shapes /\ next[head(m)] = Place(m, C[m], 1) /\ C[m] \in Seq(Elements)
    BY FirstPlace DEF SharedInv
  <2>2. C2 \in Shapes /\ Chains(next', prev', user', C2)
    BY <1>5 DEF SharedInv
  <2>3. next'[head(m)] = Place(m, C2[m], 1)
    BY <2>2, HeadOf
  <2>4. CASE m # l
    BY <1>3, <2>1, <2>3, <2>4 DEF Shapes, With
  <2>5. CASE m = l /\ i = Len(s)
    <3>1. C2[m] = Append(s, e)
      BY <1>2, <1>3, <2>1, <2>5 DEF Shapes, With
    <3>2. CASE Len(s) = 0
      BY <1>1, <2>1, <2>5, <3>2 DEF Place
    <3>3. CASE Len(s) > 0
      <4>1. /\ 1 # Len(s) + 1 /\ Place(m, s, 1) = s[1]
            /\ Len(Append(s, e)) = Len(s) + 1 /\ Append(s, e)[1] = s[1]
        BY <1>1, <3>3 DEF Place
      <4>2. Place(m, Append(s, e), 1) = s[1]
        BY <1>1, <3>3, <4>1 DEF Place
      <4>. QED  BY <1>1, <2>1, <2>3, <2>5, <3>1, <4>1, <4>2
    <3>. QED  BY <1>1, <3>2, <3>3
  <2>. QED  BY <1>8, <2>4, <2>5
<1>9. Apart(c, IF i = Len(C[l]) THEN {} ELSE {l})
  BY <1>1, <1>4, <1>7, <1>8 DEF Apart
<1>. QED  BY <1>5, <1>6, <1>9

LEMMA TakeMoves ==
    ASSUME NEW C, SharedInv(C), NEW c \in Callers, NEW l \in Lists, NEW i, Takes(c, l, i, C)
    PROVE  /\ \E C2 : SharedInv(C2)' /\ Moves(C, C2)
           /\ Apart(c, {l})
<1>1. PICK s \in Seq(Elements) : s = C[l]
  BY FirstPlace
<1>2. PICK s2 : /\ s2 = SubSeq(s, 1, i - 1) \o SubSeq(s, i + 1, Len(s))
                /\ Without(C[l], i, s2)
  <2>1. i \in 1 .. Len(s)
    BY <1>1 DEF Takes
  <2>. QED  BY <1>1, <2>1, WithoutAt
<1>3. PICK C2 : C2 = With(C, l, s2)
  OBVIOUS
<1>4. /\ SharedInv(C2)'
      /\ user' = [user EXCEPT ![C[l][i]] = c] /\ home' = home
      /\ C[l][i] \in Elements /\ user[C[l][i]] = NULL
  BY <1>2, <1>3, TakeKeeps
<1>5. SharedInv(C2)'
  BY <1>4
<1>6. Moves(C, C2)
  <2>1. i \in 1 .. Len(C[l])
    BY DEF Takes
  <2>2. C2 = [C EXCEPT ![l] = SubSeq(@, 1, i - 1) \o SubSeq(@, i + 1, Len(@))]
    BY <1>1, <1>2, <1>3 DEF With
  <2>. QED  BY <1>4, <2>1, <2>2 DEF Moves
<1>7. \A x \in Elements : user[x] \notin {c, NULL} => user'[x] = user[x] /\ home'[x] = home[x]
  BY <1>4 DEF SharedInv, Holders
<1>8. ASSUME NEW m \in Lists, m # l
      PROVE  next'[head(m)] = next[head(m)]
  <2>1. C \in Shapes /\ next[head(m)] = Place(m, C[m], 1)
    BY FirstPlace DEF SharedInv
  <2>2. C2 \in Shapes /\ Chains(next', prev', user', C2)
    BY <1>5 DEF SharedInv
  <2>3. next'[head(m)] = Place(m, C2[m], 1)
    BY <2>2, HeadOf
  <2>. QED  BY <1>3, <1>8, <2>1, <2>3 DEF Shapes, With
<1>9. NoMany' => NoMany /\ \A m \in Lists : Trail(m) \subseteq Trail(m)'
  BY <1>4 DEF NoMany, Trail
<1>10. Apart(c, {l})
  BY <1>7, <1>8, <1>9 DEF Apart
<1>. QED  BY <1>5, <1>6, <1>10

\* Most steps move nothing.
LEMMA Still ==
    ASSUME NEW C, SharedInv(C), NEW c, UNCHANGED <<links, user, home>>
    PROVE  /\ \E C2 : SharedInv(C2)' /\ Moves(C, C2)
           /\ Apart(c, {}) /\ NoMany' = NoMany /\ \A m \in Lists : Trail(m)' = Trail(m)
<1>1. UNCHANGED <<next, prev, user, home>>
  BY DEF links
<1>2. NoMany' = NoMany /\ \A m \in Lists : Trail(m)' = Trail(m)
  BY <1>1 DEF NoMany, Trail
<1>3. SharedInv(C)'
  BY <1>1, <1>2 DEF SharedInv
<1>4. Moves(C, C)
  BY <1>1 DEF Moves
<1>5. Apart(c, {})
  BY <1>1, <1>2 DEF Apart
<1>. QED  BY <1>2, <1>3, <1>4, <1>5

\* A step of c that changes no head but those of lists that c has locked takes
\* nothing from another caller.
LEMMA Bystander ==
    ASSUME NEW c \in Callers, NEW S, \A l \in S : owner[l] = c, Apart(c, S),
           NEW d \in Callers, d # c, CallerInv(d),
           pc'[d] = pc[d], on'[d] = on[d], elem'[d] = elem[d], spot'[d] = spot[d],
           \A l \in Lists : owner[l] = d => owner'[l] = d
    PROVE  CallerInv(d)'
<1>0. d # NULL
  BY ListAssumption
<1>1. Inside(d)' = Inside(d) /\ \A label : At(d, label)' = At(d, label)
  BY DEF Inside, At
<1>2. Inside(d)' => on'[d] \in Lists /\ owner'[on'[d]] = d
  BY <1>1 DEF CallerInv
<1>3. Inside(d) => \/ next'[head(on[d])] = next[head(on[d])]
                   \/ next[head(on[d])] = tail(on[d])
  BY DEF CallerInv, Apart
<1>4. pc[d] = "push" => /\ elem'[d] \in Elements /\ user'[elem'[d]] = d
                        /\ spot'[d] \in {next'[head(on'[d])], tail(on'[d])}
  BY <1>0, <1>3 DEF CallerInv, Apart, At, Inside
<1>5. pc[d] = "pop" => spot'[d] = next'[head(on'[d])] /\ spot'[d] \in Elements
  BY <1>3, SentinelsApart DEF CallerInv, At, Inside
<1>6. pc[d] \in {"find", "absent"} =>
          /\ on'[d] \in Lists /\ elem'[d] \in Elements
          /\ user'[elem'[d]] = d /\ home'[elem'[d]] = NULL
          /\ spot'[d] # elem'[d] /\ spot'[d] \in Nodes \cup {NULL}
          /\ NoMany' => spot'[d] \in Trail(on[d])'
  <2>1. SUFFICES ASSUME pc[d] \in {"find", "absent"}
                 PROVE  /\ on'[d] \in Lists /\ elem'[d] \in Elements
                        /\ user'[elem'[d]] = d /\ home'[elem'[d]] = NULL
                        /\ spot'[d] # elem'[d] /\ spot'[d] \in Nodes \cup {NULL}
                        /\ NoMany' => spot'[d] \in Trail(on[d])'
    OBVIOUS
  <2>2. PICK l \in Lists : l = on[d]
    BY <2>1 DEF CallerInv
  <2>3. NoMany' => spot'[d] \in Trail(l)'
    BY <2>1, <2>2 DEF CallerInv, Apart
  <2>4. Trail(on[d])' = Trail(l)'
    BY <2>2 DEF Trail, tail
  <2>. QED  BY <1>0, <2>1, <2>3, <2>4 DEF CallerInv, Apart
<1>7. pc[d] # "present" /\ (pc[d] = "astray" => ~NoMany')
  BY DEF CallerInv, Apart, At
<1>. QED  BY <1>1, <1>2, <1>4, <1>5, <1>6, <1>7 DEF CallerInv, At, head, tail

\* A step of one caller.
ListStep(c) ==
    \/ \E l \in Lists : Acquire(c, l)
    \/ Release(c) \/ PopRead(c) \/ pop(c) \/ push(c) \/ find(c)
    \/ \E e \in Elements :
        \/ PushRead(c, e) \/ Remove(c, e)
        \/ \E l \in Lists : append(c, l, e) \/ FindStart(c, l, e)

\* Every step moves the lists as lists promise it, and touches the heads only
\* of lists that its caller has locked.
LEMMA StepMoves ==
    ASSUME NEW C, SharedInv(C), NEW c \in Callers, CallerInv(c), ListStep(c)
    PROVE  /\ \E C2 : SharedInv(C2)' /\ Moves(C, C2)
           /\ \E S : (\A l \in S : owner[l] = c) /\ Apart(c, S)
<1>1. CASE UNCHANGED <<links, user, home>>
  BY <1>1, Still
<1>2. CASE push(c)
  <2>1. PICK l, e, i : /\ l \in Lists /\ e \in Elements /\ i \in {0, Len(C[l])}
                         /\ l = on[c] /\ Puts(c, l, e, i, C)
    BY <1>2, PushPuts
  <2>2. owner[l] = c
    BY <1>2, <2>1 DEF push, At, CallerInv, Inside
  <2>3. PICK S : S = IF i = Len(C[l]) THEN {} ELSE {l}
    OBVIOUS
  <2>4. /\ \E C2 : SharedInv(C2)' /\ Moves(C, C2)
        /\ Apart(c, S)
    BY <2>1, <2>3, PutMoves
  <2>5. \A m \in S : owner[m] = c
    BY <2>2, <2>3
  <2>. QED  BY <2>4, <2>5
<1>3. CASE \E l \in Lists, e \in Elements : append(c, l, e)
  <2>1. PICK l, e, i : l \in Lists /\ e \in Elements /\ i = Len(C[l]) /\ Puts(c, l, e, i, C)
    BY <1>3, AppendPuts
  <2>2. i \in {0, Len(C[l])}
    BY <2>1
  <2>3. /\ \E C2 : SharedInv(C2)' /\ Moves(C, C2)
        /\ Apart(c, IF i = Len(C[l]) THEN {} ELSE {l})
    BY <2>1, <2>2, PutMoves
  <2>4. Apart(c, {}) /\ \A m \in {} : owner[m] = c
    BY <2>1, <2>3
  <2>. QED  BY <2>3, <2>4
<1>4. CASE pop(c) \/ \E e \in Elements : Remove(c, e)
  <2>1. PICK l \in Lists : l = on[c] /\ \E i : Takes(c, l, i, C)
    BY <1>4, PopTakes, RemoveTakes
  <2>2. \A m \in {l} : owner[m] = c
    BY <1>4, <2>1 DEF pop, Remove, At, CallerInv, Inside
  <2>. QED  BY <2>1, <2>2, TakeMoves
<1>5. \/ UNCHANGED <<links, user, home>> \/ push(c)
      \/ \E l \in Lists, e \in Elements : append(c, l, e)
      \/ pop(c) \/ \E e \in Elements : Remove(c, e)
  BY DEF ListStep, Acquire, Release, PopRead, PushRead, ReadHead, FindStart, find
<1>. QED  BY <1>1, <1>2, <1>3, <1>4, <1>5

\* A step changes its caller's registers only, and nobody else's locks.
LEMMA StepRegs ==
    ASSUME RegsTyped, NEW c \in Callers, CallerInv(c), ListStep(c)
    PROVE  /\ RegsTyped'
           /\ \A d \in Callers \ {c} :
                 /\ pc'[d] = pc[d] /\ on'[d] = on[d] /\ elem'[d] = elem[d] /\ spot'[d] = spot[d]
                 /\ \A l \in Lists : owner[l] = d => owner'[l] = d
<1>. DEFINE Done == /\ RegsTyped'
                    /\ \A d \in Callers \ {c} :
                         /\ pc'[d] = pc[d] /\ on'[d] = on[d] /\ elem'[d] = elem[d] /\ spot'[d] = spot[d]
                         /\ \A l \in Lists : owner[l] = d => owner'[l] = d
<1>1. CASE \E l \in Lists : Acquire(c, l)
  <2>1. PICK l \in Lists : Acquire(c, l)
    BY <1>1
  <2>2. /\ owner[l] = NULL /\ owner' = [owner EXCEPT ![l] = c]
        /\ pc' = [pc EXCEPT ![c] = "locked"] /\ on' = [on EXCEPT ![c] = l]
        /\ elem' = elem /\ spot' = spot
    BY <2>1 DEF Acquire, Lock!Acquire, Goto
  <2>. QED  BY <2>2, ListAssumption DEF RegsTyped
<1>2. CASE Release(c)
  <2>1. /\ owner[on[c]] = c /\ owner' = [owner EXCEPT ![on[c]] = NULL]
        /\ pc' = [pc EXCEPT ![c] = "out"] /\ on' = [on EXCEPT ![c] = NULL]
        /\ elem' = [elem EXCEPT ![c] = NULL] /\ spot' = [spot EXCEPT ![c] = NULL]
    BY <1>2 DEF Release, Lock!Release, Goto, Return
  <2>. QED  BY <2>1 DEF RegsTyped
<1>3. CASE PopRead(c) \/ \E e \in Elements : PushRead(c, e)
  <2>1. /\ owner' = owner /\ on' = on /\ spot' = [spot EXCEPT ![c] = next[head(on[c])]]
        /\ elem' = elem \/ \E e : elem' = [elem EXCEPT ![c] = e]
        /\ pc' = [pc EXCEPT ![c] = "pop"] \/ pc' = [pc EXCEPT ![c] = "push"]
    BY <1>3 DEF PopRead, PushRead, ReadHead, Goto, locks
  <2>. QED  BY <2>1 DEF RegsTyped
<1>4. CASE pop(c) \/ push(c) \/ (\E e \in Elements : Remove(c, e) \/ \E l \in Lists : append(c, l, e))
  <2>1. /\ owner' = owner /\ \E l : on' = [on EXCEPT ![c] = l]
        /\ elem' = [elem EXCEPT ![c] = NULL] /\ spot' = [spot EXCEPT ![c] = NULL]
        /\ pc' = [pc EXCEPT ![c] = "release"] \/ pc' = [pc EXCEPT ![c] = "out"]
    BY <1>4 DEF pop, push, Remove, append, Return, Goto, locks
  <2>. QED  BY <2>1 DEF RegsTyped
<1>5. CASE \E e \in Elements, l \in Lists : FindStart(c, l, e)
  <2>1. PICK e \in Elements, l \in Lists : FindStart(c, l, e)
    BY <1>5
  <2>2. /\ owner' = owner /\ on' = [on EXCEPT ![c] = l] /\ elem' = [elem EXCEPT ![c] = e]
        /\ spot' = [spot EXCEPT ![c] = next[head(l)]] /\ pc' = [pc EXCEPT ![c] = "find"]
    BY <2>1 DEF FindStart, Goto, locks
  <2>. QED  BY <2>2 DEF RegsTyped
<1>6. CASE find(c)
  <2>1. /\ owner' = owner /\ on' = on /\ elem' = elem
        /\ spot' = spot \/ spot' = [spot EXCEPT ![c] = next[spot[c]]]
        /\ \/ pc' = pc \/ pc' = [pc EXCEPT ![c] = "absent"]
           \/ pc' = [pc EXCEPT ![c] = "present"] \/ pc' = [pc EXCEPT ![c] = "astray"]
    BY <1>6 DEF find, Goto, locks
  <2>. QED  BY <2>1 DEF RegsTyped
<1>. QED  BY <1>1, <1>2, <1>3, <1>4, <1>5, <1>6 DEF ListStep

\* A step leaves its caller with what it relies on.
LEMMA StepCaller ==
    ASSUME RegsTyped, NEW C, SharedInv(C), NEW c \in Callers, CallerInv(c), ListStep(c)
    PROVE  CallerInv(c)'
<1>1. CASE \E l \in Lists : Acquire(c, l)
  <2>1. PICK l \in Lists : Acquire(c, l)
    BY <1>1
  <2>2. owner'[l] = c /\ pc'[c] = "locked" /\ on'[c] = l
    BY <2>1 DEF Acquire, Lock!Acquire, Goto, RegsTyped
  <2>. QED  BY <2>2 DEF CallerInv, At, Inside
<1>2. CASE Release(c) \/ (\E e \in Elements, l \in Lists : append(c, l, e))
  <2>1. pc'[c] = "out"
    BY <1>2 DEF Release, append, Goto, Return, RegsTyped
  <2>. QED  BY <2>1 DEF CallerInv, At, Inside
<1>3. CASE PopRead(c)
  <2>1. /\ pc'[c] = "pop" /\ pc[c] = "locked" /\ on' = on /\ owner' = owner /\ next' = next
        /\ spot'[c] = next[head(on[c])] /\ next[head(on[c])] # tail(on[c])
    BY <1>3 DEF PopRead, ReadHead, empty, Goto, locks, links, At, RegsTyped
  <2>2. on[c] \in Lists /\ owner[on[c]] = c
    BY <2>1 DEF CallerInv, Inside
  <2>3. next[head(on[c])] \in Elements
    <3>1. PICK l \in Lists : l = on[c]
      BY <2>2
    <3>2. next[head(l)] = Place(l, C[l], 1) /\ C[l] \in Seq(Elements)
      BY FirstPlace
    <3>3. 1 \in 0 .. Len(C[l]) + 1 /\ 1 # 0
      BY <3>2
    <3>4. Place(l, C[l], 1) \in Elements \cup {tail(l)}
      BY <3>3, PlaceHomes
    <3>. QED  BY <2>1, <3>1, <3>2, <3>4
  <2>. QED  BY <2>1, <2>2, <2>3 DEF CallerInv, At, Inside, head
<1>4. CASE \E e \in Elements : PushRead(c, e)
  <2>1. PICK e \in Elements : PushRead(c, e)
    BY <1>4
  <2>2. /\ pc'[c] = "push" /\ pc[c] = "locked" /\ on' = on /\ owner' = owner /\ next' = next
        /\ spot'[c] = next[head(on[c])] /\ elem'[c] = e /\ user[e] = c /\ user' = user
    BY <2>1 DEF PushRead, ReadHead, Goto, locks, links, At, RegsTyped
  <2>3. on[c] \in Lists /\ owner[on[c]] = c
    BY <2>2 DEF CallerInv, Inside
  <2>. QED  BY <2>2, <2>3 DEF CallerInv, At, Inside, head
<1>5. CASE pop(c) \/ push(c) \/ \E e \in Elements : Remove(c, e)
  <2>1. pc'[c] = "release" /\ on'[c] = on[c] /\ owner' = owner /\ Inside(c)
    BY <1>5 DEF pop, push, Remove, Return, Goto, locks, RegsTyped, At, Inside
  <2>. QED  BY <2>1 DEF CallerInv, At, Inside
<1>6. CASE \E e \in Elements, l \in Lists : FindStart(c, l, e)
  <2>1. PICK e \in Elements, l \in Lists : FindStart(c, l, e)
    BY <1>6
  <2>2. /\ pc'[c] = "find" /\ on'[c] = l /\ elem'[c] = e /\ spot'[c] = next[head(l)]
        /\ user[e] = c /\ home[e] = NULL /\ UNCHANGED <<links, user, home>>
    BY <2>1 DEF FindStart, Goto, RegsTyped
  <2>3. home' = home /\ user' = user /\ NoMany' = NoMany /\ Trail(l)' = Trail(l)
    BY <2>2, Still
  <2>4. next[head(l)] # e
    BY <2>2, SentinelsApart DEF SharedInv
  <2>5. next[head(l)] \in Nodes /\ (NoMany => next[head(l)] \in Trail(l))
    <3>1. next[head(l)] = Place(l, C[l], 1) /\ C[l] \in Seq(Elements)
      BY FirstPlace
    <3>2. 1 \in 0 .. Len(C[l]) + 1 /\ 1 # 0
      BY <3>1
    <3>3. /\ Place(l, C[l], 1) \in Nodes /\ Place(l, C[l], 1) \in Elements \cup {tail(l)}
          /\ Place(l, C[l], 1) \in Elements => home[Place(l, C[l], 1)] \in {l, Many}
      BY <3>2, PlaceHomes
    <3>. QED  BY <3>1, <3>3 DEF NoMany, Trail
  <2>6. Trail(on[c])' = Trail(l)'
    BY <2>2 DEF Trail, tail
  <2>. QED  BY <2>2, <2>3, <2>4, <2>5, <2>6 DEF CallerInv, At, Inside
<1>7. CASE find(c)
  <2>1. /\ pc[c] = "find" /\ on' = on /\ elem' = elem /\ UNCHANGED <<links, user, home>>
        /\ \/ spot[c] = tail(on[c]) /\ pc'[c] = "absent" /\ spot' = spot
           \/ spot[c] = elem[c]
           \/ spot[c] = NULL /\ pc'[c] = "astray"
           \/ /\ spot[c] \notin {tail(on[c]), elem[c], NULL}
              /\ pc' = pc /\ spot'[c] = next[spot[c]]
    BY <1>7 DEF find, Goto, At, RegsTyped
  <2>2. PICK l \in Lists, e \in Elements :
           /\ l = on[c] /\ e = elem[c] /\ user[e] = c /\ home[e] = NULL
           /\ spot[c] # e /\ spot[c] \in Nodes \cup {NULL} /\ (NoMany => spot[c] \in Trail(l))
    BY <2>1 DEF CallerInv
  <2>3. home' = home /\ user' = user /\ NoMany' = NoMany /\ Trail(l)' = Trail(l)
    BY <2>1, Still
  <2>4. Trail(on[c])' = Trail(l)'
    BY <2>1, <2>2 DEF Trail, tail
  <2>5. CASE spot[c] = tail(on[c]) /\ pc'[c] = "absent" /\ spot' = spot
    BY <2>1, <2>2, <2>3, <2>4, <2>5 DEF CallerInv, At, Inside
  <2>6. CASE spot[c] = NULL /\ pc'[c] = "astray"
    <3>1. NULL \notin Trail(l)
      BY ListAssumption, SentinelsApart DEF Trail
    <3>. QED  BY <2>2, <2>3, <2>6, <3>1 DEF CallerInv, At, Inside
  <2>7. CASE /\ spot[c] \notin {tail(on[c]), elem[c], NULL}
             /\ pc' = pc /\ spot'[c] = next[spot[c]]
    <3>1. spot[c] \in Nodes
      BY <2>2, <2>7
    <3>2. next[spot[c]] # e /\ next[spot[c]] \in Nodes \cup {NULL}
      BY <2>2, <3>1 DEF SharedInv, Links
    <3>3. NoMany => next[spot[c]] \in Trail(l)
      <4>1. ASSUME NoMany
            PROVE  spot[c] \in Elements /\ home[spot[c]] = l
        BY <2>2, <2>7, <4>1 DEF Trail
      <4>. QED  BY <4>1 DEF SharedInv
    <3>. QED  BY <2>1, <2>2, <2>3, <2>4, <2>7, <3>2, <3>3 DEF CallerInv, At, Inside
  <2>. QED  BY <2>1, <2>2, <2>5, <2>6, <2>7
<1>. QED  BY <1>1, <1>2, <1>3, <1>4, <1>5, <1>6, <1>7 DEF ListStep

\* The invariant begins with empty lists and lasts; every step is one that
\* lists promise.
LEMMA ListInitInv ==
    ASSUME ListInit
    PROVE  /\ ListInv /\ SharedInv([l \in Lists |-> <<>>])
<1>1. PICK C : C = [l \in Lists |-> <<>>]
  OBVIOUS
<1>2. /\ next = [n \in Nodes |-> IF n \in Elements \/ n[2] = "tail" THEN NULL ELSE tail(n[1])]
      /\ prev = [n \in Nodes |-> IF n \in Elements \/ n[2] = "head" THEN NULL ELSE head(n[1])]
      /\ user \in [Elements -> Callers] /\ home = [e \in Elements |-> NULL]
  BY DEF ListInit
<1>3. \A l \in Lists : next[head(l)] = tail(l) /\ prev[tail(l)] = head(l) /\ next[tail(l)] = NULL
  BY <1>2, SentinelsApart DEF head, tail
<1>4. \A n \in Nodes : next[n] = NULL \/ \E l \in Lists : next[n] = tail(l)
  <2>1. \A n \in Sentinels : n[1] \in Lists
    BY DEF Sentinels
  <2>. QED  BY <1>2, <2>1 DEF Nodes
<1>5. \A n \in Nodes : prev[n] = NULL \/ \E l \in Lists : prev[n] = head(l)
  <2>1. \A n \in Sentinels : n[1] \in Lists
    BY DEF Sentinels
  <2>. QED  BY <1>2, <2>1 DEF Nodes
<1>6. next \in Links /\ prev \in Links
  BY <1>2, <1>4, <1>5, SentinelsApart DEF Links
<1>7. C \in Shapes /\ \A l \in Lists : C[l] = <<>> /\ Len(C[l]) = 0
  BY <1>1 DEF Shapes
<1>8. \A l \in Lists, e \in Elements : ~On(e, C[l])
  BY <1>7 DEF On
<1>9. \A l \in Lists : Linked(next, prev, l, C[l]) /\ Once(C[l])
  <2>1. SUFFICES ASSUME NEW l \in Lists
                 PROVE  Linked(next, prev, l, <<>>) /\ Once(<<>>)
    BY <1>7
  <2>2. Place(l, <<>>, 0) = head(l) /\ Place(l, <<>>, 0 + 1) = tail(l) /\ Len(<<>>) = 0
    BY DEF Place
  <2>. QED  BY <1>3, <2>2 DEF Linked, Once
<1>10. Chains(next, prev, user, C)
  BY <1>2, <1>8, <1>9, ListAssumption DEF Chains
<1>11. SharedInv(C)
  <2>1. \A e \in Elements, n \in Nodes : next[n] # e
    BY <1>4, ListAssumption, SentinelsApart
  <2>2. \A l \in Lists, e \in Elements : home[e] # l
    BY <1>2, ListAssumption
  <2>. QED  BY <1>2, <1>6, <1>7, <1>8, <1>10, <2>1, <2>2 DEF SharedInv, Holders
<1>12. RegsTyped
  BY DEF ListInit, Lock!Init, RegsTyped
<1>13. \A c \in Callers : CallerInv(c)
  BY DEF ListInit, CallerInv, At, Inside
<1>. QED  BY <1>1, <1>7, <1>11, <1>12, <1>13 DEF ListInv

LEMMA ListStepInv ==
    ASSUME ListInv, [ListNext]_listVars, NEW C, SharedInv(C)
    PROVE  ListInv' /\ \E C2 : SharedInv(C2)' /\ Moves(C, C2)
<1>1. CASE UNCHANGED listVars
  <2>1. /\ UNCHANGED <<next, prev, owner, pc, on, elem, spot, user, home>>
        /\ UNCHANGED <<links, user, home>>
    BY <1>1 DEF listVars, links, locks, regs
  <2>2. /\ \E C2 : SharedInv(C2)' /\ Moves(C, C2)
        /\ NoMany' = NoMany /\ \A l \in Lists : Trail(l)' = Trail(l)
    BY <2>1, Still
  <2>3. RegsTyped'
    BY <2>1 DEF ListInv, RegsTyped
  <2>4. ASSUME NEW c \in Callers
        PROVE  CallerInv(c)'
    <3>1. CallerInv(c)
      BY DEF ListInv
    <3>2. Trail(on[c])' = Trail(on[c]) 
      BY <2>1 DEF Trail, tail
    <3>. QED  BY <2>1, <2>2, <3>1, <3>2 DEF CallerInv, At, Inside, head, tail
  <2>. QED  BY <2>2, <2>3, <2>4 DEF ListInv, SharedInv
<1>2. CASE ListNext
  <2>1. PICK c \in Callers : ListStep(c)
    BY <1>2 DEF ListNext, ListStep
  <2>2. RegsTyped /\ \A d \in Callers : CallerInv(d)
    BY DEF ListInv
  <2>3. /\ \E C2 : SharedInv(C2)' /\ Moves(C, C2)
        /\ \E S : (\A l \in S : owner[l] = c) /\ Apart(c, S)
    BY <2>1, <2>2, StepMoves
  <2>4. /\ RegsTyped'
        /\ \A d \in Callers \ {c} :
              /\ pc'[d] = pc[d] /\ on'[d] = on[d] /\ elem'[d] = elem[d] /\ spot'[d] = spot[d]
              /\ \A l \in Lists : owner[l] = d => owner'[l] = d
    BY <2>1, <2>2, StepRegs
  <2>5. CallerInv(c)'
    BY <2>1, <2>2, StepCaller
  <2>6. ASSUME NEW d \in Callers, d # c
        PROVE  CallerInv(d)'
    BY <2>2, <2>3, <2>4, <2>6, Bystander
  <2>. QED  BY <2>3, <2>4, <2>5, <2>6 DEF ListInv, SharedInv
<1>. QED  BY <1>1, <1>2

\* However its callers interleave in list.c, both links of every list spell one
\* sequence, no element is on two, and each caller in the middle of an
\* operation still holds what it has read and locked.
THEOREM ListInvariant == ListSpec => []ListInv
<1>1. ListInit => ListInv
  BY ListInitInv
<1>2. ListInv /\ [ListNext]_listVars => ListInv'
  BY ListStepInv DEF ListInv
<1>. QED  BY <1>1, <1>2, PTL DEF ListSpec

\* thread_start's ASSERT(!find(...)) does not fail, and its walk of a list that
\* others change under it leaves the list only once an element has moved from
\* one list to another.
THEOREM FindCorrect == ListSpec => []FindRight
<1>1. ListInv => FindRight
  BY DEF ListInv, CallerInv, FindRight, NoMany
<1>. QED  BY <1>1, ListInvariant, PTL

\* list.c, under its callers' locks, implements lists as sequences: a push puts
\* its element first, or last on a list that an append has filled in the
\* meantime, and every element that is popped or removed was on the list.
THEOREM ListsImplemented == ListSpec => ImplementsList
<1>1. ListInit => Abstract!Init
  <2>1. SUFFICES ASSUME ListInit PROVE Abstract!Init
    OBVIOUS
  <2>2. PICK C : C = [l \in Lists |-> <<>>]
    OBVIOUS
  <2>3. C \in Shapes /\ Chains(next, prev, user, C)
    BY <2>1, <2>2, ListInitInv DEF SharedInv
  <2>4. [l \in Lists |-> Along(next, l)] = C
    BY <2>3, SpelledIs
  <2>. QED  BY <2>1, <2>2, <2>4 DEF Abstract!Init, Spelled, ListInit
<1>2. ListInv /\ [ListNext]_listVars => [Abstract!Next]_(Abstract!listVars)
  <2>1. SUFFICES ASSUME ListInv, [ListNext]_listVars PROVE [Abstract!Next]_(Abstract!listVars)
    OBVIOUS
  <2>2. PICK C : SharedInv(C)
    BY <2>1 DEF ListInv
  <2>3. PICK C2 : SharedInv(C2)' /\ Moves(C, C2)
    BY <2>1, <2>2, ListStepInv
  <2>4. [l \in Lists |-> Spelled(l)] = C
    BY <2>2, SpelledIs DEF SharedInv, Spelled
  <2>5. [l \in Lists |-> Spelled(l)]' = C2
    BY <2>3, SpelledIs DEF SharedInv, Spelled
  <2>6. CASE C2 = C /\ user' = user
    BY <2>4, <2>5, <2>6 DEF Abstract!listVars
  <2>7. CASE \E c \in Callers, l \in Lists, e \in Elements :
                /\ user[e] = c /\ user' = [user EXCEPT ![e] = NULL]
                /\ \/ C2 = [C EXCEPT ![l] = <<e>> \o @]
                   \/ C2 = [C EXCEPT ![l] = Append(@, e)]
    <3>1. PICK c \in Callers, l \in Lists, e \in Elements :
                /\ user[e] = c /\ user' = [user EXCEPT ![e] = NULL]
                /\ \/ C2 = [C EXCEPT ![l] = <<e>> \o @]
                   \/ C2 = [C EXCEPT ![l] = Append(@, e)]
      BY <2>7
    <3>2. Abstract!Push(c, l, e) \/ Abstract!AppendTo(c, l, e)
      BY <2>4, <2>5, <3>1 DEF Abstract!Push, Abstract!AppendTo, Abstract!Put
    <3>. QED  BY <3>2 DEF Abstract!Next
  <2>8. CASE \E c \in Callers, l \in Lists : \E i \in 1 .. Len(C[l]) :
                /\ user' = [user EXCEPT ![C[l][i]] = c]
                /\ C2 = [C EXCEPT ![l] = SubSeq(@, 1, i - 1) \o SubSeq(@, i + 1, Len(@))]
    <3>1. PICK c \in Callers, l \in Lists : \E i \in 1 .. Len(C[l]) :
                /\ user' = [user EXCEPT ![C[l][i]] = c]
                /\ C2 = [C EXCEPT ![l] = SubSeq(@, 1, i - 1) \o SubSeq(@, i + 1, Len(@))]
      BY <2>8
    <3>2. PICK i \in 1 .. Len(C[l]) :
                /\ user' = [user EXCEPT ![C[l][i]] = c]
                /\ C2 = [C EXCEPT ![l] = SubSeq(@, 1, i - 1) \o SubSeq(@, i + 1, Len(@))]
      BY <3>1
    <3>3. Abstract!Take(c, l, i)
      BY <2>4, <2>5, <3>2 DEF Abstract!Take
    <3>4. [m \in Lists |-> Spelled(m)][l] = C[l]
      BY <2>4
    <3>. QED  BY <3>2, <3>3, <3>4 DEF Abstract!Next
  <2>. QED  BY <2>3, <2>6, <2>7, <2>8 DEF Moves
<1>. QED  BY <1>1, <1>2, ListInvariant, PTL DEF ListSpec, ImplementsList, Abstract!Spec
=============================================================================
