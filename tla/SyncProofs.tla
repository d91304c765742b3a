----------------------------- MODULE SyncProofs -----------------------------
(***************************************************************************)
(* The locks of sync.c exclude, count and wake correctly for any number of *)
(* threads and locks.  The invariant has four parts: the scheduler's queue *)
(* (Ready), the waiters of the semaphores (Wait), the locks themselves     *)
(* (LockInv) and the interrupt flag (MaskInv).                             *)
(***************************************************************************)
EXTENDS Sync, SchedProofs

Ready ==
    /\ SchedTypeOK /\ NoPanic /\ QueueInv
    /\ Queued(ready_list, status, {})
    /\ status[idle] # "FREE"

CallTypeOK ==
    /\ value \in [Semaphores -> {0, 1}]
    /\ waiters \in [Semaphores -> Seq(Threads)]
    /\ holder \in [Locks -> Threads \cup {None}]
    /\ holder_repeat_nr \in [Locks -> Nat]
    /\ pc \in [Threads -> PC]
    /\ arg \in [Threads -> Semaphores \cup {None}]
    /\ old_status \in [Threads -> Intr]
    /\ masked \in [Threads -> BOOLEAN]
    /\ depth \in [Threads -> [Locks -> Nat]]
    /\ pc[idle] = "out"
    /\ \A t \in Threads : pc[t] # "out" => arg[t] \in Locks

\* Who waits, and that a waiter has been woken when the semaphore is up.
Wait ==
    /\ \A s \in Semaphores : Distinct(waiters[s])
    /\ \A s \in Semaphores, t \in Threads :
          t \in Listed(waiters[s]) <=>
              pc[t] = "woken" /\ arg[t] = s /\ status[t] = "BLOCKED"
    /\ \A t \in Clients : status[t] \in Stopped => status[t] = "BLOCKED" /\ pc[t] = "woken"
    /\ NoLostWakeup

\* What a thread t at a label of try_lock or try_release knows of the holder h
\* and the count nr of the lock it was called with.
Knows(t, label, h, nr) ==
    /\ label \in {"sema_down", "woken"} => h # t
    /\ label = "set_holder" => h = None /\ nr = 0
    /\ label \in {"check_nr", "set_nr"} => h = t /\ nr = 0
    /\ label \in {"nest", "try_release", "read_nr"} => h = t /\ nr >= 1
    /\ label = "unnest" => h = t /\ nr > 1
    /\ label = "clear_holder" => h = t /\ nr = 1
    /\ label = "clear_nr" => h = None /\ nr = 1
    /\ label = "sema_up" => h = None /\ nr = 0

Label(t) == Knows(t, pc[t], holder[arg[t]], holder_repeat_nr[arg[t]])

\* A thread's own count of a lock against holder and holder_repeat_nr.
Counted(t, l) ==
    depth[t][l] = IF holder[l] = t THEN holder_repeat_nr[l]
                  ELSE IF HandingBack(t, l) THEN 1 ELSE 0

\* The semaphore against the threads that are through it.
Token ==
    \A l \in Locks :
        /\ value[l] = 0 <=> Owners[l] # {}
        /\ \A t, u \in Owners[l] : t = u

\* When holder and holder_repeat_nr may contradict each other.
Fields ==
    \A l \in Locks :
        /\ holder[l] # idle
        /\ holder[l] = None /\ holder_repeat_nr[l] # 0 =>
              \E t \in Clients : arg[t] = l /\ pc[t] = "clear_nr"
        /\ \A t \in Clients : holder[l] = t /\ holder_repeat_nr[l] = 0 =>
              arg[t] = l /\ pc[t] \in {"check_nr", "set_nr"}

LockInv ==
    /\ Token /\ Fields
    /\ \A t \in Clients : pc[t] # "out" => Label(t)
    /\ \A t \in Clients, l \in Locks : Counted(t, l)

\* The interrupt flag of t, in the CPU or on t's stack.
Flag(t) == IF t = cur THEN intr ELSE saved[t]

MaskInv ==
    /\ Flag(idle) = "ON" /\ saved[idle] = "ON"
    /\ \A t \in Clients :
          IF pc[t] = "woken"
          THEN Flag(t) = "OFF" /\ (old_status[t] = "OFF" <=> masked[t])
          ELSE Flag(t) = "OFF" <=> masked[t]

IInv == Ready /\ CallTypeOK /\ Wait /\ LockInv /\ MaskInv

-----------------------------------------------------------------------------
LEMMA InitIInv == Init => IInv
<1> SUFFICES ASSUME Init PROVE IInv
  OBVIOUS
<1> USE SchedAssumption, SyncAssumption
<1>1. /\ cur = main /\ intr = "ON" /\ ready_list = <<idle>> \o Workers
      /\ ticks = Priority /\ saved = [t \in Threads |-> "ON"]
      /\ idle_pc = "block" /\ panic = FALSE
      /\ idle \in Threads /\ main \in Threads /\ idle # main
  BY DEF Init, SchedInit, SchedAssumption
<1>2. /\ ready_list \in Seq(Threads) /\ Distinct(ready_list)
      /\ Listed(ready_list) \subseteq Threads /\ main \notin Listed(ready_list)
      /\ idle \in Listed(ready_list)
  <2>1. Workers \in Seq(Threads) /\ Distinct(Workers)
    BY DEF SyncAssumption
  <2>2. idle \notin Listed(Workers) /\ main \notin Listed(Workers)
    BY DEF SyncAssumption, Listed, Range
  <2>3. Listed(ready_list) = Listed(Workers) \cup {idle}
    BY <1>1, <2>1, PushList
  <2>4. Listed(Workers) \subseteq Threads
    BY <2>1 DEF Listed, Range
  <2>5. ready_list \in Seq(Threads) /\ Distinct(ready_list)
    BY <1>1, <2>1, <2>2, PushList
  <2> QED BY <1>1, <2>2, <2>3, <2>4, <2>5
<1>3. status = [t \in Threads |-> IF t = main THEN "RUNNING"
                                  ELSE IF t \in Listed(ready_list) THEN "READY" ELSE "FREE"]
  BY DEF Init, SchedInit
<1>4. SchedTypeOK
  BY <1>1, <1>2, <1>3 DEF SchedTypeOK, Status, Intr, SchedAssumption
<1>5. Ready
  BY <1>1, <1>2, <1>3, <1>4 DEF Ready, NoPanic, QueueInv, Queued, SchedTypeOK
<1>6. /\ value = [s \in Semaphores |-> IF s \in Locks THEN 1 ELSE 0]
      /\ waiters = [s \in Semaphores |-> <<>>]
      /\ holder = [l \in Locks |-> None]
      /\ holder_repeat_nr = [l \in Locks |-> 0]
      /\ pc = [t \in Threads |-> "out"]
      /\ arg = [t \in Threads |-> None]
      /\ old_status = [t \in Threads |-> "ON"]
      /\ masked = [t \in Threads |-> FALSE]
      /\ depth = [t \in Threads |-> [l \in Locks |-> 0]]
      /\ Locks \subseteq Semaphores /\ None \notin Threads
  BY DEF Init, SyncAssumption
<1>7. CallTypeOK
  BY <1>1, <1>6 DEF CallTypeOK, PC, Intr
<1>8. Wait
  BY <1>1, <1>3, <1>6 DEF Wait, NoLostWakeup, Distinct, Listed, Range, Stopped, Clients
<1>9. LockInv
  BY <1>1, <1>6 DEF LockInv, Token, Owners, Fields, Owns, TakingOver, HandingBack, Counted, Clients
<1>10. MaskInv
  BY <1>1, <1>6 DEF MaskInv, Flag, Clients
<1> QED BY <1>5, <1>7, <1>8, <1>9, <1>10 DEF IInv

-----------------------------------------------------------------------------
(* The abstract lock: what a step may do to owner and taken. *)

LockStep == [Abstract!Next]_<<owner, taken>>

LEMMA OneOwner ==
    ASSUME NEW S, NEW t \in S, \A u, w \in S : u = w PROVE TheOne(S) = t
  BY DEF TheOne

\* A step that leaves the owners and everybody's count alone is no abstract step.
LEMMA SameLocks ==
    ASSUME Owners' = Owners,
           \A t \in Threads, l \in Locks : taken'[t][l] = taken[t][l]
    PROVE  LockStep
<1>1. owner' = owner
  BY DEF owner
<1>2. taken' = taken
  BY DEF taken
<1> QED BY <1>1, <1>2 DEF LockStep

\* How the owner of a lock may change how often he has it.
Change(m, n) == n = m \/ n = m + 1 \/ (m > 1 /\ n = m - 1)

LEMMA OwnerChange ==
    ASSUME NEW t \in Clients, NEW l \in Locks, Owners' = Owners,
           owner[l] = t, NEW n, Change(taken[t][l], n),
           taken' = [taken EXCEPT ![t][l] = n]
    PROVE  LockStep
<1>1. owner' = owner /\ t \in Threads
  BY DEF owner, Clients
<1>2. CASE n = taken[t][l]
  <2>1. /\ taken = [u \in Threads |-> taken[u]]
        /\ taken[t] = [k \in Locks |-> taken[t][k]]
    BY <1>1 DEF taken
  <2>2. [taken EXCEPT ![t][l] = taken[t][l]] = taken
    BY <1>1, <2>1
  <2> QED BY <1>1, <1>2, <2>2 DEF LockStep
<1>3. CASE n = taken[t][l] + 1
  <2>1. Abstract!Reenter(t, l)
    BY <1>1, <1>3 DEF Abstract!Reenter
  <2> QED BY <1>1, <2>1 DEF LockStep, Abstract!Next
<1>4. CASE taken[t][l] > 1 /\ n = taken[t][l] - 1
  <2>1. Abstract!Leave(t, l)
    BY <1>1, <1>4 DEF Abstract!Leave
  <2> QED BY <1>1, <2>1 DEF LockStep, Abstract!Next
<1> QED BY <1>2, <1>3, <1>4 DEF Change

(***************************************************************************)
(* Steps of t that stay in the CPU and touch no queue: everything in       *)
(* try_lock and try_release outside the two semaphore calls.               *)
(***************************************************************************)
LEMMA LocalStep ==
    ASSUME IInv, NEW t \in Clients, cur = t, NEW label \in PC \ {"woken"},
           pc[t] # "woken", pc' = [pc EXCEPT ![t] = label],
           UNCHANGED <<queueVars, intr, idle_pc, semaVars, old_status, masked>>,
           panic' = panic,
           \A u \in Threads \ {t} : arg'[u] = arg[u]
    PROVE  Ready' /\ Wait' /\ MaskInv'
<1>1. Ready'
  BY DEF IInv, Ready, SchedTypeOK, NoPanic, QueueInv, Queued, queueVars, Listed, Distinct
<1>2. \A u \in Threads : /\ pc'[u] = IF u = t THEN label ELSE pc[u]
                         /\ pc'[u] = "woken" <=> pc[u] = "woken"
                         /\ pc[u] = "woken" => arg'[u] = arg[u]
  BY DEF IInv, CallTypeOK, Clients
<1>3. NoLostWakeup'
  BY <1>2 DEF IInv, Wait, NoLostWakeup, semaVars, queueVars, Clients
<1>4. Wait'
  BY <1>2, <1>3 DEF IInv, Wait, semaVars, queueVars, Distinct, Listed, Clients
<1>5. MaskInv'
  BY <1>2 DEF IInv, MaskInv, Flag, queueVars, Clients
<1> QED BY <1>1, <1>4, <1>5

(***************************************************************************)
(* A local step that leaves the locks alone and changes what t itself is   *)
(* doing, without t becoming or ceasing to be an owner.                    *)
(***************************************************************************)
LEMMA ViewStep ==
    ASSUME IInv, NEW t \in Clients, cur = t, NEW label \in PC \ {"woken"}, NEW l \in Locks,
           pc[t] \in {"out", "try_lock"}, pc' = [pc EXCEPT ![t] = label],
           arg' = [arg EXCEPT ![t] = l],
           label \in {"try_lock", "sema_down", "nest", "try_release"},
           Knows(t, label, holder[l], holder_repeat_nr[l]),
           UNCHANGED <<schedVars, semaVars, lockVars, old_status, masked, depth>>
    PROVE  IInv' /\ LockStep
<1>0. /\ t \in Threads /\ t # idle
      /\ \A u \in Threads : /\ pc'[u] = IF u = t THEN label ELSE pc[u]
                            /\ arg'[u] = IF u = t THEN l ELSE arg[u]
      /\ value' = value /\ holder' = holder /\ holder_repeat_nr' = holder_repeat_nr
  <2>1. t \in Threads /\ t # idle
    BY DEF Clients
  <2>2. pc \in [Threads -> PC] /\ arg \in [Threads -> Semaphores \cup {None}]
    BY DEF IInv, CallTypeOK
  <2>3. value' = value /\ holder' = holder /\ holder_repeat_nr' = holder_repeat_nr
    BY DEF semaVars, lockVars
  <2> QED BY <2>1, <2>2, <2>3
<1>1. Ready' /\ Wait' /\ MaskInv'
  <2>1. /\ UNCHANGED <<queueVars, intr, idle_pc, semaVars, old_status, masked>>
        /\ panic' = panic
    BY DEF schedVars, queueVars
  <2> QED BY <1>0, <2>1, LocalStep
<1>2. CallTypeOK'
  BY <1>0, SyncAssumption DEF IInv, CallTypeOK, semaVars, lockVars, SyncAssumption
<1>3. Owners' = Owners
  BY <1>0 DEF Owners, Owns, TakingOver, HandingBack, Clients
<1>4. Token'
  BY <1>0, <1>3 DEF IInv, LockInv, Token
<1>5. Fields'
  BY <1>0 DEF IInv, LockInv, Fields, Clients
<1>6. ASSUME NEW u \in Clients, pc'[u] # "out" PROVE Label(u)'
  <2>1. CASE u = t
    <3>1. pc'[t] = label /\ arg'[t] = l /\ holder'[l] = holder[l]
          /\ holder_repeat_nr'[l] = holder_repeat_nr[l]
      BY <1>0
    <3> QED BY <2>1, <3>1 DEF Label, Knows
  <2>2. CASE u # t
    BY <1>0, <1>6, <2>2 DEF Label, IInv, LockInv, Clients
  <2> QED BY <2>1, <2>2
<1>7. \A u \in Clients, k \in Locks : Counted(u, k)'
  BY <1>0 DEF IInv, LockInv, Counted, HandingBack, Clients
<1>8. LockStep
  <2>1. \A u \in Threads, k \in Locks : taken'[u][k] = taken[u][k]
    BY <1>0 DEF taken, TakingOver
  <2> QED BY <1>3, <2>1, SameLocks
<1> QED BY <1>1, <1>2, <1>4, <1>5, <1>6, <1>7, <1>8 DEF IInv, LockInv

(***************************************************************************)
(* A local step of the owner t of its lock, that leaves t the owner and    *)
(* writes h, n and d to holder, holder_repeat_nr and t's own count.        *)
(***************************************************************************)
Times(label, d) == IF label \in {"set_holder", "check_nr", "set_nr"} THEN 1 ELSE d

OwnAct(t, label, h, n, d) ==
    /\ cur = t /\ arg[t] \in Locks /\ Owns(t, arg[t]) /\ pc[t] \notin {"out", "woken"}
    /\ label \in PC \ {"woken"} /\ h \in {t, None} /\ n \in Nat /\ d \in Nat
    /\ pc' = [pc EXCEPT ![t] = label]
    /\ holder' = [holder EXCEPT ![arg[t]] = h]
    /\ holder_repeat_nr' = [holder_repeat_nr EXCEPT ![arg[t]] = n]
    /\ depth' = [depth EXCEPT ![t][arg[t]] = d]
    /\ h = t \/ label \in {"set_holder", "clear_nr", "sema_up"}
    /\ h = None /\ n # 0 => label = "clear_nr"
    /\ h = t /\ n = 0 => label \in {"check_nr", "set_nr"}
    /\ label # "out" => Knows(t, label, h, n)
    /\ d = IF h = t THEN n ELSE IF label \in {"clear_nr", "sema_up"} THEN 1 ELSE 0
    /\ Change(Times(pc[t], depth[t][arg[t]]), Times(label, d))
    /\ UNCHANGED <<queueVars, intr, idle_pc, panic, semaVars, arg, old_status, masked>>

LEMMA OwnStep ==
    ASSUME IInv, NEW t \in Clients, NEW label, NEW h, NEW n, NEW d,
           OwnAct(t, label, h, n, d)
    PROVE  IInv' /\ LockStep
<1> DEFINE l == arg[t]
<1>a. /\ cur = t /\ l \in Locks /\ Owns(t, l) /\ pc[t] \notin {"out", "woken"}
      /\ label \in PC \ {"woken"} /\ h \in {t, None} /\ n \in Nat /\ d \in Nat
      /\ pc' = [pc EXCEPT ![t] = label]
      /\ h = t \/ label \in {"set_holder", "clear_nr", "sema_up"}
      /\ h = None /\ n # 0 => label = "clear_nr"
      /\ h = t /\ n = 0 => label \in {"check_nr", "set_nr"}
      /\ label # "out" => Knows(t, label, h, n)
      /\ d = IF h = t THEN n ELSE IF label \in {"clear_nr", "sema_up"} THEN 1 ELSE 0
      /\ Change(Times(pc[t], depth[t][l]), Times(label, d))
      /\ UNCHANGED <<queueVars, intr, idle_pc, semaVars, arg, old_status, masked>>
      /\ panic' = panic
  BY DEF OwnAct
<1>b. /\ holder' = [holder EXCEPT ![l] = h]
      /\ holder_repeat_nr' = [holder_repeat_nr EXCEPT ![l] = n]
      /\ depth' = [depth EXCEPT ![t][l] = d]
  BY DEF OwnAct
<1> USE SyncAssumption DEF SyncAssumption
<1>0. /\ t \in Threads /\ t # idle /\ None \notin Threads
      /\ \A u \in Threads : pc'[u] = IF u = t THEN label ELSE pc[u]
      /\ \A k \in Locks : holder'[k] = IF k = l THEN h ELSE holder[k]
      /\ \A k \in Locks : holder_repeat_nr'[k] = IF k = l THEN n ELSE holder_repeat_nr[k]
      /\ \A u \in Threads, k \in Locks :
            depth'[u][k] = IF u = t /\ k = l THEN d ELSE depth[u][k]
      /\ UNCHANGED <<value, waiters, arg>>
  BY <1>a, <1>b DEF IInv, CallTypeOK, Clients, semaVars
<1>1. Ready' /\ Wait' /\ MaskInv'
  BY <1>0, <1>a, LocalStep
<1>2. CallTypeOK'
  BY <1>0, <1>a, <1>b DEF IInv, CallTypeOK, semaVars
<1>3. \A u \in Clients \ {t} : ~Owns(u, l)
  BY <1>0, <1>a DEF IInv, LockInv, Token, Owners
<1>4. Owners' = Owners
  <2>1. ASSUME NEW u \in Clients, NEW k \in Locks PROVE Owns(u, k)' <=> Owns(u, k)
    <3>1. CASE u # t /\ k = l
      BY <1>0, <1>a, <1>3, <3>1 DEF Owns, TakingOver, HandingBack, Clients
    <3>2. CASE u # t /\ k # l
      BY <1>0, <1>a, <3>2 DEF Owns, TakingOver, HandingBack, Clients
    <3>3. CASE u = t /\ k = l
      BY <1>0, <1>a, <3>3 DEF Owns, TakingOver, HandingBack
    <3>4. CASE u = t /\ k # l
      BY <1>0, <1>a, <3>4 DEF Owns, TakingOver, HandingBack
    <3> QED BY <1>a, <3>1, <3>2, <3>3, <3>4
  <2> QED BY <2>1 DEF Owners
<1>5. Token'
  BY <1>0, <1>a, <1>4 DEF IInv, LockInv, Token
<1>6. Fields'
  <2> SUFFICES ASSUME NEW k \in Locks
               PROVE  /\ holder'[k] # idle
                      /\ holder'[k] = None /\ holder_repeat_nr'[k] # 0 =>
                            \E u \in Clients : arg'[u] = k /\ pc'[u] = "clear_nr"
                      /\ \A u \in Clients : holder'[k] = u /\ holder_repeat_nr'[k] = 0 =>
                            arg'[u] = k /\ pc'[u] \in {"check_nr", "set_nr"}
    BY DEF Fields
  <2>1. CASE k = l
    <3>1. holder'[k] = h /\ holder_repeat_nr'[k] = n /\ pc'[t] = label /\ arg'[t] = k
      BY <1>0, <1>a, <2>1
    <3>2. h # idle /\ (h # None <=> h = t)
      BY <1>0, <1>a, SchedAssumption DEF SchedAssumption
    <3>3. h = None /\ n # 0 => \E u \in Clients : arg'[u] = k /\ pc'[u] = "clear_nr"
      BY <1>a, <3>1
    <3>4. \A u \in Clients : h = u => u = t
      BY <1>0, <1>a DEF Clients
    <3> QED BY <1>a, <3>1, <3>2, <3>3, <3>4
  <2>2. CASE k # l
    BY <1>0, <1>a, <2>2 DEF IInv, LockInv, Fields, Clients
  <2> QED BY <2>1, <2>2
<1>7. ASSUME NEW u \in Clients, pc'[u] # "out" PROVE Label(u)'
  <2>1. CASE u = t
    BY <1>0, <1>a, <1>7, <2>1 DEF Label
  <2>2. CASE u # t /\ arg[u] = l
    <3>1. pc[u] \in PC /\ pc[u] \notin {"out", "set_holder", "check_nr", "set_nr", "clear_nr", "sema_up"}
          /\ holder[l] # u
      BY <1>0, <1>a, <1>3, <1>7, <2>2 DEF Owns, TakingOver, HandingBack, IInv, CallTypeOK, Clients
    <3>2. pc[u] \in {"try_lock", "sema_down", "woken"}
      BY <1>0, <1>a, <1>7, <2>2, <3>1 DEF IInv, LockInv, Label, Knows, Clients, PC
    <3> QED BY <1>0, <1>a, <2>2, <3>2 DEF Label, Knows, Clients
  <2>3. CASE u # t /\ arg[u] # l
    BY <1>0, <1>a, <1>7, <2>3 DEF IInv, LockInv, Label, CallTypeOK, Clients
  <2> QED BY <2>1, <2>2, <2>3
<1>8. ASSUME NEW u \in Clients, NEW k \in Locks PROVE Counted(u, k)'
  <2>1. CASE u = t /\ k = l
    BY <1>0, <1>a, <2>1 DEF Counted, HandingBack
  <2>2. CASE u # t /\ k = l
    BY <1>0, <1>a, <1>3, <2>2 DEF IInv, LockInv, Counted, Owns, HandingBack, Clients
  <2>3. CASE u # t /\ k # l
    BY <1>0, <1>a, <2>3 DEF IInv, LockInv, Counted, HandingBack, Clients
  <2>4. CASE u = t /\ k # l
    BY <1>0, <1>a, <2>4 DEF IInv, LockInv, Counted, HandingBack, Clients
  <2> QED BY <2>1, <2>2, <2>3, <2>4
<1>9. LockStep
  <2>1. owner[l] = t
    <3>1. t \in Owners[l] /\ \A u, w \in Owners[l] : u = w
      BY <1>a DEF Owners, IInv, LockInv, Token
    <3> QED BY <1>a, <3>1, OneOwner DEF owner
  <2>2. taken[t][l] = Times(pc[t], depth[t][l])
    BY <1>0, <1>a DEF taken, TakingOver, Times
  <2>3. ASSUME NEW u \in Threads, NEW k \in Locks
        PROVE  taken'[u][k] = IF u = t /\ k = l THEN Times(label, d) ELSE taken[u][k]
    <3>1. /\ taken'[u][k] = IF TakingOver(u, k)' THEN 1 ELSE depth'[u][k]
          /\ taken[u][k] = IF TakingOver(u, k) THEN 1 ELSE depth[u][k]
      BY DEF taken
    <3>2. CASE u = t /\ k = l
      BY <1>0, <1>a, <3>1, <3>2 DEF TakingOver, Times
    <3>3. CASE u = t /\ k # l
      BY <1>0, <1>a, <3>1, <3>3 DEF TakingOver
    <3>4. CASE u # t
      BY <1>0, <1>a, <3>1, <3>4 DEF TakingOver
    <3> QED BY <3>2, <3>3, <3>4
  <2>4. taken' = [taken EXCEPT ![t][l] = Times(label, d)]
    <3>1. /\ taken = [u \in Threads |-> [k \in Locks |-> taken[u][k]]]
          /\ taken' = [u \in Threads |-> [k \in Locks |-> taken'[u][k]]]
      BY DEF taken
    <3> QED BY <1>0, <1>a, <2>3, <3>1
  <2> QED BY <1>a, <1>4, <2>1, <2>2, <2>4, OwnerChange
<1> QED BY <1>1, <1>2, <1>5, <1>6, <1>7, <1>8, <1>9 DEF IInv, LockInv

-----------------------------------------------------------------------------
(* The steps of try_lock and try_release, one by one. *)

\* A thread at one of these labels is the one that runs, and knows its lock.
LEMMA AtLabel ==
    ASSUME IInv, NEW t \in Clients, NEW label \in PC \ {"out", "woken"}, At(t, label)
    PROVE  /\ cur = t /\ t \in Threads /\ t # idle /\ t # None /\ ~panic
           /\ pc[t] = label /\ arg[t] \in Locks
           /\ Knows(t, label, holder[arg[t]], holder_repeat_nr[arg[t]])
           /\ holder_repeat_nr[arg[t]] \in Nat
           /\ holder[arg[t]] = t /\ holder_repeat_nr[arg[t]] = 0
                  => label \in {"check_nr", "set_nr"}
           /\ depth[t] \in [Locks -> Nat]
           /\ Counted(t, arg[t])
<1>1. cur = t /\ t \in Threads /\ t # idle /\ t # None /\ ~panic /\ pc[t] = label
  BY SyncAssumption DEF At, Running, Clients, SyncAssumption
<1>2. arg[t] \in Locks /\ holder_repeat_nr[arg[t]] \in Nat /\ depth[t] \in [Locks -> Nat]
  BY <1>1 DEF IInv, CallTypeOK
<1>3. Knows(t, label, holder[arg[t]], holder_repeat_nr[arg[t]]) /\ Counted(t, arg[t])
  BY <1>1, <1>2 DEF IInv, LockInv, Label
<1> QED BY <1>1, <1>2, <1>3 DEF IInv, LockInv, Fields

\* The holder's own count is the lock's; writing back what is there is no change.
LEMMA HolderCount ==
    ASSUME IInv, NEW t \in Clients, NEW l \in Locks, holder[l] = t
    PROVE  /\ depth[t][l] = holder_repeat_nr[l]
           /\ holder = [holder EXCEPT ![l] = t]
           /\ holder_repeat_nr = [holder_repeat_nr EXCEPT ![l] = holder_repeat_nr[l]]
           /\ depth = [depth EXCEPT ![t][l] = holder_repeat_nr[l]]
<1>1. t \in Threads /\ Counted(t, l)
  BY DEF Clients, IInv, LockInv
<1>2. depth[t][l] = holder_repeat_nr[l]
  BY <1>1 DEF Counted
<1>3. /\ holder \in [Locks -> Threads \cup {None}]
      /\ holder_repeat_nr \in [Locks -> Nat]
      /\ depth \in [Threads -> [Locks -> Nat]]
  BY DEF IInv, CallTypeOK
<1>4. holder = [holder EXCEPT ![l] = t]
      /\ holder_repeat_nr = [holder_repeat_nr EXCEPT ![l] = holder_repeat_nr[l]]
  BY <1>3
<1>5. depth = [depth EXCEPT ![t][l] = depth[t][l]]
  BY <1>1, <1>3
<1> QED BY <1>2, <1>4, <1>5

LEMMA TryLockStep ==
    ASSUME IInv, NEW t \in Clients, TryLock(t) PROVE IInv' /\ LockStep
<1> DEFINE l == arg[t]
           label == IF holder[l] # t THEN "sema_down" ELSE "nest"
<1>1. At(t, "try_lock") /\ pc' = [pc EXCEPT ![t] = label]
      /\ UNCHANGED <<schedVars, semaVars, lockVars, arg, old_status, masked, depth>>
  BY DEF TryLock, Goto
<1>2. /\ cur = t /\ t \in Threads /\ pc[t] = "try_lock" /\ l \in Locks
      /\ holder_repeat_nr[l] \in Nat
      /\ holder[l] = t => holder_repeat_nr[l] # 0
  BY <1>1, AtLabel DEF PC
<1>3. label \in PC \ {"woken"} /\ label \in {"try_lock", "sema_down", "nest", "try_release"}
  BY DEF PC
<1>4. Knows(t, label, holder[l], holder_repeat_nr[l])
  BY <1>2 DEF Knows
<1>5. arg' = [arg EXCEPT ![t] = l]
  BY <1>1, <1>2 DEF IInv, CallTypeOK
<1> HIDE DEF l, label
<1> QED BY <1>1, <1>2, <1>3, <1>4, <1>5, ViewStep

LEMMA CallTryLockStep ==
    ASSUME IInv, NEW t \in Clients, NEW l \in Locks, CallTryLock(t, l) PROVE IInv' /\ LockStep
<1>1. /\ cur = t /\ pc[t] = "out" /\ pc' = [pc EXCEPT ![t] = "try_lock"]
      /\ arg' = [arg EXCEPT ![t] = l]
      /\ UNCHANGED <<schedVars, semaVars, lockVars, old_status, masked, depth>>
  BY DEF CallTryLock, Call, At, Running, Goto
<1>2. Knows(t, "try_lock", holder[l], holder_repeat_nr[l])
  BY DEF Knows
<1> QED BY <1>1, <1>2, ViewStep DEF PC

LEMMA CallTryReleaseStep ==
    ASSUME IInv, NEW t \in Clients, NEW l \in Locks, CallTryRelease(t, l) PROVE IInv' /\ LockStep
<1>1. /\ cur = t /\ pc[t] = "out" /\ pc' = [pc EXCEPT ![t] = "try_release"]
      /\ arg' = [arg EXCEPT ![t] = l] /\ depth[t][l] > 0
      /\ UNCHANGED <<schedVars, semaVars, lockVars, old_status, masked, depth>>
  BY DEF CallTryRelease, Call, At, Running, Goto
<1>2. holder[l] = t /\ holder_repeat_nr[l] >= 1
  <2>1. Counted(t, l) /\ ~HandingBack(t, l)
    BY <1>1 DEF IInv, LockInv, HandingBack
  <2>2. holder_repeat_nr[l] \in Nat
    BY DEF IInv, CallTypeOK
  <2> QED BY <1>1, <2>1, <2>2 DEF Counted
<1>3. Knows(t, "try_release", holder[l], holder_repeat_nr[l])
  BY <1>2 DEF Knows
<1> QED BY <1>1, <1>3, ViewStep DEF PC

LEMMA SetHolderStep ==
    ASSUME IInv, NEW t \in Clients, SetHolder(t) PROVE IInv' /\ LockStep
<1> DEFINE l == arg[t]
<1>1. /\ At(t, "set_holder") /\ pc' = [pc EXCEPT ![t] = "check_nr"]
      /\ holder' = [holder EXCEPT ![l] = t]
      /\ UNCHANGED <<schedVars, semaVars, holder_repeat_nr, arg, old_status, masked, depth>>
  BY DEF SetHolder, Goto
<1>2. /\ cur = t /\ pc[t] = "set_holder" /\ l \in Locks /\ t \in Threads
      /\ holder[l] = None /\ holder_repeat_nr[l] = 0 /\ depth[t][l] = 0
  BY <1>1, AtLabel, SyncAssumption DEF PC, Knows, Counted, HandingBack, SyncAssumption
<1>3. /\ holder_repeat_nr' = [holder_repeat_nr EXCEPT ![l] = 0]
      /\ depth' = [depth EXCEPT ![t][l] = 0]
  BY <1>1, <1>2 DEF IInv, CallTypeOK
<1>4. UNCHANGED <<queueVars, intr, idle_pc, semaVars, arg, old_status, masked>> /\ panic' = panic
  BY <1>1 DEF schedVars, queueVars
<1>5. Owns(t, l) /\ Knows(t, "check_nr", t, 0) /\ "check_nr" \in PC \ {"woken"}
  BY <1>2 DEF Owns, TakingOver, Knows, PC
<1>c. Change(Times(pc[t], depth[t][l]), Times("check_nr", 0))
  BY <1>2 DEF Change, Times
<1>6. OwnAct(t, "check_nr", t, 0, 0)
  BY <1>1, <1>2, <1>3, <1>4, <1>5, <1>c DEF OwnAct
<1> QED BY <1>6, OwnStep

LEMMA CheckNrStep ==
    ASSUME IInv, NEW t \in Clients, CheckNr(t) PROVE IInv' /\ LockStep
<1> DEFINE l == arg[t]
           nr == holder_repeat_nr[l]
<1>1. /\ At(t, "check_nr")
      /\ pc' = [pc EXCEPT ![t] = "set_nr"] /\ panic' = (nr # 0)
      /\ UNCHANGED <<queueVars, intr, idle_pc, semaVars, lockVars,
                     arg, old_status, masked, depth>>
  BY DEF CheckNr, Goto
<1>2. /\ cur = t /\ pc[t] = "check_nr" /\ l \in Locks /\ t \in Threads /\ ~panic
      /\ holder[l] = t /\ nr = 0
      /\ nr \in Nat /\ Counted(t, l)
  BY <1>1, AtLabel DEF PC, Knows
<1>3. /\ panic' = panic
      /\ holder' = [holder EXCEPT ![l] = t]
      /\ holder_repeat_nr' = [holder_repeat_nr EXCEPT ![l] = 0]
      /\ depth' = [depth EXCEPT ![t][l] = 0]
  BY <1>1, <1>2 DEF IInv, CallTypeOK, lockVars, Counted, Ready, SchedTypeOK
<1>4. Owns(t, l) /\ Knows(t, "set_nr", t, 0) /\ "set_nr" \in PC \ {"woken"}
  BY <1>2 DEF Owns, Knows, PC
<1>c. Change(Times(pc[t], depth[t][l]), Times("set_nr", 0))
  BY <1>2 DEF Change, Times
<1>5. OwnAct(t, "set_nr", t, 0, 0)
  BY <1>1, <1>2, <1>3, <1>4, <1>c DEF OwnAct
<1> QED BY <1>5, OwnStep

LEMMA SetNrStep ==
    ASSUME IInv, NEW t \in Clients, SetNr(t) PROVE IInv' /\ LockStep
<1> DEFINE l == arg[t]
           nr == holder_repeat_nr[l]
<1>1. /\ At(t, "set_nr")
      /\ pc' = [pc EXCEPT ![t] = "out"]
      /\ holder_repeat_nr' = [holder_repeat_nr EXCEPT ![l] = 1]
      /\ depth' = [depth EXCEPT ![t][l] = @ + 1]
      /\ UNCHANGED <<schedVars, semaVars, holder, arg, old_status, masked>>
  BY DEF SetNr, Goto
<1>2. /\ cur = t /\ pc[t] = "set_nr" /\ l \in Locks /\ t \in Threads /\ t # None /\ ~panic
      /\ holder[l] = t /\ nr = 0
      /\ nr \in Nat /\ Counted(t, l)
  BY <1>1, AtLabel DEF PC, Knows
<1>3. /\ holder' = [holder EXCEPT ![l] = t]
      /\ holder_repeat_nr' = [holder_repeat_nr EXCEPT ![l] = 1]
      /\ depth' = [depth EXCEPT ![t][l] = 1]
      /\ pc' = [pc EXCEPT ![t] = "out"]
  <2>1. depth[t][l] = 0 /\ holder = [holder EXCEPT ![l] = t]
    BY <1>2, HolderCount
  <2> QED BY <1>1, <2>1
<1>4. Owns(t, l) /\ "out" \in PC \ {"woken"}
  BY <1>2 DEF Owns, PC
<1>5. UNCHANGED <<queueVars, intr, idle_pc, panic, semaVars, arg, old_status, masked>>
  BY <1>1 DEF schedVars, queueVars
<1>c. Change(Times(pc[t], depth[t][l]), Times("out", 1))
  BY <1>2 DEF Change, Times
<1>6. OwnAct(t, "out", t, 1, 1)
  BY <1>2, <1>3, <1>4, <1>5, <1>c DEF OwnAct
<1> QED BY <1>6, OwnStep

LEMMA NestStep ==
    ASSUME IInv, NEW t \in Clients, Nest(t) PROVE IInv' /\ LockStep
<1> DEFINE l == arg[t]
           nr == holder_repeat_nr[l]
<1>1. /\ At(t, "nest")
      /\ pc' = [pc EXCEPT ![t] = "out"]
      /\ holder_repeat_nr' = [holder_repeat_nr EXCEPT ![l] = @ + 1]
      /\ depth' = [depth EXCEPT ![t][l] = @ + 1]
      /\ UNCHANGED <<schedVars, semaVars, holder, arg, old_status, masked>>
  BY DEF Nest, Goto
<1>2. /\ cur = t /\ pc[t] = "nest" /\ l \in Locks /\ t \in Threads /\ t # None /\ ~panic
      /\ holder[l] = t /\ nr >= 1
      /\ nr \in Nat /\ Counted(t, l)
  BY <1>1, AtLabel DEF PC, Knows
<1>3. /\ holder' = [holder EXCEPT ![l] = t]
      /\ holder_repeat_nr' = [holder_repeat_nr EXCEPT ![l] = nr + 1]
      /\ depth' = [depth EXCEPT ![t][l] = nr + 1]
  <2>1. depth[t][l] = nr /\ holder = [holder EXCEPT ![l] = t]
    BY <1>2, HolderCount
  <2> QED BY <1>1, <2>1
<1>4. Owns(t, l) /\ "out" \in PC \ {"woken"} /\ nr + 1 \in Nat /\ nr + 1 # 0
  BY <1>2 DEF Owns, PC
<1>5. UNCHANGED <<queueVars, intr, idle_pc, panic, semaVars, arg, old_status, masked>>
  BY <1>1 DEF schedVars, queueVars
<1>c. Change(Times(pc[t], depth[t][l]), Times("out", nr + 1))
  BY <1>2, HolderCount DEF Change, Times
<1>6. OwnAct(t, "out", t, nr + 1, nr + 1)
  BY <1>1, <1>2, <1>3, <1>4, <1>5, <1>c DEF OwnAct
<1> QED BY <1>6, OwnStep

LEMMA TryReleaseStep ==
    ASSUME IInv, NEW t \in Clients, TryRelease(t) PROVE IInv' /\ LockStep
<1> DEFINE l == arg[t]
           nr == holder_repeat_nr[l]
<1>1. /\ At(t, "try_release")
      /\ pc' = [pc EXCEPT ![t] = "read_nr"] /\ panic' = (holder[l] # t)
      /\ UNCHANGED <<queueVars, intr, idle_pc, semaVars, lockVars,
                     arg, old_status, masked, depth>>
  BY DEF TryRelease, Goto
<1>2. /\ cur = t /\ pc[t] = "try_release" /\ l \in Locks /\ t \in Threads /\ t # None /\ ~panic
      /\ holder[l] = t /\ nr >= 1
      /\ nr \in Nat /\ Counted(t, l)
  BY <1>1, AtLabel DEF PC, Knows
<1>3. /\ panic' = panic
      /\ holder' = [holder EXCEPT ![l] = t]
      /\ holder_repeat_nr' = [holder_repeat_nr EXCEPT ![l] = nr]
      /\ depth' = [depth EXCEPT ![t][l] = nr]
  BY <1>1, <1>2, HolderCount DEF lockVars, IInv, Ready, NoPanic, SchedTypeOK
<1>4. Owns(t, l) /\ Knows(t, "read_nr", t, nr) /\ "read_nr" \in PC \ {"woken"} /\ nr # 0
  BY <1>2 DEF Owns, Knows, PC
<1>c. Change(Times(pc[t], depth[t][l]), Times("read_nr", nr))
  BY <1>2, HolderCount DEF Change, Times
<1>5. OwnAct(t, "read_nr", t, nr, nr)
  BY <1>1, <1>2, <1>3, <1>4, <1>c DEF OwnAct
<1> QED BY <1>5, OwnStep

LEMMA ReadNrStep ==
    ASSUME IInv, NEW t \in Clients, ReadNr(t) PROVE IInv' /\ LockStep
<1> DEFINE l == arg[t]
           nr == holder_repeat_nr[l]
<1>1. /\ At(t, "read_nr")
      /\ pc' = [pc EXCEPT ![t] = IF nr > 1 THEN "unnest" ELSE "clear_holder"]
      /\ panic' = (nr = 0)
      /\ UNCHANGED <<queueVars, intr, idle_pc, semaVars, lockVars,
                     arg, old_status, masked, depth>>
  BY DEF ReadNr, Goto
<1>2. /\ cur = t /\ pc[t] = "read_nr" /\ l \in Locks /\ t \in Threads /\ t # None /\ ~panic
      /\ holder[l] = t /\ nr >= 1
      /\ nr \in Nat /\ Counted(t, l)
  BY <1>1, AtLabel DEF PC, Knows
<1> DEFINE label == IF nr > 1 THEN "unnest" ELSE "clear_holder"
<1>3. /\ panic' = panic
      /\ holder' = [holder EXCEPT ![l] = t]
      /\ holder_repeat_nr' = [holder_repeat_nr EXCEPT ![l] = nr]
      /\ depth' = [depth EXCEPT ![t][l] = nr]
  BY <1>1, <1>2, HolderCount DEF lockVars, IInv, Ready, NoPanic, SchedTypeOK
<1>4. Owns(t, l) /\ Knows(t, label, t, nr) /\ label \in PC \ {"woken"} /\ nr # 0
  BY <1>2 DEF Owns, Knows, PC
<1>c. Change(Times(pc[t], depth[t][l]), Times(label, nr))
  BY <1>2, HolderCount DEF Change, Times
<1>5. OwnAct(t, label, t, nr, nr)
  BY <1>1, <1>2, <1>3, <1>4, <1>c DEF OwnAct
<1> QED BY <1>5, OwnStep

LEMMA UnnestStep ==
    ASSUME IInv, NEW t \in Clients, Unnest(t) PROVE IInv' /\ LockStep
<1> DEFINE l == arg[t]
           nr == holder_repeat_nr[l]
<1>1. /\ At(t, "unnest")
      /\ pc' = [pc EXCEPT ![t] = "out"]
      /\ holder_repeat_nr' = [holder_repeat_nr EXCEPT ![l] = @ - 1]
      /\ depth' = [depth EXCEPT ![t][l] = @ - 1]
      /\ UNCHANGED <<schedVars, semaVars, holder, arg, old_status, masked>>
  BY DEF Unnest, Goto
<1>2. /\ cur = t /\ pc[t] = "unnest" /\ l \in Locks /\ t \in Threads /\ t # None /\ ~panic
      /\ holder[l] = t /\ nr > 1
      /\ nr \in Nat /\ Counted(t, l)
  BY <1>1, AtLabel DEF PC, Knows
<1>3. /\ holder' = [holder EXCEPT ![l] = t]
      /\ holder_repeat_nr' = [holder_repeat_nr EXCEPT ![l] = nr - 1]
      /\ depth' = [depth EXCEPT ![t][l] = nr - 1]
  <2>1. depth[t][l] = nr /\ holder = [holder EXCEPT ![l] = t]
    BY <1>2, HolderCount
  <2> QED BY <1>1, <2>1
<1>4. Owns(t, l) /\ "out" \in PC \ {"woken"} /\ nr - 1 \in Nat /\ nr - 1 # 0
  BY <1>2 DEF Owns, PC
<1>5. UNCHANGED <<queueVars, intr, idle_pc, panic, semaVars, arg, old_status, masked>>
  BY <1>1 DEF schedVars, queueVars
<1>c. Change(Times(pc[t], depth[t][l]), Times("out", nr - 1))
  BY <1>2, HolderCount DEF Change, Times
<1>6. OwnAct(t, "out", t, nr - 1, nr - 1)
  BY <1>1, <1>2, <1>3, <1>4, <1>5, <1>c DEF OwnAct
<1> QED BY <1>6, OwnStep

LEMMA ClearHolderStep ==
    ASSUME IInv, NEW t \in Clients, ClearHolder(t) PROVE IInv' /\ LockStep
<1> DEFINE l == arg[t]
           nr == holder_repeat_nr[l]
<1>1. /\ At(t, "clear_holder")
      /\ pc' = [pc EXCEPT ![t] = "clear_nr"]
      /\ holder' = [holder EXCEPT ![l] = None]
      /\ UNCHANGED <<schedVars, semaVars, holder_repeat_nr, arg, old_status, masked, depth>>
  BY DEF ClearHolder, Goto
<1>2. /\ cur = t /\ pc[t] = "clear_holder" /\ l \in Locks /\ t \in Threads /\ t # None /\ ~panic
      /\ holder[l] = t /\ nr = 1
      /\ nr \in Nat /\ Counted(t, l)
  BY <1>1, AtLabel DEF PC, Knows
<1>3. /\ holder_repeat_nr' = [holder_repeat_nr EXCEPT ![l] = 1]
      /\ depth' = [depth EXCEPT ![t][l] = 1]
  BY <1>1, <1>2, HolderCount
<1>4. /\ Owns(t, l) /\ Knows(t, "clear_nr", None, 1) /\ "clear_nr" \in PC \ {"woken"}
      /\ None # t
  BY <1>2, SyncAssumption DEF Owns, Knows, PC, SyncAssumption
<1>5. UNCHANGED <<queueVars, intr, idle_pc, panic, semaVars, arg, old_status, masked>>
  BY <1>1 DEF schedVars, queueVars
<1>c. Change(Times(pc[t], depth[t][l]), Times("clear_nr", 1))
  BY <1>2, HolderCount DEF Change, Times
<1>6. OwnAct(t, "clear_nr", None, 1, 1)
  BY <1>1, <1>2, <1>3, <1>4, <1>5, <1>c DEF OwnAct
<1> QED BY <1>6, OwnStep

LEMMA ClearNrStep ==
    ASSUME IInv, NEW t \in Clients, ClearNr(t) PROVE IInv' /\ LockStep
<1> DEFINE l == arg[t]
           nr == holder_repeat_nr[l]
<1>1. /\ At(t, "clear_nr")
      /\ pc' = [pc EXCEPT ![t] = "sema_up"]
      /\ holder_repeat_nr' = [holder_repeat_nr EXCEPT ![l] = 0]
      /\ UNCHANGED <<schedVars, semaVars, holder, arg, old_status, masked, depth>>
  BY DEF ClearNr, Goto
<1>2. /\ cur = t /\ pc[t] = "clear_nr" /\ l \in Locks /\ t \in Threads /\ t # None /\ ~panic
      /\ holder[l] = None /\ nr = 1
      /\ nr \in Nat /\ Counted(t, l)
  BY <1>1, AtLabel DEF PC, Knows
<1>3. Owns(t, l) /\ HandingBack(t, l) /\ None # t
  BY <1>2, SyncAssumption DEF Owns, HandingBack, SyncAssumption
<1>4. /\ holder' = [holder EXCEPT ![l] = None]
      /\ depth' = [depth EXCEPT ![t][l] = 1]
  BY <1>1, <1>2, <1>3 DEF IInv, CallTypeOK, Counted
<1>5. Knows(t, "sema_up", None, 0) /\ "sema_up" \in PC \ {"woken"}
  BY DEF Knows, PC
<1>6. UNCHANGED <<queueVars, intr, idle_pc, panic, semaVars, arg, old_status, masked>>
  BY <1>1 DEF schedVars, queueVars
<1>c. Change(Times(pc[t], depth[t][l]), Times("sema_up", 1))
  BY <1>2, <1>3 DEF Change, Times, Counted
<1>7. OwnAct(t, "sema_up", None, 0, 1)
  BY <1>1, <1>2, <1>3, <1>4, <1>5, <1>6, <1>c DEF OwnAct
<1> QED BY <1>7, OwnStep

-----------------------------------------------------------------------------
(* The semaphore: who gets through sema_down, and whom sema_up wakes. *)

\* What a call of schedule() by the running thread, whose own status is now
\* stat and whose stack keeps the flag old, does to the queue and to the rest.
LEMMA Reschedule ==
    ASSUME IInv, NEW stat \in {"RUNNING", "BLOCKED"}, NEW old \in Intr,
           schedule(ready_list, [status EXCEPT ![cur] = stat], old),
           idle_pc' \in {"block", "sti", "hlt"}
    PROVE  /\ Ready'
           /\ cur' \in Threads
           /\ \A u \in Threads : Flag(u)' = saved'[u]
           /\ \A u \in Threads : saved'[u] = IF u = cur THEN old ELSE saved[u]
           /\ \A u \in Clients \ {cur} :
                 /\ status[u] \in {"READY", "RUNNING"} <=> status'[u] \in {"READY", "RUNNING"}
                 /\ status'[u] \notin {"READY", "RUNNING"} => status'[u] = status[u]
           /\ cur # idle => /\ stat = "BLOCKED" => status'[cur] = "BLOCKED"
                            /\ stat = "RUNNING" => status'[cur] \in {"READY", "RUNNING"}
<1> DEFINE st == [status EXCEPT ![cur] = stat]
<1>1. /\ SchedTypeOK /\ Queued(ready_list, status, {}) /\ status[idle] # "FREE" /\ ~panic
      /\ status[cur] = "RUNNING" /\ cur \in Threads /\ idle \in Threads
      /\ \A u \in Threads : status[u] = "RUNNING" => u = cur
  BY SchedAssumption DEF IInv, Ready, NoPanic, QueueInv, SchedTypeOK, SchedAssumption
<1>2. /\ \A u \in Threads : st[u] = IF u = cur THEN stat ELSE status[u]
      /\ st \in [Threads -> Status]
  BY <1>1 DEF Queued, Status, Stopped
<1>3. Queued(ready_list, st, {})
  BY <1>1, <1>2 DEF Queued
<1>4. /\ \A u \in Threads : st[u] = "RUNNING" => u = cur
      /\ st[cur] \in Stopped \cup {"RUNNING"}
      /\ st[idle] # "FREE" /\ idle \notin {}
      /\ schedule(ready_list, st, old)
  BY <1>1, <1>2 DEF Stopped
<1> HIDE DEF st
<1>5. /\ Queued(ready_list', status', {}) /\ QueueInv'
      /\ cur' \in Threads /\ ticks' \in [Threads -> 0 .. 255]
      /\ saved' = [saved EXCEPT ![cur] = old] /\ saved' \in [Threads -> Intr]
      /\ intr' = saved'[cur'] /\ intr' \in Intr /\ panic' = panic
      /\ \A u \in Threads \ {idle} :
            status'[u] \in Stopped \cup {"FREE"} \/ st[u] \in Stopped \cup {"FREE"}
                => status'[u] = st[u]
      /\ status'[idle] # "FREE"
  BY <1>1, <1>3, <1>4, SchedAssumption, ScheduleQueue
<1>6. Ready'
  BY <1>1, <1>5 DEF Ready, SchedTypeOK, NoPanic, Queued
<1>7. /\ \A u \in Threads : Flag(u)' = saved'[u]
      /\ \A u \in Threads : saved'[u] = IF u = cur THEN old ELSE saved[u]
  BY <1>1, <1>5 DEF Flag, SchedTypeOK
<1>8. \A u \in Threads : st[u] \in Status /\ status'[u] \in Status
  BY <1>2, <1>5 DEF Queued
<1>9. \A u \in Threads \ {idle} :
         /\ st[u] \in {"READY", "RUNNING"} <=> status'[u] \in {"READY", "RUNNING"}
         /\ status'[u] \notin {"READY", "RUNNING"} => status'[u] = st[u]
  BY <1>5, <1>8 DEF Status, Stopped
<1> QED BY <1>1, <1>2, <1>5, <1>6, <1>7, <1>9 DEF Clients

\* A client in sema_down, and what it knows of the semaphore it asks for.
DownAct(t, old) ==
    /\ cur = t /\ ~panic /\ pc[t] \in {"sema_down", "woken"}
    /\ old \in Intr /\ (old = "OFF" <=> masked[t])
    /\ UNCHANGED <<idle_pc, lockVars, arg, masked, depth>>

LEMMA DownFacts ==
    ASSUME IInv, NEW t \in Clients, NEW old, DownAct(t, old)
    PROVE  /\ t \in Threads /\ t # idle /\ arg[t] \in Locks /\ arg[t] \in Semaphores
           /\ holder[arg[t]] # t
           /\ t \notin Listed(waiters[arg[t]])
           /\ ~Owns(t, arg[t])
           /\ old_status \in [Threads -> Intr] /\ pc \in [Threads -> PC]
           /\ arg' = arg /\ holder' = holder /\ holder_repeat_nr' = holder_repeat_nr
           /\ masked' = masked /\ depth' = depth
<1>1. /\ t \in Threads /\ t # idle /\ pc[t] \in {"sema_down", "woken"} /\ cur = t
      /\ UNCHANGED <<lockVars, arg, masked, depth>>
  BY DEF Clients, DownAct
<1>2. arg[t] \in Locks /\ arg[t] \in Semaphores
  BY <1>1, SyncAssumption DEF IInv, CallTypeOK, SyncAssumption
<1>3. holder[arg[t]] # t
  BY <1>1 DEF IInv, LockInv, Label, Knows
<1>4. status[t] = "RUNNING"
  BY <1>1 DEF IInv, Ready, QueueInv
<1>5. t \notin Listed(waiters[arg[t]])
  BY <1>1, <1>2, <1>4 DEF IInv, Wait
<1>6. ~Owns(t, arg[t])
  BY <1>1, <1>3 DEF Owns, TakingOver, HandingBack
<1> QED BY <1>1, <1>2, <1>3, <1>5, <1>6 DEF lockVars, IInv, CallTypeOK

\* The semaphore was up: t takes it, and is the owner from here on.
LEMMA DownTake ==
    ASSUME IInv, NEW t \in Clients, NEW old, DownAct(t, old),
           value[arg[t]] > 0,
           value' = [value EXCEPT ![arg[t]] = @ - 1],
           panic' = (value[arg[t]] # 1),
           intr' = old,
           old_status' = [old_status EXCEPT ![t] = "ON"],
           Goto(t, Return(arg[t])),
           UNCHANGED <<queueVars, waiters>>
    PROVE  IInv' /\ LockStep
<1> DEFINE l == arg[t]
<1> USE SyncAssumption DEF SyncAssumption
<1>1. /\ t \in Threads /\ t # idle /\ l \in Locks /\ l \in Semaphores /\ holder[l] # t
      /\ t \notin Listed(waiters[l]) /\ ~Owns(t, l)
      /\ arg' = arg /\ holder' = holder /\ holder_repeat_nr' = holder_repeat_nr
      /\ masked' = masked /\ depth' = depth
  BY DownFacts
<1>2. /\ cur = t /\ ~panic /\ pc[t] \in {"sema_down", "woken"}
      /\ old \in Intr /\ (old = "OFF" <=> masked[t]) /\ idle_pc' = idle_pc
  BY DEF DownAct
<1>3. /\ value[l] = 1 /\ panic' = FALSE
      /\ \A s \in Semaphores : value'[s] = IF s = l THEN 0 ELSE value[s]
      /\ value' \in [Semaphores -> {0, 1}]
  <2>1. value \in [Semaphores -> {0, 1}]
    BY DEF IInv, CallTypeOK
  <2>2. value[l] = 1 /\ value[l] - 1 = 0
    BY <1>1, <2>1
  <2>3. value' = [value EXCEPT ![l] = 0]
    BY <2>2
  <2> QED BY <1>1, <2>1, <2>2, <2>3
<1>4. /\ \A u \in Threads : pc'[u] = IF u = t THEN "set_holder" ELSE pc[u]
      /\ pc' \in [Threads -> PC]
      /\ \A u \in Threads : old_status'[u] = IF u = t THEN "ON" ELSE old_status[u]
      /\ old_status' \in [Threads -> Intr]
  BY <1>1 DEF Goto, Return, IInv, CallTypeOK, PC, Intr
<1>5. UNCHANGED <<ready_list, status, ticks, cur, saved, waiters>>
  BY DEF queueVars
<1>6. Ready'
  BY <1>2, <1>3, <1>5 DEF IInv, Ready, SchedTypeOK, NoPanic, QueueInv, Queued, Listed, Distinct
<1>7. CallTypeOK'
  BY <1>1, <1>3, <1>4, <1>5, SchedAssumption DEF IInv, CallTypeOK, SchedAssumption
<1>8. Wait'
  <2>1. status[t] = "RUNNING"
    BY <1>1, <1>2 DEF IInv, Ready, QueueInv
  <2>2. \A s \in Semaphores, u \in Threads :
           u \in Listed(waiters'[s]) <=>
               pc'[u] = "woken" /\ arg'[u] = s /\ status'[u] = "BLOCKED"
    BY <1>1, <1>4, <1>5, <2>1 DEF IInv, Wait
  <2>3. \A u \in Clients : status'[u] \in Stopped => status'[u] = "BLOCKED" /\ pc'[u] = "woken"
    BY <1>4, <1>5, <2>1 DEF IInv, Wait, Clients, Stopped
  <2>4. NoLostWakeup'
    <3> SUFFICES ASSUME NEW s \in Semaphores, value'[s] > 0, waiters'[s] # <<>>
                 PROVE  \E u \in Clients : /\ pc'[u] = "woken" /\ arg'[u] = s
                                           /\ status'[u] \in {"READY", "RUNNING"}
      BY DEF NoLostWakeup
    <3>1. s # l /\ value[s] > 0 /\ waiters[s] # <<>>
      BY <1>3, <1>5
    <3>2. PICK u \in Clients : pc[u] = "woken" /\ arg[u] = s /\ status[u] \in {"READY", "RUNNING"}
      BY <3>1 DEF IInv, Wait, NoLostWakeup
    <3> QED BY <1>1, <1>4, <1>5, <3>1, <3>2 DEF Clients
  <2> QED BY <1>5, <2>2, <2>3, <2>4 DEF IInv, Wait, Distinct
<1>9. /\ \A u \in Clients : ~Owns(u, l)
      /\ holder[l] = None /\ holder_repeat_nr[l] = 0
  <2>1. \A u \in Clients : ~Owns(u, l)
    BY <1>1, <1>3 DEF IInv, LockInv, Token, Owners
  <2>2. holder[l] = None
    BY <1>1, <2>1 DEF Owns, IInv, CallTypeOK, LockInv, Fields, Clients
  <2>3. holder_repeat_nr[l] = 0
    BY <1>1, <2>1, <2>2 DEF Owns, HandingBack, IInv, LockInv, Fields
  <2> QED BY <2>1, <2>2, <2>3
<1>10. Owners' = [Owners EXCEPT ![l] = {t}]
  <2>1. ASSUME NEW u \in Clients, NEW k \in Locks
        PROVE  Owns(u, k)' <=> IF k = l THEN u = t ELSE Owns(u, k)
    <3>1. CASE k = l
      BY <1>1, <1>4, <1>9, <3>1 DEF Owns, TakingOver, HandingBack, Clients
    <3>2. CASE k # l
      BY <1>1, <1>2, <1>4, <3>2 DEF Owns, TakingOver, HandingBack, Clients
    <3> QED BY <3>1, <3>2
  <2> QED BY <1>1, <2>1 DEF Owners
<1>11. Token'
  <2>1. \A k \in Locks : Owners'[k] = IF k = l THEN {t} ELSE Owners[k]
    BY <1>1, <1>10 DEF Owners
  <2>2. \A k \in Locks : value'[k] = IF k = l THEN 0 ELSE value[k]
    BY <1>3
  <2>3. ASSUME NEW k \in Locks
        PROVE  /\ value'[k] = 0 <=> Owners'[k] # {}
               /\ \A u, w \in Owners'[k] : u = w
    <3>1. CASE k = l
      <4>1. value'[k] = 0 /\ Owners'[k] = {t}
        BY <2>1, <2>2, <3>1
      <4> QED BY <4>1
    <3>2. CASE k # l
      <4>1. value'[k] = value[k] /\ Owners'[k] = Owners[k]
        BY <2>1, <2>2, <3>2
      <4>2. value[k] = 0 <=> Owners[k] # {}
        BY DEF IInv, LockInv, Token
      <4>3. \A u, w \in Owners[k] : u = w
        BY DEF IInv, LockInv, Token
      <4> QED BY <4>1, <4>2, <4>3
    <3> QED BY <3>1, <3>2
  <2> QED BY <2>3 DEF Token
<1>12. Fields'
  BY <1>1, <1>2, <1>4 DEF IInv, LockInv, Fields, Clients
<1>13. ASSUME NEW u \in Clients, pc'[u] # "out" PROVE Label(u)'
  <2>1. CASE u = t
    <3>1. pc'[t] = "set_holder" /\ arg'[t] = l /\ holder'[l] = None /\ holder_repeat_nr'[l] = 0
      BY <1>1, <1>4, <1>9
    <3> QED BY <2>1, <3>1 DEF Label, Knows
  <2>2. CASE u # t
    BY <1>1, <1>4, <1>13, <2>2 DEF IInv, LockInv, Label, Clients
  <2> QED BY <2>1, <2>2
<1>14. \A u \in Clients, k \in Locks : Counted(u, k)'
  BY <1>1, <1>2, <1>4 DEF IInv, LockInv, Counted, HandingBack, Clients
<1>15. MaskInv'
  BY <1>1, <1>2, <1>4, <1>5, SchedAssumption
     DEF IInv, MaskInv, Flag, Clients, SchedAssumption, Intr
<1>16. LockStep
  <2>1. owner' = [owner EXCEPT ![l] = t] /\ owner[l] = None
    <3>0. TheOne({}) = None
      BY DEF TheOne
    <3>1. TheOne({t}) = t /\ TheOne({}) = None
      <4>1. t \in {t} /\ \A u, w \in {t} : u = w
        OBVIOUS
      <4>2. TheOne({t}) = t
        BY <4>1, OneOwner
      <4> QED BY <3>0, <4>2
    <3>2. Owners[l] = {}
      BY <1>1, <1>9 DEF Owners
    <3>3. \A k \in Locks : Owners'[k] = IF k = l THEN {t} ELSE Owners[k]
      BY <1>1, <1>10 DEF Owners
    <3> QED BY <1>1, <3>1, <3>2, <3>3 DEF owner
  <2>2. ASSUME NEW u \in Threads, NEW k \in Locks
        PROVE  taken'[u][k] = IF u = t /\ k = l THEN 1 ELSE taken[u][k]
    BY <1>1, <1>2, <1>4 DEF taken, TakingOver
  <2>3. taken' = [taken EXCEPT ![t][l] = 1]
    <3>1. /\ taken = [u \in Threads |-> [k \in Locks |-> taken[u][k]]]
          /\ taken' = [u \in Threads |-> [k \in Locks |-> taken'[u][k]]]
      BY DEF taken
    <3> QED BY <1>1, <2>2, <3>1
  <2>4. Abstract!Acquire(t, l)
    BY <2>1, <2>3 DEF Abstract!Acquire
  <2> QED BY <1>1, <2>4 DEF LockStep, Abstract!Next
<1> QED BY <1>6, <1>7, <1>8, <1>11, <1>12, <1>13, <1>14, <1>15, <1>16 DEF IInv, LockInv

\* The semaphore was down: t joins the waiters and gives the CPU away.
LEMMA DownWait ==
    ASSUME IInv, NEW t \in Clients, NEW old, DownAct(t, old),
           value[arg[t]] = 0,
           waiters' = [waiters EXCEPT ![arg[t]] = Append(@, t)],
           old_status' = [old_status EXCEPT ![t] = old],
           thread_block("BLOCKED", "OFF"),
           Goto(t, "woken"),
           UNCHANGED value
    PROVE  IInv' /\ LockStep
<1> DEFINE l == arg[t]
<1>1. /\ t \in Threads /\ t # idle /\ l \in Locks /\ l \in Semaphores /\ holder[l] # t
      /\ t \notin Listed(waiters[l]) /\ ~Owns(t, l)
      /\ arg' = arg /\ holder' = holder /\ holder_repeat_nr' = holder_repeat_nr
      /\ masked' = masked /\ depth' = depth
  BY DownFacts
<1>2. /\ cur = t /\ ~panic /\ pc[t] \in {"sema_down", "woken"}
      /\ old \in Intr /\ (old = "OFF" <=> masked[t]) /\ idle_pc' = idle_pc
  BY DEF DownAct
<1>3. idle_pc' \in {"block", "sti", "hlt"}
  BY <1>2 DEF IInv, Ready, SchedTypeOK
<1>4. /\ Ready'
      /\ \A u \in Threads : Flag(u)' = saved'[u]
      /\ \A u \in Threads : saved'[u] = IF u = t THEN "OFF" ELSE saved[u]
      /\ \A u \in Clients \ {t} :
            /\ status[u] \in {"READY", "RUNNING"} <=> status'[u] \in {"READY", "RUNNING"}
            /\ status'[u] \notin {"READY", "RUNNING"} => status'[u] = status[u]
      /\ status'[t] = "BLOCKED"
  BY <1>1, <1>2, <1>3, Reschedule DEF thread_block, Intr
<1>5. /\ \A u \in Threads : pc'[u] = IF u = t THEN "woken" ELSE pc[u]
      /\ pc' \in [Threads -> PC]
      /\ \A u \in Threads : old_status'[u] = IF u = t THEN old ELSE old_status[u]
      /\ old_status' \in [Threads -> Intr]
  BY <1>1, <1>2 DEF Goto, IInv, CallTypeOK, PC
<1>6. /\ \A s \in Semaphores : waiters'[s] = IF s = l THEN Append(waiters[l], t) ELSE waiters[s]
      /\ waiters[l] \in Seq(Threads) /\ Distinct(waiters[l])
  BY <1>1 DEF IInv, CallTypeOK, Wait
<1>7. /\ Append(waiters[l], t) \in Seq(Threads) /\ Append(waiters[l], t) # <<>>
      /\ Listed(Append(waiters[l], t)) = Listed(waiters[l]) \cup {t}
      /\ Distinct(Append(waiters[l], t))
  BY <1>1, <1>6, AppendList
<1>8. CallTypeOK'
  <2>1. waiters' \in [Semaphores -> Seq(Threads)]
    BY <1>6, <1>7 DEF IInv, CallTypeOK
  <2> QED BY <1>1, <1>2, <1>5, <2>1, SchedAssumption DEF IInv, CallTypeOK, SchedAssumption
<1>9. Wait'
  <2>1. \A s \in Semaphores : Distinct(waiters'[s])
    BY <1>6, <1>7 DEF IInv, Wait
  <2>2. ASSUME NEW s \in Semaphores, NEW u \in Threads
        PROVE  u \in Listed(waiters'[s]) <=>
                   pc'[u] = "woken" /\ arg'[u] = s /\ status'[u] = "BLOCKED"
    <3>1. u \in Listed(waiters[s]) <=>
              pc[u] = "woken" /\ arg[u] = s /\ status[u] = "BLOCKED"
      BY DEF IInv, Wait
    <3>2. u \in Listed(waiters'[s]) <=> u \in Listed(waiters[s]) \/ (u = t /\ s = l)
      BY <1>6, <1>7
    <3>3. CASE u = t
      BY <1>1, <1>2, <1>4, <1>5, <3>1, <3>2, <3>3 DEF IInv, Ready, QueueInv
    <3>4. CASE u = idle
      <4>1. pc[u] = "out" /\ pc'[u] = "out"
        BY <1>1, <1>5, <3>4 DEF IInv, CallTypeOK
      <4> QED BY <1>1, <3>1, <3>2, <3>4, <4>1
    <3>5. CASE u # t /\ u # idle
      BY <1>1, <1>4, <1>5, <3>1, <3>2, <3>5 DEF Clients
    <3> QED BY <3>3, <3>4, <3>5
  <2>3. \A u \in Clients : status'[u] \in Stopped => status'[u] = "BLOCKED" /\ pc'[u] = "woken"
    BY <1>4, <1>5 DEF IInv, Wait, Clients, Stopped
  <2>4. NoLostWakeup'
    <3> SUFFICES ASSUME NEW s \in Semaphores, value'[s] > 0, waiters'[s] # <<>>
                 PROVE  \E u \in Clients : /\ pc'[u] = "woken" /\ arg'[u] = s
                                           /\ status'[u] \in {"READY", "RUNNING"}
      BY DEF NoLostWakeup
    <3>1. s # l /\ value[s] > 0 /\ waiters[s] # <<>>
      BY <1>6
    <3>2. PICK u \in Clients : pc[u] = "woken" /\ arg[u] = s /\ status[u] \in {"READY", "RUNNING"}
      BY <3>1 DEF IInv, Wait, NoLostWakeup
    <3> QED BY <1>1, <1>4, <1>5, <3>1, <3>2 DEF Clients
  <2> QED BY <2>1, <2>2, <2>3, <2>4 DEF Wait
<1>10. Owners' = Owners
  <2>1. ASSUME NEW u \in Clients, NEW k \in Locks PROVE Owns(u, k)' <=> Owns(u, k)
    BY <1>1, <1>2, <1>5 DEF Owns, TakingOver, HandingBack, Clients
  <2> QED BY <2>1 DEF Owners
<1>11. Token'
  BY <1>10 DEF IInv, LockInv, Token
<1>12. Fields'
  BY <1>1, <1>2, <1>5 DEF IInv, LockInv, Fields, Clients
<1>13. ASSUME NEW u \in Clients, pc'[u] # "out" PROVE Label(u)'
  BY <1>1, <1>5, <1>13 DEF IInv, LockInv, Label, Knows, Clients
<1>14. \A u \in Clients, k \in Locks : Counted(u, k)'
  BY <1>1, <1>2, <1>5 DEF IInv, LockInv, Counted, HandingBack, Clients
<1>15. MaskInv'
  <2>1. saved[idle] = "ON" /\ idle \in Threads
    BY SchedAssumption DEF IInv, MaskInv, SchedAssumption
  <2>2. \A u \in Clients \ {t} : Flag(u)' = Flag(u)
    BY <1>2, <1>4 DEF Flag, Clients
  <2> QED BY <1>1, <1>2, <1>4, <1>5, <2>1, <2>2 DEF IInv, MaskInv, Clients, Intr
<1>16. LockStep
  <2>1. \A u \in Threads, k \in Locks : taken'[u][k] = taken[u][k]
    BY <1>1, <1>2, <1>5 DEF taken, TakingOver
  <2> QED BY <1>10, <2>1, SameLocks
<1> QED BY <1>4, <1>8, <1>9, <1>11, <1>12, <1>13, <1>14, <1>15, <1>16 DEF IInv, LockInv

LEMMA DownStep ==
    ASSUME IInv, NEW t \in Clients, NEW old, DownAct(t, old), DownLoop(t, arg[t], old)
    PROVE  IInv' /\ LockStep
<1>1. t \notin Listed(waiters[arg[t]])
  BY DownFacts
<1>2. \/ /\ value[arg[t]] > 0
         /\ value' = [value EXCEPT ![arg[t]] = @ - 1]
         /\ panic' = (value[arg[t]] # 1)
         /\ intr' = old
         /\ old_status' = [old_status EXCEPT ![t] = "ON"]
         /\ Goto(t, Return(arg[t]))
         /\ UNCHANGED <<queueVars, waiters>>
      \/ /\ value[arg[t]] = 0
         /\ waiters' = [waiters EXCEPT ![arg[t]] = Append(@, t)]
         /\ old_status' = [old_status EXCEPT ![t] = old]
         /\ thread_block("BLOCKED", "OFF")
         /\ Goto(t, "woken")
         /\ UNCHANGED value
  BY <1>1 DEF DownLoop
<1> QED BY <1>2, DownTake, DownWait

LEMMA SemaDownStep ==
    ASSUME IInv, NEW t \in Clients, sema_down(t) \/ DownWoken(t) PROVE IInv' /\ LockStep
<1>1. t \in Threads /\ cur \in Threads
  BY DEF Clients, IInv, Ready, SchedTypeOK
<1>2. CASE sema_down(t)
  <2>1. DownAct(t, intr)
    BY <1>1, <1>2 DEF sema_down, DownAct, At, Running, IInv, Ready, SchedTypeOK, MaskInv, Flag
  <2> QED BY <1>2, <2>1, DownStep DEF sema_down
<1>3. CASE DownWoken(t)
  <2>1. DownAct(t, old_status[t])
    BY <1>1, <1>3 DEF DownWoken, DownAct, At, Running, IInv, CallTypeOK, MaskInv
  <2> QED BY <1>3, <2>1, DownStep DEF DownWoken
<1> QED BY <1>2, <1>3

\* try_release ends: the lock has no owner, and the first waiter is ready.
LEMMA ReleaseUpStep ==
    ASSUME IInv, NEW t \in Clients, ReleaseUp(t) PROVE IInv' /\ LockStep
<1> DEFINE l == arg[t]
<1>1. /\ At(t, "sema_up") /\ sema_up(l)
      /\ depth' = [depth EXCEPT ![t][l] = @ - 1]
      /\ pc' = [pc EXCEPT ![t] = "out"]
      /\ UNCHANGED <<idle_pc, lockVars, arg, old_status, masked>>
  BY DEF ReleaseUp, Goto
<1>2. /\ cur = t /\ t \in Threads /\ t # idle /\ t # None /\ ~panic
      /\ pc[t] = "sema_up" /\ l \in Locks /\ l \in Semaphores
      /\ holder[l] = None /\ holder_repeat_nr[l] = 0 /\ depth[t][l] = 1
      /\ Owns(t, l)
  BY <1>1, AtLabel, SyncAssumption
     DEF PC, Knows, Counted, HandingBack, Owns, SyncAssumption
<1>3. /\ \A u \in Threads : pc'[u] = IF u = t THEN "out" ELSE pc[u]
      /\ pc' \in [Threads -> PC]
      /\ arg' = arg /\ holder' = holder /\ holder_repeat_nr' = holder_repeat_nr
      /\ old_status' = old_status /\ masked' = masked /\ idle_pc' = idle_pc
  BY <1>1, <1>2 DEF IInv, CallTypeOK, PC, lockVars
<1>4. /\ \A u \in Threads, k \in Locks :
            depth'[u][k] = IF u = t /\ k = l THEN 0 ELSE depth[u][k]
      /\ depth' \in [Threads -> [Locks -> Nat]]
  <2>1. depth' = [depth EXCEPT ![t][l] = 0]
    BY <1>1, <1>2
  <2> QED BY <1>2, <2>1 DEF IInv, CallTypeOK
<1>5. /\ t \in Owners[l] /\ value[l] = 0
      /\ \A u \in Clients : Owns(u, l) => u = t
  <2>1. t \in Owners[l]
    BY <1>2 DEF Owners
  <2> QED BY <1>2, <2>1 DEF IInv, LockInv, Token, Owners
<1>6. value' = [value EXCEPT ![l] = 1]
  BY <1>1, <1>5 DEF sema_up
<1>7. status[t] = "RUNNING" /\ \A u \in Threads : status[u] = "RUNNING" <=> u = t
  BY <1>2 DEF IInv, Ready, QueueInv
<1>8. /\ Ready'
      /\ waiters' \in [Semaphores -> Seq(Threads)]
      /\ \A s \in Semaphores : Distinct(waiters'[s])
      /\ \A s \in Semaphores, u \in Threads :
            u \in Listed(waiters'[s]) <=> u \in Listed(waiters[s]) /\ status'[u] = "BLOCKED"
      /\ \A s \in Semaphores : s # l => waiters'[s] = waiters[s]
      /\ \A u \in Clients : status'[u] # status[u] => status'[u] = "READY"
      /\ waiters'[l] # <<>> =>
            \E u \in Clients : u # t /\ pc[u] = "woken" /\ arg[u] = l /\ status'[u] = "READY"
      /\ cur' = cur /\ intr' = intr /\ saved' = saved
  <2>0. \A s \in Semaphores, u \in Threads :
           u \in Listed(waiters[s]) => pc[u] = "woken" /\ arg[u] = s /\ status[u] = "BLOCKED"
    BY DEF IInv, Wait
  <2>1. CASE waiters[l] = <<>>
    <3>1. UNCHANGED <<waiters, ready_list, status, ticks, cur, saved, intr, panic>>
      BY <1>1, <1>5, <2>1 DEF sema_up, queueVars
    <3>2. Ready'
      BY <1>3, <3>1 DEF IInv, Ready, SchedTypeOK, NoPanic, QueueInv, Queued, Listed, Distinct
    <3> QED BY <2>0, <2>1, <3>1, <3>2 DEF IInv, CallTypeOK, Wait
  <2>2. CASE waiters[l] # <<>>
    <3> DEFINE w == Head(waiters[l])
    <3>1. waiters' = [waiters EXCEPT ![l] = Tail(@)] /\ thread_unblock(w)
      BY <1>1, <1>5, <2>2 DEF sema_up
    <3>2. waiters[l] \in Seq(Threads) /\ Distinct(waiters[l])
      BY <1>2 DEF IInv, CallTypeOK, Wait
    <3>3. /\ w \in Threads /\ Tail(waiters[l]) \in Seq(Threads)
          /\ Listed(waiters[l]) = Listed(Tail(waiters[l])) \cup {w}
          /\ Distinct(Tail(waiters[l])) /\ w \notin Listed(Tail(waiters[l]))
      BY <2>2, <3>2, PopList
    <3> HIDE DEF w
    <3>4. w # t /\ w # idle /\ pc[w] = "woken" /\ arg[w] = l /\ status[w] = "BLOCKED"
      BY <1>2, <2>0, <3>3 DEF IInv, CallTypeOK
    <3>5. Queued(ready_list, status, {}) /\ status[w] \in Stopped
      BY <3>4 DEF IInv, Ready, Stopped
    <3>6. /\ Queued(ListUnblocking(w, ready_list, status), StatusUnblocking(w, status), {})
          /\ w \notin Listed(ready_list)
          /\ StatusUnblocking(w, status) = [status EXCEPT ![w] = "READY"]
      BY <3>3, <3>5, UnblockQueued
    <3>7. /\ ready_list' = ListUnblocking(w, ready_list, status)
          /\ status' = StatusUnblocking(w, status)
          /\ UNCHANGED <<ticks, cur, saved, intr, panic>>
      BY <3>1, <3>6 DEF thread_unblock
    <3>8. \A u \in Threads : status'[u] = IF u = w THEN "READY" ELSE status[u]
      BY <3>3, <3>5, <3>6, <3>7 DEF Queued
    <3>9. Queued(ready_list', status', {})
      BY <3>6, <3>7
    <3>10. Ready'
      <4>1. QueueInv'
        BY <1>2, <1>7, <3>4, <3>7, <3>8, <3>9 DEF QueueInv, Queued, Listed, Distinct, Range
      <4> QED BY <1>3, <3>4, <3>7, <3>8, <3>9, <4>1, SchedAssumption
              DEF IInv, Ready, SchedTypeOK, NoPanic, Queued, SchedAssumption
    <3>11. /\ \A s \in Semaphores : waiters'[s] = IF s = l THEN Tail(waiters[l]) ELSE waiters[s]
           /\ waiters' \in [Semaphores -> Seq(Threads)]
      BY <1>2, <3>1, <3>3 DEF IInv, CallTypeOK
    <3>12. \A s \in Semaphores : Distinct(waiters'[s])
      BY <3>3, <3>11 DEF IInv, Wait
    <3>13. ASSUME NEW s \in Semaphores, NEW u \in Threads
           PROVE  u \in Listed(waiters'[s]) <=>
                      u \in Listed(waiters[s]) /\ status'[u] = "BLOCKED"
      <4>1. u \in Listed(waiters'[s]) <=> u \in Listed(waiters[s]) /\ ~(s = l /\ u = w)
        BY <3>3, <3>11
      <4> QED BY <2>0, <3>4, <3>8, <4>1
    <3>14. w \in Clients
      BY <3>3, <3>4 DEF Clients
    <3> QED BY <3>4, <3>7, <3>8, <3>10, <3>11, <3>12, <3>13, <3>14 DEF Clients
  <2> QED BY <2>1, <2>2
<1>9. CallTypeOK'
  <2>1. value' \in [Semaphores -> {0, 1}]
    BY <1>2, <1>6 DEF IInv, CallTypeOK
  <2> QED BY <1>2, <1>3, <1>4, <1>8, <2>1, SchedAssumption
          DEF IInv, CallTypeOK, SchedAssumption
<1>10. Wait'
  <2>1. ASSUME NEW s \in Semaphores, NEW u \in Threads
        PROVE  u \in Listed(waiters'[s]) <=>
                   pc'[u] = "woken" /\ arg'[u] = s /\ status'[u] = "BLOCKED"
    <3>1. u \in Listed(waiters[s]) <=>
              pc[u] = "woken" /\ arg[u] = s /\ status[u] = "BLOCKED"
      BY DEF IInv, Wait
    <3>2. CASE u = idle
      <4>1. pc[u] = "out"
        BY <3>2 DEF IInv, CallTypeOK
      <4> QED BY <1>2, <1>3, <1>8, <3>1, <3>2, <4>1
    <3>3. CASE u # idle
      BY <1>2, <1>3, <1>8, <3>1, <3>3 DEF Clients
    <3> QED BY <3>2, <3>3
  <2>2. \A u \in Clients : status'[u] \in Stopped => status'[u] = "BLOCKED" /\ pc'[u] = "woken"
    BY <1>3, <1>7, <1>8 DEF IInv, Wait, Clients, Stopped
  <2>3. NoLostWakeup'
    <3> SUFFICES ASSUME NEW s \in Semaphores, value'[s] > 0, waiters'[s] # <<>>
                 PROVE  \E u \in Clients : /\ pc'[u] = "woken" /\ arg'[u] = s
                                           /\ status'[u] \in {"READY", "RUNNING"}
      BY DEF NoLostWakeup
    <3>1. CASE s = l
      BY <1>3, <1>8, <3>1 DEF Clients
    <3>2. CASE s # l
      <4>1. value[s] > 0 /\ waiters[s] # <<>>
        BY <1>2, <1>6, <1>8, <3>2 DEF IInv, CallTypeOK
      <4>2. PICK u \in Clients : /\ pc[u] = "woken" /\ arg[u] = s
                                 /\ status[u] \in {"READY", "RUNNING"}
        BY <4>1 DEF IInv, Wait, NoLostWakeup
      <4> QED BY <1>2, <1>3, <1>8, <4>2 DEF Clients
    <3> QED BY <3>1, <3>2
  <2> QED BY <1>8, <2>1, <2>2, <2>3 DEF Wait
<1>11. ASSUME NEW u \in Clients, NEW k \in Locks
       PROVE  Owns(u, k)' <=> k # l /\ Owns(u, k)
  <2>1. CASE u = t
    BY <1>2, <1>3, <2>1 DEF Owns, TakingOver, HandingBack, Clients
  <2>2. CASE u # t
    <3>1. ~Owns(u, l) /\ (Owns(u, k)' <=> Owns(u, k))
      BY <1>3, <1>5, <2>2 DEF Owns, TakingOver, HandingBack, Clients
    <3> QED BY <3>1
  <2> QED BY <2>1, <2>2
<1>12. Token'
  <2> SUFFICES ASSUME NEW k \in Locks
               PROVE  /\ value'[k] = 0 <=> Owners'[k] # {}
                      /\ \A u, w \in Owners'[k] : u = w
    BY DEF Token
  <2>1. CASE k = l
    <3>1. Owners'[k] = {}
      BY <1>11, <2>1 DEF Owners
    <3>2. value'[k] = 1
      BY <1>2, <1>6, <2>1 DEF IInv, CallTypeOK
    <3> QED BY <3>1, <3>2
  <2>2. CASE k # l
    <3>1. Owners'[k] = Owners[k]
      BY <1>11, <2>2 DEF Owners
    <3>2. value'[k] = value[k]
      BY <1>2, <1>6, <2>2, SyncAssumption DEF IInv, CallTypeOK, SyncAssumption
    <3>3. (value[k] = 0 <=> Owners[k] # {}) /\ \A u, w \in Owners[k] : u = w
      BY DEF IInv, LockInv, Token
    <3> QED BY <3>1, <3>2, <3>3
  <2> QED BY <2>1, <2>2
<1>13. Fields'
  BY <1>2, <1>3 DEF IInv, LockInv, Fields, Clients
<1>14. \A u \in Clients : pc'[u] # "out" => Label(u)'
  BY <1>3 DEF IInv, LockInv, Label, Clients
<1>15. ASSUME NEW u \in Clients, NEW k \in Locks PROVE Counted(u, k)'
  <2>1. CASE u = t /\ k = l
    BY <1>2, <1>3, <1>4, <2>1 DEF Counted, HandingBack
  <2>2. CASE ~(u = t /\ k = l)
    BY <1>2, <1>3, <1>4, <2>2 DEF IInv, LockInv, Counted, HandingBack, Clients
  <2> QED BY <2>1, <2>2
<1>16. MaskInv'
  BY <1>2, <1>3, <1>8, SchedAssumption DEF IInv, MaskInv, Flag, Clients, SchedAssumption
<1>17. LockStep
  <2>1. Owners[l] = {t} /\ \A k \in Locks : Owners'[k] = IF k = l THEN {} ELSE Owners[k]
    <3>1. Owners[l] = {t}
      BY <1>2, <1>5 DEF Owners
    <3>2. ASSUME NEW k \in Locks PROVE Owners'[k] = IF k = l THEN {} ELSE Owners[k]
      BY <1>11 DEF Owners
    <3> QED BY <3>1, <3>2
  <2>2. owner' = [owner EXCEPT ![l] = None] /\ owner[l] = t
    <3>0. TheOne({}) = None
      BY DEF TheOne
    <3>1. TheOne({t}) = t /\ TheOne({}) = None
      <4>1. t \in {t} /\ \A u, w \in {t} : u = w
        OBVIOUS
      <4>2. TheOne({t}) = t
        BY <4>1, OneOwner
      <4> QED BY <3>0, <4>2
    <3> QED BY <1>2, <2>1, <3>1 DEF owner
  <2>3. ASSUME NEW u \in Threads, NEW k \in Locks
        PROVE  taken'[u][k] = IF u = t /\ k = l THEN 0 ELSE taken[u][k]
    BY <1>2, <1>3, <1>4 DEF taken, TakingOver
  <2>4. taken' = [taken EXCEPT ![t][l] = 0] /\ taken[t][l] = 1
    <3>1. /\ taken = [u \in Threads |-> [k \in Locks |-> taken[u][k]]]
          /\ taken' = [u \in Threads |-> [k \in Locks |-> taken'[u][k]]]
      BY DEF taken
    <3>2. taken[t][l] = 1
      BY <1>2 DEF taken, TakingOver
    <3> QED BY <1>2, <2>3, <3>1, <3>2
  <2>5. Abstract!Release(t, l)
    BY <2>2, <2>4 DEF Abstract!Release
  <2> QED BY <1>2, <2>5 DEF LockStep, Abstract!Next
<1> QED BY <1>8, <1>9, <1>10, <1>12, <1>13, <1>14, <1>15, <1>16, <1>17 DEF IInv, LockInv

\* A caller of sync.c masks or unmasks its own interrupts.
LEMMA IntrSetStep ==
    ASSUME IInv, NEW t \in Clients, NEW m \in BOOLEAN, IntrSet(t, m) PROVE IInv' /\ LockStep
<1>1. /\ t \in Threads /\ t # idle /\ cur = t /\ pc[t] = "out"
      /\ masked' = [masked EXCEPT ![t] = m]
      /\ intr' = (IF m THEN "OFF" ELSE "ON")
      /\ UNCHANGED <<queueVars, idle_pc, panic, semaVars, lockVars, pc, arg, old_status, depth>>
  BY DEF IntrSet, At, Running, Clients
<1>2. UNCHANGED <<ready_list, status, ticks, cur, saved, idle_pc, panic, value, waiters,
                  holder, holder_repeat_nr, pc, arg, old_status, depth>>
  BY <1>1 DEF queueVars, semaVars, lockVars
<1>3. Ready'
  BY <1>1, <1>2 DEF IInv, Ready, SchedTypeOK, NoPanic, QueueInv, Queued, Listed, Distinct, Intr
<1>4. CallTypeOK'
  BY <1>1, <1>2 DEF IInv, CallTypeOK
<1>5. Wait'
  BY <1>2 DEF IInv, Wait, NoLostWakeup, Distinct, Listed
<1>6. LockInv'
  <2>1. Owners' = Owners
    BY <1>2 DEF Owners, Owns, TakingOver, HandingBack
  <2>2. Token' /\ Fields'
    BY <1>2, <2>1 DEF IInv, LockInv, Token, Fields
  <2> QED BY <1>2, <2>2 DEF IInv, LockInv, Label, Counted, HandingBack
<1>7. MaskInv'
  BY <1>1, <1>2, SchedAssumption
     DEF IInv, CallTypeOK, MaskInv, Flag, Clients, SchedAssumption
<1>8. LockStep
  <2>1. Owners' = Owners
    BY <1>2 DEF Owners, Owns, TakingOver, HandingBack
  <2>2. \A u \in Threads, k \in Locks : taken'[u][k] = taken[u][k]
    BY <1>2 DEF taken, TakingOver
  <2> QED BY <2>1, <2>2, SameLocks
<1> QED BY <1>3, <1>4, <1>5, <1>6, <1>7, <1>8 DEF IInv

\* Interrupts and the idle thread: the CPU may change hands, the locks do not.
LEMMA SystemStep ==
    ASSUME IInv, System PROVE IInv' /\ LockStep
<1>1. /\ TimerIntr \/ IdleBlock \/ IdleHlt
      /\ UNCHANGED <<value, waiters, holder, holder_repeat_nr, pc, arg, old_status, masked, depth>>
  BY DEF System, semaVars, lockVars, callVars
<1>2. /\ SchedTypeOK /\ NoPanic /\ QueueInv /\ status[cur] = "RUNNING" /\ cur \in Threads
      /\ idle \in Threads
      /\ status = [status EXCEPT ![cur] = "RUNNING"]
  BY SchedAssumption DEF IInv, Ready, SchedTypeOK, QueueInv, SchedAssumption
<1>3. CallTypeOK'
  BY <1>1 DEF IInv, CallTypeOK
<1>4. LockInv'
  <2>1. Owners' = Owners
    BY <1>1 DEF Owners, Owns, TakingOver, HandingBack
  <2>2. Token' /\ Fields'
    BY <1>1, <2>1 DEF IInv, LockInv, Token, Fields
  <2> QED BY <1>1, <2>2 DEF IInv, LockInv, Label, Counted, HandingBack
<1>5. ASSUME NEW stat \in {"RUNNING", "BLOCKED"}, NEW old \in Intr,
             schedule(ready_list, [status EXCEPT ![cur] = stat], old),
             idle_pc' \in {"block", "sti", "hlt"},
             stat = "BLOCKED" => cur = idle,
             old = Flag(cur)
      PROVE  IInv'
  <2>1. /\ Ready'
        /\ cur' \in Threads
        /\ \A u \in Threads : Flag(u)' = saved'[u]
        /\ \A u \in Threads : saved'[u] = IF u = cur THEN old ELSE saved[u]
        /\ \A u \in Clients \ {cur} :
              /\ status[u] \in {"READY", "RUNNING"} <=> status'[u] \in {"READY", "RUNNING"}
              /\ status'[u] \notin {"READY", "RUNNING"} => status'[u] = status[u]
        /\ cur # idle => /\ stat = "BLOCKED" => status'[cur] = "BLOCKED"
                         /\ stat = "RUNNING" => status'[cur] \in {"READY", "RUNNING"}
    BY <1>5, Reschedule
  <2>2. \A u \in Clients :
           /\ status[u] \in {"READY", "RUNNING"} <=> status'[u] \in {"READY", "RUNNING"}
           /\ status'[u] \notin {"READY", "RUNNING"} => status'[u] = status[u]
    BY <1>2, <1>5, <2>1 DEF Clients
  <2>3. Wait'
    <3>1. ASSUME NEW s \in Semaphores, NEW u \in Threads
          PROVE  u \in Listed(waiters'[s]) <=>
                     pc'[u] = "woken" /\ arg'[u] = s /\ status'[u] = "BLOCKED"
      <4>1. u \in Listed(waiters[s]) <=>
                pc[u] = "woken" /\ arg[u] = s /\ status[u] = "BLOCKED"
        BY DEF IInv, Wait
      <4>2. CASE u = idle
        <5>1. pc[u] = "out"
          BY <4>2 DEF IInv, CallTypeOK
        <5> QED BY <1>1, <4>1, <5>1
      <4>3. CASE u # idle
        BY <1>1, <2>2, <4>1, <4>3 DEF Clients
      <4> QED BY <4>2, <4>3
    <3>2. \A u \in Clients : status'[u] \in Stopped => status'[u] = "BLOCKED" /\ pc'[u] = "woken"
      BY <1>1, <2>2 DEF IInv, Wait, Stopped
    <3>3. NoLostWakeup'
      BY <1>1, <2>2 DEF IInv, Wait, NoLostWakeup
    <3> QED BY <1>1, <3>1, <3>2, <3>3 DEF IInv, Wait, Distinct
  <2>4. \A u \in Threads : Flag(u)' = Flag(u)
    BY <1>2, <1>5, <2>1 DEF Flag
  <2>5. saved'[idle] = "ON"
    BY <1>2, <1>5, <2>1 DEF IInv, MaskInv
  <2>6. MaskInv'
    BY <1>1, <1>2, <2>4, <2>5 DEF IInv, MaskInv, Clients
  <2> QED BY <1>3, <1>4, <2>1, <2>3, <2>6 DEF IInv
<1>6. ASSUME UNCHANGED <<ready_list, status, cur, saved, panic>>,
             ticks' \in [Threads -> 0 .. 255], intr' = intr \/ (cur = idle /\ intr' = "ON"),
             idle_pc' \in {"block", "sti", "hlt"}
      PROVE  IInv'
  <2>1. Ready'
    BY <1>6 DEF IInv, Ready, SchedTypeOK, NoPanic, QueueInv, Queued, Listed, Distinct, Intr
  <2>2. Wait'
    BY <1>1, <1>6 DEF IInv, Wait, NoLostWakeup, Distinct, Listed
  <2>3. MaskInv'
    BY <1>1, <1>6, SchedAssumption DEF IInv, MaskInv, Flag, Clients, SchedAssumption
  <2> QED BY <1>3, <1>4, <2>1, <2>2, <2>3 DEF IInv
<1>c. LockStep
  <2>1. Owners' = Owners
    BY <1>1 DEF Owners, Owns, TakingOver, HandingBack
  <2>2. \A u \in Threads, k \in Locks : taken'[u][k] = taken[u][k]
    BY <1>1 DEF taken, TakingOver
  <2> QED BY <2>1, <2>2, SameLocks
<1>7. CASE TimerIntr
  <2>1. intr = "ON" /\ idle_pc' \in {"block", "sti", "hlt"}
    BY <1>2, <1>7 DEF TimerIntr, EndHlt, SchedTypeOK
  <2>2. CASE ticks[cur] > 0 /\ ticks' = [ticks EXCEPT ![cur] = @ - 1]
              /\ UNCHANGED <<ready_list, status, cur, saved, intr, panic>>
    <3>1. ticks[cur] - 1 \in 0 .. 255
      <4>1. ticks[cur] \in 0 .. 255 /\ ticks[cur] > 0
        BY <1>2, <2>2 DEF SchedTypeOK
      <4> QED BY <4>1
    <3>2. ticks' \in [Threads -> 0 .. 255]
      BY <1>2, <2>2, <3>1 DEF SchedTypeOK
    <3> QED BY <1>6, <1>c, <2>1, <2>2, <3>2
  <2>3. CASE schedule(ready_list, status, "ON")
    <3>1. schedule(ready_list, [status EXCEPT ![cur] = "RUNNING"], "ON") /\ Flag(cur) = "ON"
      BY <1>2, <2>1, <2>3 DEF Flag
    <3> QED BY <1>5, <1>c, <2>1, <3>1 DEF Intr
  <2> QED BY <1>7, <2>2, <2>3 DEF TimerIntr
<1>8. CASE IdleBlock
  <2>1. /\ cur = idle /\ idle_pc' = "sti"
        /\ schedule(ready_list, [status EXCEPT ![cur] = "BLOCKED"], intr)
    BY <1>8 DEF IdleBlock, Running, thread_block
  <2>2. intr \in Intr /\ intr = Flag(cur)
    BY <1>2 DEF SchedTypeOK, Flag
  <2> QED BY <1>5, <1>c, <2>1, <2>2
<1>9. CASE IdleHlt
  <2>1. /\ cur = idle /\ idle_pc' = "hlt" /\ intr' = "ON"
        /\ UNCHANGED <<ready_list, status, ticks, cur, saved, panic>>
    BY <1>9 DEF IdleHlt, Running, queueVars
  <2> QED BY <1>2, <1>6, <1>c, <2>1 DEF SchedTypeOK
<1> QED BY <1>1, <1>7, <1>8, <1>9

\* Every step of every thread, of the timer and of idle keeps the invariant.
LEMMA NextIInv == IInv /\ [Next]_vars => IInv' /\ LockStep
<1> SUFFICES ASSUME IInv, [Next]_vars PROVE IInv' /\ LockStep
  OBVIOUS
<1>1. CASE System
  BY <1>1, SystemStep
<1>2. ASSUME NEW t \in Clients, Inside(t) PROVE IInv' /\ LockStep
  BY <1>2, SemaDownStep, TryLockStep, SetHolderStep, CheckNrStep, SetNrStep, NestStep,
     TryReleaseStep, ReadNrStep, UnnestStep, ClearHolderStep, ClearNrStep, ReleaseUpStep
     DEF Inside
<1>3. ASSUME NEW t \in Clients, NEW l \in Locks, CallTryLock(t, l) \/ CallTryRelease(t, l)
      PROVE  IInv' /\ LockStep
  BY <1>3, CallTryLockStep, CallTryReleaseStep
<1>4. ASSUME NEW t \in Clients, NEW m \in BOOLEAN, IntrSet(t, m) PROVE IInv' /\ LockStep
  BY <1>4, IntrSetStep
<1>5. CASE UNCHANGED vars
  <2>1. UNCHANGED <<ready_list, status, ticks, cur, saved, intr, idle_pc, panic, value, waiters,
                    holder, holder_repeat_nr, pc, arg, old_status, masked, depth>>
    BY <1>5 DEF vars, schedVars, semaVars, lockVars, callVars
  <2>2. Ready' /\ CallTypeOK'
    BY <2>1 DEF IInv, Ready, CallTypeOK, SchedTypeOK, NoPanic, QueueInv, Queued, Listed, Distinct
  <2>3. Wait'
    BY <2>1 DEF IInv, Wait, NoLostWakeup, Distinct, Listed
  <2>4. LockInv'
    <3>1. Owners' = Owners
      BY <2>1 DEF Owners, Owns, TakingOver, HandingBack
    <3>2. Token' /\ Fields'
      BY <2>1, <3>1 DEF IInv, LockInv, Token, Fields
    <3> QED BY <2>1, <3>2 DEF IInv, LockInv, Label, Counted, HandingBack
  <2>5. MaskInv'
    BY <2>1 DEF IInv, MaskInv, Flag
  <2>6. LockStep
    <3>1. Owners' = Owners
      BY <2>1 DEF Owners, Owns, TakingOver, HandingBack
    <3>2. \A u \in Threads, k \in Locks : taken'[u][k] = taken[u][k]
      BY <2>1 DEF taken, TakingOver
    <3> QED BY <3>1, <3>2, SameLocks
  <2> QED BY <2>2, <2>3, <2>4, <2>5, <2>6 DEF IInv
<1> QED BY <1>1, <1>2, <1>3, <1>4, <1>5 DEF Next

-----------------------------------------------------------------------------
(* The theorems *)

LEMMA Invariance == Spec => []IInv
BY InitIInv, NextIInv, PTL DEF Spec

\* Every variable keeps its type.
THEOREM TypeCorrect == Spec => []TypeOK
<1>1. IInv => TypeOK
  BY DEF IInv, Ready, CallTypeOK, TypeOK
<1> QED BY <1>1, Invariance, PTL

\* Two threads never both have a lock, however their calls interleave with
\* the timer (try_lock and try_release, sync.c:45-73).
THEOREM Exclusion == Spec => []MutualExclusion
<1>1. ASSUME IInv PROVE MutualExclusion
  <2>1. ASSUME NEW l \in Locks, NEW t \in Clients, depth[t][l] > 0
        PROVE  t \in Owners[l]
    <3>1. Counted(t, l)
      BY <1>1 DEF IInv, LockInv
    <3> QED BY <2>1, <3>1 DEF Counted, Owners, Owns
  <2> QED BY <1>1, <2>1 DEF MutualExclusion, IInv, LockInv, Token
<1> QED BY <1>1, Invariance, PTL

\* value, holder and holder_repeat_nr agree with who is between sema_down and
\* sema_up, between any two accesses of try_lock and try_release.
THEOREM TokenCorrect == Spec => []TokenInv
<1>1. ASSUME IInv PROVE TokenInv
  <2> SUFFICES ASSUME NEW l \in Locks
               PROVE  /\ value[l] = 0 <=> \E t \in Clients : Owns(t, l)
                      /\ \A t, u \in Clients : Owns(t, l) /\ Owns(u, l) => t = u
                      /\ holder[l] = None => holder_repeat_nr[l] = 0
                                             \/ \E t \in Clients : HandingBack(t, l)
    BY DEF TokenInv
  <2>1. (value[l] = 0 <=> Owners[l] # {}) /\ \A t, u \in Owners[l] : t = u
    BY <1>1 DEF IInv, LockInv, Token
  <2>2. \A t \in Clients : t \in Owners[l] <=> Owns(t, l)
    BY DEF Owners
  <2>3. Owners[l] \subseteq Clients
    BY DEF Owners
  <2>4. holder[l] = None => holder_repeat_nr[l] = 0
                            \/ \E t \in Clients : HandingBack(t, l)
    BY <1>1 DEF IInv, LockInv, Fields, HandingBack
  <2> QED BY <2>1, <2>2, <2>3, <2>4
<1> QED BY <1>1, Invariance, PTL

\* A lock counts its holder's nested calls exactly.
THEOREM NestingCorrect == Spec => []NestingCounted
<1>1. IInv => NestingCounted
  BY DEF IInv, LockInv, Counted, HandingBack, NestingCounted
<1> QED BY <1>1, Invariance, PTL

\* No ASSERT of thread.c or sync.c that a call can reach ever fails.
THEOREM NoPanicEver == Spec => []NoPanic
<1>1. IInv => NoPanic
  BY DEF IInv, Ready
<1> QED BY <1>1, Invariance, PTL

\* The ready list holds each thread once, and only threads that are READY.
THEOREM QueueCorrect == Spec => []QueueInv
<1>1. IInv => QueueInv
  BY DEF IInv, Ready
<1> QED BY <1>1, Invariance, PTL

\* The waiters of a semaphore are the threads blocked in its sema_down.
THEOREM WaitersCorrect == Spec => []WaitersInv
<1>1. IInv => WaitersInv
  BY DEF IInv, Wait, WaitersInv, Clients
<1> QED BY <1>1, Invariance, PTL

\* A thread that is not running is on the one list its status names.
THEOREM NobodyLostEver == Spec => []NobodyLost
<1>1. ASSUME IInv, NEW t \in Clients
      PROVE  \/ status[t] \in {"FREE", "RUNNING"}
             \/ status[t] = "READY" /\ t \in Listed(ready_list)
             \/ status[t] = "BLOCKED" /\ t \in Listed(waiters[arg[t]])
  <2>1. t \in Threads /\ status[t] \in Status
    BY <1>1 DEF Clients, IInv, Ready, SchedTypeOK
  <2>2. CASE status[t] \in Stopped
    <3>1. status[t] = "BLOCKED" /\ pc[t] = "woken"
      BY <1>1, <2>2 DEF IInv, Wait
    <3>2. arg[t] \in Semaphores
      BY <1>1, <2>1, <3>1, SyncAssumption DEF IInv, CallTypeOK, SyncAssumption
    <3> QED BY <1>1, <2>1, <3>1, <3>2 DEF IInv, Wait
  <2>3. CASE status[t] = "READY"
    BY <1>1, <2>1, <2>3 DEF IInv, Ready, Queued
  <2> QED BY <2>1, <2>2, <2>3 DEF Status
<1>2. IInv => NobodyLost
  BY <1>1 DEF NobodyLost
<1> QED BY <1>2, Invariance, PTL

\* While a semaphore is up and threads wait, one of them is already awake:
\* no sema_up is lost between the test of the value and the block.
THEOREM WakeupsKept == Spec => []NoLostWakeup
<1>1. IInv => NoLostWakeup
  BY DEF IInv, Wait
<1> QED BY <1>1, Invariance, PTL

\* sema_down gives its caller back the interrupt flag it had.
THEOREM MaskCorrect == Spec => []MaskRestored
<1>1. ASSUME IInv PROVE MaskRestored
  <2>1. cur \in Threads
    BY <1>1 DEF IInv, Ready, SchedTypeOK
  <2> QED BY <1>1, <2>1 DEF IInv, MaskInv, Flag, MaskRestored, Clients
<1> QED BY <1>1, Invariance, PTL

\* The lock of sync.c, seen by the calls that have returned, is the lock of
\* AbstractLock: each step takes it, gives it back, or does neither.
THEOREM LockImplemented == Spec => ImplementsLock
<1>1. Init => Abstract!Init
  <2> SUFFICES ASSUME Init PROVE Abstract!Init
    OBVIOUS
  <2>1. /\ pc = [t \in Threads |-> "out"] /\ holder = [l \in Locks |-> None]
        /\ depth = [t \in Threads |-> [l \in Locks |-> 0]]
        /\ None \notin Threads /\ Clients \subseteq Threads
    BY SyncAssumption DEF Init, SyncAssumption, Clients
  <2>2. \A l \in Locks : Owners[l] = {}
    BY <2>1 DEF Owners, Owns, TakingOver, HandingBack
  <2>3. owner = [l \in Locks |-> None]
    BY <2>2 DEF owner, TheOne
  <2>4. taken = [t \in Threads |-> [l \in Locks |-> 0]]
    BY <2>1 DEF taken, TakingOver
  <2> QED BY <2>3, <2>4 DEF Abstract!Init
<1>2. IInv /\ [Next]_vars => [Abstract!Next]_(Abstract!lockVars)
  BY NextIInv DEF LockStep, Abstract!lockVars
<1>3. Spec => Abstract!Spec
  BY <1>1, <1>2, Invariance, PTL DEF Spec, Abstract!Spec
<1> QED BY <1>3 DEF ImplementsLock
=============================================================================
