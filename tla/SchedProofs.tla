---------------------------- MODULE SchedProofs -----------------------------
(***************************************************************************)
(* What the operators of Sched do to the queues, as lemmas for the proofs  *)
(* about the modules built on them.                                        *)
(***************************************************************************)
EXTENDS Sched, TLAPS

(***************************************************************************)
(* Lists as sequences without repetition.                                  *)
(***************************************************************************)

\* append (list.c:38) adds one thread and keeps the list free of repetition.
LEMMA AppendList ==
    ASSUME NEW S, NEW list \in Seq(S), NEW x \in S
    PROVE  /\ Append(list, x) \in Seq(S)
           /\ Append(list, x) # <<>>
           /\ Listed(Append(list, x)) = Listed(list) \cup {x}
           /\ Distinct(list) /\ x \notin Listed(list) => Distinct(Append(list, x))
  BY DEF Listed, Distinct, Range

\* push (list.c:32) does the same at the other end.
LEMMA PushList ==
    ASSUME NEW S, NEW list \in Seq(S), NEW x \in S
    PROVE  /\ <<x>> \o list \in Seq(S)
           /\ <<x>> \o list # <<>>
           /\ Listed(<<x>> \o list) = Listed(list) \cup {x}
           /\ Distinct(list) /\ x \notin Listed(list) => Distinct(<<x>> \o list)
<1> DEFINE new == <<x>> \o list
<1>1. new \in Seq(S) /\ Len(new) = Len(list) + 1
  OBVIOUS
<1>2. new[1] = x /\ \A i \in 1 .. Len(list) : new[i + 1] = list[i]
  OBVIOUS
<1>3. \A i \in 2 .. Len(new) : new[i] = list[i - 1] /\ i - 1 \in 1 .. Len(list)
  BY <1>1, <1>2
<1> HIDE DEF new
<1>4. Listed(new) = Listed(list) \cup {x}
  <2>1. Listed(new) \subseteq Listed(list) \cup {x}
    <3> SUFFICES ASSUME NEW i \in 1 .. Len(new)
                 PROVE  new[i] \in Listed(list) \cup {x}
      BY <1>1 DEF Listed, Range
    <3>1. CASE i = 1
      BY <3>1, <1>2
    <3>2. CASE i # 1
      BY <3>2, <1>1, <1>3 DEF Listed, Range
    <3> QED BY <3>1, <3>2
  <2>2. x \in Listed(new)
    BY <1>1, <1>2 DEF Listed, Range
  <2>3. Listed(list) \subseteq Listed(new)
    <3> SUFFICES ASSUME NEW i \in 1 .. Len(list)
                 PROVE  list[i] \in Listed(new)
      BY DEF Listed, Range
    <3> QED BY <1>1, <1>2, i + 1 \in 1 .. Len(new) DEF Listed, Range
  <2> QED BY <2>1, <2>2, <2>3
<1>5. ASSUME Distinct(list), x \notin Listed(list)
      PROVE  Distinct(new)
  <2> SUFFICES ASSUME NEW i \in 1 .. Len(new), NEW j \in 1 .. Len(new),
                      new[i] = new[j]
               PROVE  i = j
    BY DEF Distinct
  <2>1. \A k \in 2 .. Len(new) : new[k] # x
    BY <1>3, <1>5 DEF Listed, Range
  <2>2. CASE i = 1 \/ j = 1
    BY <2>1, <2>2, <1>1, <1>2
  <2>3. CASE i # 1 /\ j # 1
    <3>1. i - 1 \in 1 .. Len(list) /\ j - 1 \in 1 .. Len(list)
      BY <2>3, <1>1, <1>3
    <3>2. list[i - 1] = list[j - 1]
      BY <2>3, <1>1, <1>3
    <3> QED BY <3>1, <3>2, <1>5 DEF Distinct
  <2> QED BY <2>2, <2>3
<1>6. new # <<>>
  BY <1>1
<1> QED BY <1>1, <1>4, <1>5, <1>6 DEF new

\* pop (list.c:55) removes the first thread, which was on the list only once.
LEMMA PopList ==
    ASSUME NEW S, NEW list \in Seq(S), list # <<>>
    PROVE  /\ Head(list) \in S /\ Tail(list) \in Seq(S)
           /\ Listed(list) = Listed(Tail(list)) \cup {Head(list)}
           /\ Distinct(list) => /\ Distinct(Tail(list))
                                /\ Head(list) \notin Listed(Tail(list))
<1> DEFINE rest == Tail(list)
<1>1. /\ Head(list) \in S /\ rest \in Seq(S)
      /\ Len(list) \in Nat /\ Len(list) > 0 /\ Len(rest) = Len(list) - 1
  OBVIOUS
<1>2. Head(list) = list[1] /\ \A i \in 1 .. Len(rest) : rest[i] = list[i + 1]
  OBVIOUS
<1>3. \A i \in 2 .. Len(list) : list[i] = rest[i - 1] /\ i - 1 \in 1 .. Len(rest)
  BY <1>1, <1>2
<1> HIDE DEF rest
<1>4. Listed(list) = Listed(rest) \cup {Head(list)}
  <2>1. Listed(list) \subseteq Listed(rest) \cup {Head(list)}
    <3> SUFFICES ASSUME NEW i \in 1 .. Len(list)
                 PROVE  list[i] \in Listed(rest) \cup {Head(list)}
      BY DEF Listed, Range
    <3>1. CASE i = 1
      BY <3>1, <1>2
    <3>2. CASE i # 1
      BY <3>2, <1>1, <1>3 DEF Listed, Range
    <3> QED BY <3>1, <3>2
  <2>2. Head(list) \in Listed(list)
    BY <1>1, <1>2 DEF Listed, Range
  <2>3. Listed(rest) \subseteq Listed(list)
    <3> SUFFICES ASSUME NEW i \in 1 .. Len(rest)
                 PROVE  rest[i] \in Listed(list)
      BY <1>1 DEF Listed, Range
    <3> QED BY <1>1, <1>2, i + 1 \in 1 .. Len(list) DEF Listed, Range
  <2> QED BY <2>1, <2>2, <2>3
<1>5. ASSUME Distinct(list) PROVE Distinct(rest) /\ Head(list) \notin Listed(rest)
  <2>1. \A i \in 1 .. Len(rest) : i + 1 \in 1 .. Len(list)
    BY <1>1
  <2>2. Distinct(rest)
    BY <1>1, <1>2, <1>5, <2>1 DEF Distinct
  <2>3. \A i \in 1 .. Len(rest) : rest[i] # Head(list)
    BY <1>1, <1>2, <1>5, <2>1 DEF Distinct
  <2> QED BY <1>1, <2>2, <2>3 DEF Listed, Range
<1> QED BY <1>1, <1>4, <1>5 DEF rest

(***************************************************************************)
(* The queue between two steps and inside schedule: the list rl has every  *)
(* READY thread once, apart from the PCBs U that thread_start has not yet  *)
(* queued.                                                                 *)
(***************************************************************************)
Queued(rl, st, U) ==
    /\ rl \in Seq(Threads) /\ st \in [Threads -> Status]
    /\ Distinct(rl)
    /\ \A t \in Threads : st[t] = "READY" <=> t \in Listed(rl) \cup U
    /\ Listed(rl) \cap U = {}

\* thread_unblock keeps the queue complete, and changes nobody but p.
LEMMA UnblockQueued ==
    ASSUME NEW rl, NEW st, NEW U, Queued(rl, st, U), NEW p \in Threads
    PROVE  /\ Queued(ListUnblocking(p, rl, st), StatusUnblocking(p, st), U)
           /\ st[p] \in Stopped =>
                 /\ p \notin Listed(rl)
                 /\ ListUnblocking(p, rl, st) # <<>>
                 /\ Listed(ListUnblocking(p, rl, st)) = Listed(rl) \cup {p}
                 /\ StatusUnblocking(p, st) = [st EXCEPT ![p] = "READY"]
           /\ st[p] \notin Stopped =>
                 /\ ListUnblocking(p, rl, st) = rl
                 /\ StatusUnblocking(p, st) = st
<1>1. CASE st[p] \in Stopped
  <2>1. /\ ListUnblocking(p, rl, st) = <<p>> \o rl
        /\ StatusUnblocking(p, st) = [st EXCEPT ![p] = "READY"]
    BY <1>1 DEF ListUnblocking, StatusUnblocking
  <2>2. p \notin Listed(rl) /\ p \notin U
    BY <1>1 DEF Queued, Stopped
  <2>3. /\ <<p>> \o rl \in Seq(Threads) /\ <<p>> \o rl # <<>>
        /\ Listed(<<p>> \o rl) = Listed(rl) \cup {p}
        /\ Distinct(<<p>> \o rl)
    BY <2>2, PushList DEF Queued
  <2>4. Queued(<<p>> \o rl, [st EXCEPT ![p] = "READY"], U)
    BY <2>2, <2>3 DEF Queued, Status
  <2> QED BY <1>1, <2>1, <2>2, <2>3, <2>4
<1>2. CASE st[p] \notin Stopped
  BY <1>2 DEF ListUnblocking, StatusUnblocking
<1> QED BY <1>1, <1>2

\* The switch itself: from a complete queue with nobody running to the next
\* complete queue, with the new thread as the only one that runs.
LEMMA SwitchToQueue ==
    ASSUME SchedTypeOK, NEW rl, NEW st, NEW U, NEW old \in Intr,
           Queued(rl, st, U),
           \A t \in Threads : st[t] # "RUNNING",
           SwitchTo(rl, st, old)
    PROVE  /\ Queued(ready_list', status', U)
           /\ cur' \in Threads /\ cur' \in Listed(rl)
           /\ status' = [st EXCEPT ![cur'] = "RUNNING"]
           /\ saved' = [saved EXCEPT ![cur] = old]
           /\ saved' \in [Threads -> Intr]
           /\ intr' = saved'[cur'] /\ intr' \in Intr
           /\ panic' = panic
           /\ QueueInv'
<1>1. /\ rl # <<>> /\ cur' = Head(rl) /\ ready_list' = Tail(rl)
      /\ status' = [st EXCEPT ![cur'] = "RUNNING"]
      /\ saved' = [saved EXCEPT ![cur] = old]
      /\ intr' = saved'[cur'] /\ panic' = panic
  BY DEF SwitchTo
<1>2. /\ cur' \in Threads /\ ready_list' \in Seq(Threads)
      /\ Listed(rl) = Listed(ready_list') \cup {cur'}
      /\ Distinct(ready_list') /\ cur' \notin Listed(ready_list')
  BY <1>1, PopList DEF Queued
<1>3. saved' \in [Threads -> Intr] /\ intr' \in Intr
  BY <1>1, <1>2 DEF SchedTypeOK
<1>4. status' \in [Threads -> Status]
  BY <1>1, <1>2 DEF Queued, Status
<1>5. \A t \in Threads : status'[t] = "READY" <=> t \in Listed(ready_list') \cup U
  <2> SUFFICES ASSUME NEW t \in Threads
               PROVE  status'[t] = "READY" <=> t \in Listed(ready_list') \cup U
    OBVIOUS
  <2>1. CASE t = cur'
    BY <2>1, <1>1, <1>2 DEF Queued
  <2>2. CASE t # cur'
    BY <2>2, <1>1, <1>2 DEF Queued
  <2> QED BY <2>1, <2>2
<1>6. Queued(ready_list', status', U)
  BY <1>2, <1>4, <1>5 DEF Queued
<1>7. \A t \in Threads : status'[t] = "RUNNING" <=> t = cur'
  BY <1>1, <1>2 DEF Queued
<1>8. \A t \in Listed(ready_list') : status'[t] = "READY"
  <2>1. Listed(ready_list') \subseteq Threads
    BY <1>2 DEF Listed, Range
  <2> QED BY <2>1, <1>5
<1>9. QueueInv'
  BY <1>2, <1>7, <1>8 DEF QueueInv, Listed, Distinct
<1> QED BY <1>1, <1>2, <1>3, <1>6, <1>9

\* schedule() called by a thread that is RUNNING or that has just stopped
\* itself: no assertion fails, and the queue is complete again afterwards.
LEMMA ScheduleQueue ==
    ASSUME SchedTypeOK, SchedAssumption,
           NEW rl, NEW st, NEW U, NEW old \in Intr,
           Queued(rl, st, U),
           \A t \in Threads : st[t] = "RUNNING" => t = cur,
           st[cur] \in Stopped \cup {"RUNNING"},
           st[idle] # "FREE", idle \notin U,
           schedule(rl, st, old)
    PROVE  /\ Queued(ready_list', status', U)
           /\ QueueInv'
           /\ cur' \in Threads
           /\ ticks' \in [Threads -> 0 .. 255]
           /\ saved' = [saved EXCEPT ![cur] = old]
           /\ saved' \in [Threads -> Intr]
           /\ intr' = saved'[cur'] /\ intr' \in Intr
           /\ panic' = panic
           /\ cur' \in Listed(rl) \cup {idle, cur}
           /\ \A t \in Threads \ {idle} :
                 status'[t] \in Stopped \cup {"FREE"} \/ st[t] \in Stopped \cup {"FREE"}
                     => status'[t] = st[t]
           /\ status'[idle] # "FREE"
<1> DEFINE rl1 == IF rl = <<>> THEN ListUnblocking(idle, rl, st) ELSE rl
           st1 == IF rl = <<>> THEN StatusUnblocking(idle, st) ELSE st
<1>0. cur \in Threads /\ idle \in Threads /\ st \in [Threads -> Status]
  BY DEF SchedTypeOK, SchedAssumption, Queued
<1>1. Queued(rl1, st1, U)
  BY <1>0, UnblockQueued
<1>2. /\ \A t \in Threads : st1[t] = "RUNNING" => t = cur
      /\ \A t \in Threads \ {idle} : st1[t] = st[t]
      /\ st1[idle] # "FREE"
      /\ Listed(rl1) \subseteq Listed(rl) \cup {idle}
  <2>1. CASE rl = <<>> /\ st[idle] \in Stopped
    <3>1. st1 = [st EXCEPT ![idle] = "READY"] /\ Listed(rl1) = Listed(rl) \cup {idle}
      BY <2>1, <1>0, UnblockQueued
    <3> QED BY <3>1, <1>0
  <2>2. CASE ~(rl = <<>> /\ st[idle] \in Stopped)
    <3>1. st1 = st /\ rl1 = rl
      BY <2>2, <1>0, UnblockQueued
    <3> QED BY <3>1
  <2> QED BY <2>1, <2>2
<1>3. \/ st1[cur] = "RUNNING" /\ cur \notin Listed(rl1)
      \/ st1[cur] # "RUNNING" /\ rl1 # <<>>
  <2>1. cur \in Listed(rl1) => st1[cur] = "READY"
    BY <1>0, <1>1 DEF Queued
  <2>2. CASE rl1 = <<>>
    <3>1. rl = <<>> /\ st[idle] \notin Stopped
      BY <2>2, <1>0, UnblockQueued
    <3>2. st[idle] # "READY"
      BY <3>1, <1>0 DEF Queued, Listed, Range
    <3>3. st[idle] = "RUNNING"
      BY <3>1, <3>2, <1>0 DEF Status
    <3>4. idle = cur /\ st1 = st
      BY <3>1, <3>3, <1>0, UnblockQueued
    <3> QED BY <3>3, <3>4, <2>1
  <2> QED BY <2>1, <2>2
<1> HIDE DEF rl1, st1
<1>4. ~( IF st1[cur] = "RUNNING" THEN cur \in Listed(rl1) ELSE rl1 = <<>> )
  BY <1>3
<1>5. \/ /\ st1[cur] = "RUNNING" /\ cur \notin Listed(rl1)
         /\ ticks' = [ticks EXCEPT ![cur] = Priority[cur]]
         /\ SwitchTo(Append(rl1, cur), [st1 EXCEPT ![cur] = "READY"], old)
      \/ /\ st1[cur] # "RUNNING" /\ rl1 # <<>>
         /\ ticks' = ticks
         /\ SwitchTo(rl1, st1, old)
  BY <1>4 DEF schedule, rl1, st1
<1>6. CASE /\ st1[cur] = "RUNNING" /\ cur \notin Listed(rl1)
           /\ ticks' = [ticks EXCEPT ![cur] = Priority[cur]]
           /\ SwitchTo(Append(rl1, cur), [st1 EXCEPT ![cur] = "READY"], old)
  <2> DEFINE rl2 == Append(rl1, cur)
             st2 == [st1 EXCEPT ![cur] = "READY"]
  <2>1. rl2 \in Seq(Threads) /\ Listed(rl2) = Listed(rl1) \cup {cur} /\ Distinct(rl2)
    BY <1>0, <1>1, <1>6, AppendList DEF Queued
  <2>2. cur \notin U
    BY <1>0, <1>1, <1>6 DEF Queued
  <2>3. /\ st2 \in [Threads -> Status]
        /\ \A t \in Threads : st2[t] = IF t = cur THEN "READY" ELSE st1[t]
    BY <1>0, <1>1 DEF Queued, Status
  <2>4. \A t \in Threads : st2[t] = "READY" <=> t \in Listed(rl2) \cup U
    BY <1>1, <2>1, <2>3 DEF Queued
  <2>5. Queued(rl2, st2, U)
    BY <1>1, <2>1, <2>2, <2>3, <2>4 DEF Queued
  <2>6. \A t \in Threads : st2[t] # "RUNNING"
    BY <1>2, <2>3
  <2> HIDE DEF rl2, st2
  <2>7. SwitchTo(rl2, st2, old)
    BY <1>6 DEF rl2, st2
  <2>8. ticks' \in [Threads -> 0 .. 255]
    BY <1>6 DEF SchedTypeOK, SchedAssumption
  <2>9. /\ Queued(ready_list', status', U)
        /\ cur' \in Threads /\ cur' \in Listed(rl2)
        /\ status' = [st2 EXCEPT ![cur'] = "RUNNING"]
        /\ saved' = [saved EXCEPT ![cur] = old]
        /\ saved' \in [Threads -> Intr]
        /\ intr' = saved'[cur'] /\ intr' \in Intr
        /\ panic' = panic
        /\ QueueInv'
    BY <2>5, <2>6, <2>7, SwitchToQueue
  <2>10. st2[cur'] = "READY"
    BY <2>5, <2>9 DEF Queued
  <2>11. \A t \in Threads : status'[t] = IF t = cur' THEN "RUNNING" ELSE st2[t]
    BY <2>3, <2>9
  <2>12. \A t \in Threads \ {idle} :
            status'[t] \in Stopped \cup {"FREE"} \/ st[t] \in Stopped \cup {"FREE"}
                => status'[t] = st[t]
    BY <2>3, <2>10, <2>11, <1>2, <1>6 DEF Stopped
  <2>13. status'[idle] # "FREE"
    BY <2>3, <2>11, <1>0, <1>2
  <2> QED BY <2>1, <2>8, <2>9, <2>12, <2>13, <1>2
<1>7. CASE st1[cur] # "RUNNING" /\ rl1 # <<>> /\ ticks' = ticks /\ SwitchTo(rl1, st1, old)
  <2>1. \A t \in Threads : st1[t] # "RUNNING"
    BY <1>2, <1>7
  <2>2. ticks' \in [Threads -> 0 .. 255]
    BY <1>7 DEF SchedTypeOK
  <2>3. /\ Queued(ready_list', status', U)
        /\ cur' \in Threads /\ cur' \in Listed(rl1)
        /\ status' = [st1 EXCEPT ![cur'] = "RUNNING"]
        /\ saved' = [saved EXCEPT ![cur] = old]
        /\ saved' \in [Threads -> Intr]
        /\ intr' = saved'[cur'] /\ intr' \in Intr
        /\ panic' = panic
        /\ QueueInv'
    BY <1>1, <1>7, <2>1, SwitchToQueue
  <2>4. st1[cur'] = "READY"
    BY <1>1, <2>3 DEF Queued
  <2>5. \A t \in Threads : status'[t] = IF t = cur' THEN "RUNNING" ELSE st1[t]
    BY <1>1, <2>3 DEF Queued
  <2>6. \A t \in Threads \ {idle} :
            status'[t] \in Stopped \cup {"FREE"} \/ st[t] \in Stopped \cup {"FREE"}
                => status'[t] = st[t]
    BY <2>4, <2>5, <1>2 DEF Stopped
  <2>7. status'[idle] # "FREE"
    BY <2>5, <1>0, <1>2
  <2> QED BY <2>2, <2>3, <2>6, <2>7, <1>2
<1> QED BY <1>5, <1>6, <1>7
=============================================================================
