----------------------------- MODULE DeviceProofs ----------------------------
(***************************************************************************)
(* The two devices whose interrupt handler has threads at its other end.   *)
(* The disks: every command of ide.c gets its own answer, for any number   *)
(* of threads.  The invariant says for each place in the driver what state *)
(* the drive, its interrupt line, expecting_intr and disk_done are in      *)
(* together, and that a channel nobody drives is quiet.                    *)
(* The keyboard: no modifier sticks and no character overtakes another,    *)
(* for rings of every size and any number of readers.                      *)
(***************************************************************************)
EXTENDS Ide, Keyboard, TLAPS, SequenceTheorems

\* t is between the lock of its channel c, or the start of identify_disk, and
\* the end of its call.
Driving(t) == pc[t] \notin {"out", "lock"}
Drives(t, c) == Driving(t) /\ Ch(t) = c

\* No command is under way, no interrupt pending, no token left.
Quiet(c) == drive[c].state = "idle" /\ irq[c] = "low" /\ disk_done[c] = 0

\* identify_disk takes no lock: only main calls it, before anyone else runs.
BootInv ==
    /\ ~Booted => \A w \in Workers : pc[w] = "out"
    /\ \A w \in Workers : pc[w] # "out" => call[w].kind # "identify"
    /\ \A t \in Threads : pc[t] = "lock" => call[t].kind # "identify"
    /\ \A t \in Threads : pc[t] # "out" => call[t].left > 0

HolderInv ==
    \A t \in Threads, c \in Channels :
        holder[c] = t <=> Drives(t, c) /\ call[t].kind # "identify"

\* The drive of t's channel works on t's command.
Own(t) ==
    /\ drive[Ch(t)].by = t /\ drive[Ch(t)].kind = call[t].kind
    /\ drive[Ch(t)].disk = call[t].disk

\* In sema_down: the drive works, or has answered, or the handler has come.
AtDown(kind, state, line, exp, done) ==
    /\ kind # "identify"
    /\ \/ /\ state = (IF kind = "read" THEN "busy" ELSE "writing")
          /\ line = "low" /\ exp /\ done = 0
       \/ /\ state \in (IF kind = "read" THEN {"drq", "idle"} ELSE {"idle"})
          /\ \/ line = "requested" /\ exp /\ done = 0
             \/ line = "low" /\ done = 1

\* In busy_wait: only identify_disk can find an interrupt pending.
AtBusyWait(kind, state, line, exp, done) ==
    /\ done = 0
    /\ \/ kind = "read" /\ state \in {"drq", "idle"} /\ line = "low"
       \/ kind = "write" /\ state \in {"busy", "drq"} /\ line = "low" /\ exp
       \/ kind = "identify" /\ state \in {"busy", "drq", "idle"} /\ line \in {"low", "requested"}

AtTransfer(kind, state, line, exp, done) ==
    state = "drq" /\ line = "low" /\ done = 0 /\ (kind = "write" => exp)

Phase(t) ==
    LET c == Ch(t)
    IN  /\ pc[t] \in {"select", "expect", "command", "next"} => Quiet(c)
        /\ pc[t] # "select" => selected[c] = call[t].disk
        /\ pc[t] = "command" => expecting[c]
        /\ pc[t] \in {"down", "busy_wait", "transfer"} => Own(t)
        /\ pc[t] = "down" =>
              AtDown(call[t].kind, drive[c].state, irq[c], expecting[c], disk_done[c])
        /\ pc[t] = "busy_wait" =>
              AtBusyWait(call[t].kind, drive[c].state, irq[c], expecting[c], disk_done[c])
        /\ pc[t] = "transfer" =>
              AtTransfer(call[t].kind, drive[c].state, irq[c], expecting[c], disk_done[c])

PhaseInv ==
    /\ \A t \in Threads : Driving(t) => Phase(t)
    /\ \A c \in Channels : (\A t \in Threads : ~Drives(t, c)) => Quiet(c)
    /\ panic # "token"

IInv == TypeOK /\ BootInv /\ HolderInv /\ PhaseInv

-----------------------------------------------------------------------------
LEMMA InitIInv == Init => IInv
<1> SUFFICES ASSUME Init PROVE IInv
  OBVIOUS
<1> USE IdeAssumption
<1>1. 0 \in Channels
  BY DEF IdeAssumption
<1>2. todo \in Seq(Kinds \X Channels \X Disks)
  <2>1. InitOf(0) \in Seq(Kinds \X Channels \X Disks)
    BY <1>1 DEF InitOf, Kinds, Disks
  <2>2. 1 \in Channels => InitOf(1) \in Seq(Kinds \X Channels \X Disks)
    BY DEF InitOf, Kinds, Disks
  <2> QED BY <2>1, <2>2 DEF Init
<1>3. TypeOK
  BY <1>1, <1>2 DEF Init, TypeOK, Threads, Kinds, Disks, IdeAssumption
<1>4. \A t \in Threads : pc[t] = "out"
  BY DEF Init
<1>5. BootInv
  BY <1>4 DEF BootInv, Driving, Threads
<1>6. HolderInv
  BY <1>4 DEF HolderInv, Drives, Driving, Init, IdeAssumption, Threads
<1>7. PhaseInv
  BY <1>4 DEF PhaseInv, Driving, Quiet, Init
<1> QED BY <1>3, <1>5, <1>6, <1>7 DEF IInv

\* One thread at a time drives a channel.
LEMMA OneDriver ==
    ASSUME IInv, NEW t \in Threads, NEW u \in Threads, NEW c \in Channels,
           Drives(t, c), Drives(u, c)
    PROVE  t = u
<1>1. CASE call[t].kind # "identify" /\ call[u].kind # "identify"
  BY <1>1 DEF IInv, HolderInv
<1>2. CASE call[t].kind = "identify"
  <2>1. t = main
    BY <1>2 DEF IInv, BootInv, Threads, Drives, Driving
  <2>2. ~Booted
    BY <2>1 DEF Booted, Drives, Driving
  <2> QED BY <2>1, <2>2 DEF IInv, BootInv, Threads, Drives, Driving
<1>3. CASE call[u].kind = "identify"
  <2>1. u = main
    BY <1>3 DEF IInv, BootInv, Threads, Drives, Driving
  <2>2. ~Booted
    BY <2>1 DEF Booted, Drives, Driving
  <2> QED BY <2>1, <2>2 DEF IInv, BootInv, Threads, Drives, Driving
<1> QED BY <1>1, <1>2, <1>3

\* The other channels and threads are left alone.
Apart(t, c) ==
    /\ \A d \in Channels \ {c} :
          /\ drive'[d] = drive[d] /\ irq'[d] = irq[d] /\ selected'[d] = selected[d]
          /\ expecting'[d] = expecting[d] /\ disk_done'[d] = disk_done[d]
          /\ holder'[d] = holder[d]
    /\ \A u \in Threads \ {t} : pc'[u] = pc[u] /\ call'[u] = call[u]

\* What is left to show of a step at the channel that t drives before and after.
LEMMA DriverStep ==
    ASSUME IInv, NEW t \in Threads, Driving(t), Apart(t, Ch(t)),
           todo' = todo, Driving(t)', Ch(t)' = Ch(t), Phase(t)',
           call'[t].kind = call[t].kind, call'[t].left > 0,
           holder'[Ch(t)] = holder[Ch(t)], panic' # "token"
    PROVE  BootInv' /\ HolderInv' /\ PhaseInv'
<1> DEFINE c == Ch(t)
<1>1. c \in Channels
  BY DEF IInv, TypeOK, Ch
<1>2. \A u \in Threads \ {t} : pc'[u] = pc[u] /\ call'[u] = call[u] /\ Ch(u)' = Ch(u)
  BY DEF Apart, Ch
<1>3. \A u \in Threads \ {t} : ~Drives(u, c)
  BY <1>1, OneDriver DEF Drives
<1>4. \A u \in Threads, d \in Channels : Drives(u, d)' <=> Drives(u, d)
  BY <1>2 DEF Drives, Driving
<1>5. BootInv'
  BY <1>2 DEF IInv, BootInv, Booted, Driving, Threads
<1>6. HolderInv'
  <2> SUFFICES ASSUME NEW u \in Threads, NEW d \in Channels
               PROVE  (holder[d] = u <=> Drives(u, d) /\ call[u].kind # "identify")'
    BY DEF HolderInv
  <2>1. holder'[d] = holder[d]
    BY DEF Apart
  <2>2. call'[u].kind = call[u].kind
    BY <1>2
  <2> QED BY <2>1, <2>2, <1>4 DEF IInv, HolderInv
<1>7. \A u \in Threads : Driving(u)' => Phase(u)'
  <2> SUFFICES ASSUME NEW u \in Threads, Driving(u)' PROVE Phase(u)'
    OBVIOUS
  <2>1. CASE u = t
    BY <2>1
  <2>2. CASE u # t
    <3>1. Driving(u) /\ Ch(u) # c /\ Ch(u) \in Channels
      BY <2>2, <1>2, <1>3 DEF Driving, Drives, IInv, TypeOK, Ch
    <3>2. Phase(u)
      BY <3>1 DEF IInv, PhaseInv
    <3> QED BY <2>2, <3>1, <3>2, <1>2 DEF Phase, Own, Quiet, Apart
  <2> QED BY <2>1, <2>2
<1>8. \A d \in Channels : (\A u \in Threads : ~Drives(u, d)') => Quiet(d)'
  <2> SUFFICES ASSUME NEW d \in Channels, \A u \in Threads : ~Drives(u, d)'
               PROVE  Quiet(d)'
    OBVIOUS
  <2>1. d # c
    BY <1>4 DEF Drives
  <2>2. Quiet(d)
    BY <1>4 DEF IInv, PhaseInv
  <2> QED BY <2>1, <2>2 DEF Quiet, Apart
<1> QED BY <1>5, <1>6, <1>7, <1>8 DEF PhaseInv

-----------------------------------------------------------------------------
(* The steps of a thread inside a call *)

LEMMA DriveState ==
    ASSUME IInv, NEW c \in Channels, NEW s \in {"idle", "busy", "drq", "writing"},
           drive' = [drive EXCEPT ![c].state = s]
    PROVE  drive' \in [Channels -> [state : {"idle", "busy", "drq", "writing"},
                                   by : Threads, kind : Kinds, disk : Disks]]
<1>1. drive[c] \in [state : {"idle", "busy", "drq", "writing"},
                    by : Threads, kind : Kinds, disk : Disks]
  BY DEF IInv, TypeOK
<1>2. [drive[c] EXCEPT !.state = s] \in
          [state : {"idle", "busy", "drq", "writing"},
           by : Threads, kind : Kinds, disk : Disks]
  BY <1>1
<1> QED BY <1>2 DEF IInv, TypeOK

LEMMA SelectStep ==
    ASSUME IInv, NEW t \in Threads, Select(t) PROVE IInv'
<1>1. Ch(t) \in Channels /\ Driving(t) /\ Phase(t) /\ call[t].left > 0
  BY DEF Select, At, IInv, TypeOK, PhaseInv, BootInv, Driving, Ch
<1>2. TypeOK'
  BY <1>1 DEF Select, At, Goto, Ch, IInv, TypeOK, drives, driver
<1>3. Apart(t, Ch(t))
  BY <1>1 DEF Select, At, Goto, Ch, IInv, TypeOK, Apart, drives, driver
<1>4. Driving(t)' /\ call' = call /\ Ch(t)' = Ch(t)
  BY <1>1 DEF Select, At, Goto, Ch, IInv, TypeOK, Driving, drives, driver
<1>5. Phase(t)'
  BY <1>1, <1>4 DEF Select, At, Goto, IInv, TypeOK, Phase, Own, Quiet, drives, driver,
     AtDown, AtBusyWait, AtTransfer, Kinds, Disks, Ch
<1>6. todo' = todo /\ holder' = holder /\ panic' # "token"
  BY DEF Select, IInv, PhaseInv, drives, driver
<1> QED BY <1>1, <1>2, <1>3, <1>4, <1>5, <1>6, DriverStep DEF IInv

LEMMA ExpectStep ==
    ASSUME IInv, NEW t \in Threads, Expect(t) PROVE IInv'
<1>1. Ch(t) \in Channels /\ Driving(t) /\ Phase(t) /\ call[t].left > 0
  BY DEF Expect, At, IInv, TypeOK, PhaseInv, BootInv, Driving, Ch
<1>2. TypeOK'
  BY <1>1 DEF Expect, At, Goto, Ch, IInv, TypeOK, drives, driver
<1>3. Apart(t, Ch(t))
  BY <1>1 DEF Expect, At, Goto, Ch, IInv, TypeOK, Apart, drives, driver
<1>4. Driving(t)' /\ call' = call /\ Ch(t)' = Ch(t)
  BY <1>1 DEF Expect, At, Goto, Ch, IInv, TypeOK, Driving, drives, driver
<1>5. Phase(t)'
  BY <1>1, <1>4 DEF Expect, At, Goto, IInv, TypeOK, Phase, Own, Quiet, drives, driver,
     AtDown, AtBusyWait, AtTransfer, Kinds, Disks, Ch
<1>6. todo' = todo /\ holder' = holder /\ panic' # "token"
  BY DEF Expect, IInv, PhaseInv, drives, driver
<1> QED BY <1>1, <1>2, <1>3, <1>4, <1>5, <1>6, DriverStep DEF IInv

LEMMA CommandStep ==
    ASSUME IInv, NEW t \in Threads, Command(t) PROVE IInv'
<1>1. Ch(t) \in Channels /\ Driving(t) /\ Phase(t) /\ call[t].left > 0
  BY DEF Command, At, IInv, TypeOK, PhaseInv, BootInv, Driving, Ch
<1>2. TypeOK'
  BY <1>1 DEF Command, At, Goto, Ch, IInv, TypeOK, drives, driver
<1>3. Apart(t, Ch(t))
  BY <1>1 DEF Command, At, Goto, Ch, IInv, TypeOK, Apart, drives, driver
<1>4. Driving(t)' /\ call' = call /\ Ch(t)' = Ch(t)
  BY <1>1 DEF Command, At, Goto, Ch, IInv, TypeOK, Driving, drives, driver
<1>5. Phase(t)'
  BY <1>1, <1>4 DEF Command, At, Goto, IInv, TypeOK, Phase, Own, Quiet, drives, driver,
     AtDown, AtBusyWait, AtTransfer, Kinds, Disks, Ch
<1>6. todo' = todo /\ holder' = holder /\ panic' # "token"
  BY DEF Command, IInv, PhaseInv, drives, driver
<1> QED BY <1>1, <1>2, <1>3, <1>4, <1>5, <1>6, DriverStep DEF IInv

LEMMA DownStep ==
    ASSUME IInv, NEW t \in Threads, Down(t) PROVE IInv'
<1>1. Ch(t) \in Channels /\ Driving(t) /\ Phase(t) /\ call[t].left > 0
  BY DEF Down, At, IInv, TypeOK, PhaseInv, BootInv, Driving, Ch
<1>2. TypeOK'
  BY <1>1 DEF Down, At, Goto, Ch, IInv, TypeOK, drives, driver
<1>3. Apart(t, Ch(t))
  BY <1>1 DEF Down, At, Goto, Ch, IInv, TypeOK, Apart, drives, driver
<1>4. Driving(t)' /\ call' = call /\ Ch(t)' = Ch(t)
  BY <1>1 DEF Down, At, Goto, Ch, IInv, TypeOK, Driving, drives, driver
<1>5. Phase(t)'
  BY <1>1, <1>4 DEF Down, At, Goto, IInv, TypeOK, Phase, Own, Quiet, drives, driver,
     AtDown, AtBusyWait, AtTransfer, Kinds, Disks, Ch
<1>6. todo' = todo /\ holder' = holder /\ panic' # "token"
  BY DEF Down, IInv, PhaseInv, drives, driver
<1> QED BY <1>1, <1>2, <1>3, <1>4, <1>5, <1>6, DriverStep DEF IInv

LEMMA BusyWaitStep ==
    ASSUME IInv, NEW t \in Threads, busy_wait(t) PROVE IInv'
<1>1. Ch(t) \in Channels /\ Driving(t) /\ Phase(t) /\ call[t].left > 0
  BY DEF busy_wait, At, IInv, TypeOK, PhaseInv, BootInv, Driving, Ch
<1>2. TypeOK'
  BY <1>1 DEF busy_wait, At, Goto, Ch, IInv, TypeOK, drives, driver
<1>3. Apart(t, Ch(t))
  BY <1>1 DEF busy_wait, At, Goto, Ch, IInv, TypeOK, Apart, drives, driver
<1>4. Driving(t)' /\ call' = call /\ Ch(t)' = Ch(t)
  BY <1>1 DEF busy_wait, At, Goto, Ch, IInv, TypeOK, Driving, drives, driver
<1>5. Phase(t)'
  BY <1>1, <1>4 DEF busy_wait, At, Goto, IInv, TypeOK, Phase, Own, Quiet, drives, driver,
     AtDown, AtBusyWait, AtTransfer, Kinds, Disks, Ch
<1>6. todo' = todo /\ holder' = holder /\ panic' # "token"
  BY DEF busy_wait, IInv, PhaseInv, drives, driver
<1> QED BY <1>1, <1>2, <1>3, <1>4, <1>5, <1>6, DriverStep DEF IInv

LEMMA TransferStep ==
    ASSUME IInv, NEW t \in Threads, Transfer(t) PROVE IInv'
<1>1. Ch(t) \in Channels /\ Driving(t) /\ Phase(t) /\ call[t].left > 0
  BY DEF Transfer, At, IInv, TypeOK, PhaseInv, BootInv, Driving, Ch
<1>2. TypeOK'
  <2>1. drive' \in [Channels -> [state : {"idle", "busy", "drq", "writing"},
                                by : Threads, kind : Kinds, disk : Disks]]
    <3> DEFINE s == IF call[t].kind = "write" THEN "writing" ELSE "idle"
    <3>1. s \in {"idle", "busy", "drq", "writing"}
      OBVIOUS
    <3>2. drive' = [drive EXCEPT ![Ch(t)].state = s]
      BY DEF Transfer
    <3> QED BY <1>1, <3>1, <3>2, DriveState
  <2>2. pc' \in [Threads -> {"out", "lock", "select", "expect", "command", "down",
                            "busy_wait", "transfer", "next"}]
    BY DEF Transfer, Goto, IInv, TypeOK
  <2> QED BY <2>1, <2>2 DEF Transfer, IInv, TypeOK, driver
<1>3. Apart(t, Ch(t))
  BY <1>1 DEF Transfer, At, Goto, Ch, IInv, TypeOK, Apart, drives, driver
<1>4. Driving(t)' /\ call' = call /\ Ch(t)' = Ch(t)
  BY <1>1 DEF Transfer, At, Goto, Ch, IInv, TypeOK, Driving, drives, driver
<1>5. Phase(t)'
  BY <1>1, <1>4 DEF Transfer, At, Goto, IInv, TypeOK, Phase, Own, Quiet, drives, driver,
     AtDown, AtBusyWait, AtTransfer, Kinds, Disks, Ch
<1>6. todo' = todo /\ holder' = holder /\ panic' # "token"
  BY DEF Transfer, IInv, PhaseInv, drives, driver
<1> QED BY <1>1, <1>2, <1>3, <1>4, <1>5, <1>6, DriverStep DEF IInv

\* secs_done += secs_op: another command, or the end of the call, which leaves
\* the channel quiet and, unless it was identify_disk, unlocked.
LEMMA NextOpStep ==
    ASSUME IInv, NEW t \in Threads, NextOp(t) PROVE IInv'
<1> DEFINE c == Ch(t)
<1>1. c \in Channels /\ Driving(t) /\ Phase(t) /\ call[t].left > 0 /\ pc[t] = "next"
  BY DEF NextOp, At, IInv, TypeOK, PhaseInv, BootInv, Driving, Ch
<1>2. /\ todo' = todo /\ panic' = panic /\ UNCHANGED <<drives, expecting, disk_done>>
      /\ call' = [call EXCEPT ![t].left = @ - 1]
      /\ pc' = [pc EXCEPT ![t] = IF Last(t) THEN "out" ELSE "select"]
      /\ holder' = [holder EXCEPT ![c] = IF Last(t) /\ @ = t THEN None ELSE @]
  BY DEF NextOp, Goto
<1>3. call[t].left - 1 \in 0 .. MaxOps /\ (~Last(t) => call[t].left - 1 > 0)
  BY <1>1, IdeAssumption DEF IInv, TypeOK, Last, IdeAssumption
<1>4. /\ \A u \in Threads : /\ call'[u].kind = call[u].kind /\ call'[u].disk = call[u].disk
                            /\ call'[u].ch = call[u].ch /\ Ch(u)' = Ch(u)
      /\ \A u \in Threads \ {t} : call'[u] = call[u] /\ pc'[u] = pc[u]
      /\ call'[t].left = call[t].left - 1
  BY <1>2 DEF IInv, TypeOK, Ch
<1>5. TypeOK'
  <2>1. call' \in [Threads -> [kind : Kinds, ch : Channels, disk : Disks, left : 0 .. MaxOps]]
    BY <1>2, <1>3 DEF IInv, TypeOK
  <2>2. holder' \in [Channels -> Threads \cup {None}]
    BY <1>2 DEF IInv, TypeOK
  <2>3. pc' \in [Threads -> {"out", "lock", "select", "expect", "command", "down",
                            "busy_wait", "transfer", "next"}]
    BY <1>2 DEF IInv, TypeOK
  <2> QED BY <1>2, <2>1, <2>2, <2>3 DEF IInv, TypeOK, drives
<1>6. CASE ~Last(t)
  <2>1. Driving(t)' /\ holder' = holder
    BY <1>1, <1>2, <1>6 DEF Driving, IInv, TypeOK
  <2>2. Apart(t, c)
    BY <1>2, <1>4, <2>1 DEF Apart, drives
  <2>3. Phase(t)'
    BY <1>1, <1>2, <1>4, <1>6 DEF Phase, Quiet, IInv, TypeOK, drives
  <2> QED BY <1>1, <1>2, <1>3, <1>4, <1>5, <1>6, <2>1, <2>2, <2>3, DriverStep DEF IInv, PhaseInv
<1>7. CASE Last(t)
  <2>1. pc'[t] = "out"
    BY <1>2, <1>7 DEF IInv, TypeOK
  <2>2. \A u \in Threads, d \in Channels :
            Drives(u, d)' <=> Drives(u, d) /\ u # t
    BY <2>1, <1>4 DEF Drives, Driving
  <2>3. BootInv'
    BY <1>2, <1>4, <2>1 DEF IInv, BootInv, Booted, Driving, Threads, IdeAssumption
  <2>4. HolderInv'
    <3> SUFFICES ASSUME NEW u \in Threads, NEW d \in Channels
                 PROVE  (holder[d] = u <=> Drives(u, d) /\ call[u].kind # "identify")'
      BY DEF HolderInv
    <3>1. holder[d] = u <=> Drives(u, d) /\ call[u].kind # "identify"
      BY DEF IInv, HolderInv
    <3>2. u # t => (holder'[d] = u <=> holder[d] = u)
      BY <1>2, <1>7, IdeAssumption DEF IInv, TypeOK, Threads, IdeAssumption
    <3>3. holder'[d] # t
      <4>1. holder[d] = t => d = c
        BY DEF IInv, HolderInv, Drives
      <4> QED BY <4>1, <1>2, <1>7, IdeAssumption DEF IInv, TypeOK, Threads, IdeAssumption
    <3> QED BY <1>4, <2>2, <3>1, <3>2, <3>3
  <2>5. \A u \in Threads : Driving(u)' => Phase(u)'
    <3> SUFFICES ASSUME NEW u \in Threads, Driving(u)' PROVE Phase(u)'
      OBVIOUS
    <3>1. u # t /\ Driving(u)
      BY <2>1, <1>4 DEF Driving
    <3> QED BY <3>1, <1>2, <1>4 DEF IInv, PhaseInv, Phase, Own, Quiet, drives
  <2>6. \A d \in Channels : (\A u \in Threads : ~Drives(u, d)') => Quiet(d)'
    <3> SUFFICES ASSUME NEW d \in Channels, \A u \in Threads : ~Drives(u, d)'
                 PROVE  Quiet(d)'
      OBVIOUS
    <3>1. Quiet(d)
      <4>1. CASE d = c
        BY <4>1, <1>1 DEF Phase
      <4>2. CASE d # c
        BY <4>2, <2>2 DEF IInv, PhaseInv, Drives
      <4> QED BY <4>1, <4>2
    <3> QED BY <3>1, <1>2 DEF Quiet, drives
  <2> QED BY <1>2, <1>5, <2>3, <2>4, <2>5, <2>6 DEF IInv, PhaseInv
<1> QED BY <1>6, <1>7

-----------------------------------------------------------------------------
(* The steps that begin a call *)

\* A thread that is about to take a lock, or main before identify_disk, drives
\* no channel; nothing the others rely on changes.
LEMMA CallStep ==
    ASSUME IInv, NEW t \in Threads, pc[t] = "out", NEW kind \in Kinds, NEW d \in Channels,
           NEW disk \in Disks, NEW n \in 1 .. MaxOps, Call(t, kind, d, disk, n),
           todo' \in Seq(Kinds \X Channels \X Disks),
           t = main => todo # <<>>,
           t # main => Booted /\ todo' = todo /\ kind # "identify"
    PROVE  IInv'
<1>1. /\ call' = [call EXCEPT ![t] = [kind |-> kind, ch |-> d, disk |-> disk, left |-> n]]
      /\ pc' = [pc EXCEPT ![t] = IF kind = "identify" THEN "select" ELSE "lock"]
      /\ UNCHANGED <<selected, drive, irq, expecting, disk_done, holder, panic>>
  BY DEF Call, Goto, drives, driver
<1>2. /\ \A u \in Threads \ {t} : call'[u] = call[u] /\ pc'[u] = pc[u] /\ Ch(u)' = Ch(u)
      /\ call'[t].kind = kind /\ call'[t].left = n /\ Ch(t)' = d /\ n > 0
      /\ pc'[t] = IF kind = "identify" THEN "select" ELSE "lock"
  BY <1>1 DEF IInv, TypeOK, Ch
<1>3. TypeOK'
  BY <1>1, IdeAssumption DEF IInv, TypeOK, IdeAssumption
<1>4. ~Driving(t) /\ \A e \in Channels : ~Drives(t, e)
  BY DEF Driving, Drives
<1>5. \A u \in Threads \ {t}, e \in Channels : Drives(u, e)' <=> Drives(u, e)
  BY <1>2 DEF Drives, Driving
<1>6. t = main => \A w \in Workers : pc[w] = "out"
  BY DEF IInv, BootInv, Booted
<1>7. BootInv'
  <2>1. CASE t = main
    BY <2>1, <1>2, <1>6, IdeAssumption DEF IInv, BootInv, Driving, Threads, IdeAssumption
  <2>2. CASE t # main
    <3>1. Booted'
      BY <2>2, <1>2 DEF Booted, Threads
    <3> QED BY <2>2, <3>1, <1>2 DEF IInv, BootInv, Driving, Threads
  <2> QED BY <2>1, <2>2
<1>8. HolderInv'
  <2> SUFFICES ASSUME NEW u \in Threads, NEW e \in Channels
               PROVE  (holder[e] = u <=> Drives(u, e) /\ call[u].kind # "identify")'
    BY DEF HolderInv
  <2>1. holder[e] = u <=> Drives(u, e) /\ call[u].kind # "identify"
    BY DEF IInv, HolderInv
  <2>2. CASE u = t
    BY <2>1, <2>2, <1>1, <1>2, <1>4 DEF Drives, Driving
  <2>3. CASE u # t
    BY <2>1, <2>3, <1>1, <1>2, <1>5
  <2> QED BY <2>2, <2>3
<1>9. \A u \in Threads : Driving(u)' => Phase(u)'
  <2> SUFFICES ASSUME NEW u \in Threads, Driving(u)' PROVE Phase(u)'
    OBVIOUS
  <2>1. CASE u = t
    <3>1. kind = "identify" /\ pc'[t] = "select" /\ t = main
      BY <2>1, <1>2 DEF Driving
    <3>2. \A v \in Threads : ~Drives(v, d)
      BY <3>1, <1>4, <1>6 DEF Drives, Driving, Threads
    <3>3. Quiet(d)
      BY <3>2 DEF IInv, PhaseInv
    <3> QED BY <2>1, <3>1, <3>3, <1>1, <1>2 DEF Phase, Quiet
  <2>2. CASE u # t
    <3>1. Driving(u)
      BY <2>2, <1>2 DEF Driving
    <3> QED BY <2>2, <3>1, <1>1, <1>2 DEF IInv, PhaseInv, Phase, Own, Quiet
  <2> QED BY <2>1, <2>2
<1>10. \A e \in Channels : (\A u \in Threads : ~Drives(u, e)') => Quiet(e)'
  BY <1>1, <1>4, <1>5 DEF IInv, PhaseInv, Quiet
<1> QED BY <1>1, <1>3, <1>7, <1>8, <1>9, <1>10 DEF IInv, PhaseInv

LEMMA InitStepStep ==
    ASSUME IInv, InitStep PROVE IInv'
<1> DEFINE job == Head(todo)
<1>1. job \in Kinds \X Channels \X Disks /\ Tail(todo) \in Seq(Kinds \X Channels \X Disks)
  BY DEF InitStep, IInv, TypeOK
<1>2. job[1] \in Kinds /\ job[2] \in Channels /\ job[3] \in Disks
  BY <1>1
<1>3. todo' \in Seq(Kinds \X Channels \X Disks)
  BY <1>1 DEF InitStep, IInv, TypeOK
<1>4. main \in Threads /\ 1 \in 1 .. MaxOps
  BY IdeAssumption DEF Threads, IdeAssumption
<1>5. pc[main] = "out" /\ todo # <<>> /\ Call(main, job[1], job[2], job[3], 1)
  BY DEF InitStep, At
<1> HIDE DEF job
<1> QED BY <1>2, <1>3, <1>4, <1>5, CallStep

LEMMA UseStep ==
    ASSUME IInv, NEW t \in Workers, Use(t) PROVE IInv'
<1>1. t \in Threads /\ t # main /\ pc[t] = "out" /\ Booted /\ todo' = todo
  BY IdeAssumption DEF Use, At, Threads, IdeAssumption
<1>2. PICK kind \in {"read", "write"}, c \in Channels, d \in Disks, n \in 1 .. MaxOps :
          Call(t, kind, c, d, n)
  BY DEF Use
<1>3. kind \in Kinds /\ kind # "identify"
  BY DEF Kinds
<1> QED BY <1>1, <1>2, <1>3, CallStep DEF IInv, TypeOK

\* The lock is only given where nobody drives the channel: it is quiet.
LEMMA TakeLockStep ==
    ASSUME IInv, NEW t \in Threads, Lock(t) PROVE IInv'
<1> DEFINE c == Ch(t)
<1>1. /\ c \in Channels /\ pc[t] = "lock" /\ holder[c] = None
      /\ holder' = [holder EXCEPT ![c] = t] /\ pc' = [pc EXCEPT ![t] = "select"]
      /\ UNCHANGED <<todo, selected, drive, irq, expecting, disk_done, call, panic>>
  BY DEF Lock, At, Goto, Ch, drives, IInv, TypeOK
<1>2. TypeOK'
  BY <1>1 DEF IInv, TypeOK
<1>3. pc'[t] = "select" /\ \A u \in Threads \ {t} : pc'[u] = pc[u]
  BY <1>1 DEF IInv, TypeOK
<1>4. \A u \in Threads : ~Drives(u, c)
  <2> SUFFICES ASSUME NEW u \in Threads, Drives(u, c) PROVE FALSE
    OBVIOUS
  <2>1. call[u].kind = "identify"
    BY <1>1, IdeAssumption DEF IInv, HolderInv, Threads, IdeAssumption
  <2>2. u = main /\ u # t
    BY <2>1, <1>1 DEF IInv, BootInv, Threads, Drives, Driving
  <2>3. ~Booted
    BY <2>2 DEF Booted, Drives, Driving
  <2> QED BY <2>2, <2>3, <1>1 DEF IInv, BootInv, Threads
<1>5. call[t].kind # "identify" /\ call[t].left > 0
  BY <1>1 DEF IInv, BootInv
<1>6. /\ \A u \in Threads : Ch(u)' = Ch(u)
      /\ \A u \in Threads, d \in Channels :
            Drives(u, d)' <=> Drives(u, d) \/ (u = t /\ d = c)
  BY <1>1, <1>3 DEF Drives, Driving, Ch
<1>7. BootInv'
  BY <1>1, <1>3, <1>5 DEF IInv, BootInv, Booted, Driving, Threads
<1>8. HolderInv'
  <2> SUFFICES ASSUME NEW u \in Threads, NEW d \in Channels
               PROVE  (holder[d] = u <=> Drives(u, d) /\ call[u].kind # "identify")'
    BY DEF HolderInv
  <2>1. holder[d] = u <=> Drives(u, d) /\ call[u].kind # "identify"
    BY DEF IInv, HolderInv
  <2>2. CASE d = c
    BY <2>1, <2>2, <1>1, <1>4, <1>5, <1>6 DEF IInv, TypeOK
  <2>3. CASE d # c
    BY <2>1, <2>3, <1>1, <1>6
  <2> QED BY <2>2, <2>3
<1>9. \A u \in Threads : Driving(u)' => Phase(u)'
  <2> SUFFICES ASSUME NEW u \in Threads, Driving(u)' PROVE Phase(u)'
    OBVIOUS
  <2>1. CASE u = t
    <3>1. Quiet(c)
      BY <1>1, <1>4 DEF IInv, PhaseInv
    <3> QED BY <2>1, <3>1, <1>1, <1>3 DEF Phase, Quiet, Ch
  <2>2. CASE u # t
    <3>1. Driving(u)
      BY <2>2, <1>3 DEF Driving
    <3> QED BY <2>2, <3>1, <1>1, <1>3, <1>6 DEF IInv, PhaseInv, Phase, Own, Quiet
  <2> QED BY <2>1, <2>2
<1>10. \A d \in Channels : (\A u \in Threads : ~Drives(u, d)') => Quiet(d)'
  BY <1>1, <1>6 DEF IInv, PhaseInv, Quiet
<1> QED BY <1>1, <1>2, <1>7, <1>8, <1>9, <1>10 DEF IInv, PhaseInv

-----------------------------------------------------------------------------
(* The interrupt and the disk *)

\* A channel that is not quiet is driven.
LEMMA Driver ==
    ASSUME IInv, NEW c \in Channels, ~Quiet(c)
    PROVE  \E t \in Threads : Driving(t) /\ Ch(t) = c /\ Phase(t) /\ call[t].left > 0
BY DEF IInv, PhaseInv, BootInv, Drives, Driving

\* The interrupt comes to a thread that waits for it: one that nobody has
\* announced, or that finds a token, is never let in.
LEMMA Expected ==
    ASSUME IInv, NEW c \in Channels, irq[c] = "requested", IntrOn
    PROVE  /\ expecting[c] /\ disk_done[c] = 0
           /\ \E t \in Threads : /\ Driving(t) /\ Ch(t) = c /\ Phase(t) /\ call[t].left > 0
                                 /\ pc[t] = "down"
<1>1. PICK t \in Threads : Driving(t) /\ Ch(t) = c /\ Phase(t) /\ call[t].left > 0
  BY Driver DEF Quiet
<1>2. pc[t] \in {"down", "busy_wait"}
  BY <1>1 DEF Phase, Quiet, AtTransfer, Driving, IInv, TypeOK
<1>3. pc[t] = "down"
  <2> SUFFICES ASSUME pc[t] = "busy_wait" PROVE FALSE
    BY <1>2
  <2>1. call[t].kind = "identify"
    BY <1>1 DEF Phase, AtBusyWait
  <2>2. t = main
    BY <2>1, <1>1 DEF IInv, BootInv, Threads, Driving
  <2> QED BY <2>2 DEF IntrOn, Booted
<1> QED BY <1>1, <1>3 DEF Phase, AtDown

LEMMA HandlerStep ==
    ASSUME IInv, NEW c \in Channels, intr_hd_handler(c) PROVE IInv'
<1>1. irq[c] = "requested" /\ IntrOn
  BY DEF intr_hd_handler
<1>2. PICK t \in Threads : Driving(t) /\ Ch(t) = c /\ Phase(t) /\ call[t].left > 0 /\ pc[t] = "down"
  BY <1>1, Expected
<1>3. expecting[c] /\ disk_done[c] = 0
  BY <1>1, Expected
<1>4. /\ expecting' = [expecting EXCEPT ![c] = FALSE]
      /\ disk_done' = [disk_done EXCEPT ![c] = 1]
      /\ irq' = [irq EXCEPT ![c] = "low"]
      /\ UNCHANGED <<todo, selected, drive, holder, pc, call, panic>>
  BY <1>3 DEF intr_hd_handler
<1>5. TypeOK'
  BY <1>4 DEF IInv, TypeOK
<1>6. Apart(t, Ch(t))
  BY <1>2, <1>4 DEF Apart
<1>7. Ch(t)' = Ch(t) /\ Driving(t)'
  BY <1>2, <1>4 DEF Ch, Driving
<1>8. Phase(t)'
  BY <1>1, <1>2, <1>3, <1>4, <1>7 DEF Phase, Own, AtDown, IInv, TypeOK
<1> QED BY <1>2, <1>4, <1>5, <1>6, <1>7, <1>8, DriverStep DEF IInv, PhaseInv

LEMMA AnswerStep ==
    ASSUME IInv, NEW c \in Channels, Answer(c) PROVE IInv'
<1>1. drive[c].state = "busy"
  BY DEF Answer
<1>2. PICK t \in Threads : Driving(t) /\ Ch(t) = c /\ Phase(t) /\ call[t].left > 0
  BY <1>1, Driver DEF Quiet
<1>3. pc[t] \in {"down", "busy_wait"} /\ drive[c].kind = call[t].kind
  BY <1>1, <1>2 DEF Phase, Own, Quiet, AtTransfer, Driving, IInv, TypeOK
<1>4. PICK s \in {"drq", "idle"}, line \in {"low", "requested"} :
          /\ Drive(c, s, line)
          /\ IF call[t].kind = "write" THEN s = "drq" /\ line = "low" ELSE line = "requested"
  BY <1>3 DEF Answer
<1>5. /\ drive' = [drive EXCEPT ![c].state = s] /\ irq' = [irq EXCEPT ![c] = line]
      /\ UNCHANGED <<todo, selected, expecting, disk_done, holder, pc, call, panic>>
  BY <1>4 DEF Drive, driver
<1>6. TypeOK'
  <2>1. drive' \in [Channels -> [state : {"idle", "busy", "drq", "writing"},
                                by : Threads, kind : Kinds, disk : Disks]]
    BY <1>5, DriveState
  <2>2. irq' \in [Channels -> {"low", "requested", "serviced"}]
    BY <1>5 DEF IInv, TypeOK
  <2> QED BY <1>5, <2>1, <2>2 DEF IInv, TypeOK
<1>7. Apart(t, Ch(t))
  BY <1>2, <1>5 DEF Apart, IInv, TypeOK
<1>8. Ch(t)' = Ch(t) /\ Driving(t)'
  BY <1>2, <1>5 DEF Ch, Driving
<1>9. /\ drive'[c].state = s /\ drive'[c].by = drive[c].by /\ drive'[c].kind = drive[c].kind
      /\ drive'[c].disk = drive[c].disk /\ irq'[c] = line
  BY <1>5 DEF IInv, TypeOK
<1>10. Phase(t)'
  BY <1>1, <1>2, <1>3, <1>4, <1>5, <1>8, <1>9
     DEF Phase, Own, AtDown, AtBusyWait, IInv, TypeOK, Kinds
<1> QED BY <1>2, <1>5, <1>6, <1>7, <1>8, <1>10, DriverStep DEF IInv, PhaseInv

LEMMA WrittenStep ==
    ASSUME IInv, NEW c \in Channels, Written(c) PROVE IInv'
<1>1. drive[c].state = "writing"
  BY DEF Written
<1>2. PICK t \in Threads : Driving(t) /\ Ch(t) = c /\ Phase(t) /\ call[t].left > 0
  BY <1>1, Driver DEF Quiet
<1>3. pc[t] = "down" /\ call[t].kind = "write"
  BY <1>1, <1>2 DEF Phase, Own, Quiet, AtTransfer, AtDown, AtBusyWait, Driving, IInv, TypeOK, Kinds
<1>4. /\ drive' = [drive EXCEPT ![c].state = "idle"]
      /\ irq' = [irq EXCEPT ![c] = "requested"]
      /\ UNCHANGED <<todo, selected, expecting, disk_done, holder, pc, call, panic>>
  BY DEF Written, Drive, driver
<1>5. TypeOK'
  <2>1. drive' \in [Channels -> [state : {"idle", "busy", "drq", "writing"},
                                by : Threads, kind : Kinds, disk : Disks]]
    BY <1>4, DriveState
  <2>2. irq' \in [Channels -> {"low", "requested", "serviced"}]
    BY <1>4 DEF IInv, TypeOK
  <2> QED BY <1>4, <2>1, <2>2 DEF IInv, TypeOK
<1>6. Apart(t, Ch(t))
  BY <1>2, <1>4 DEF Apart, IInv, TypeOK
<1>7. Ch(t)' = Ch(t) /\ Driving(t)'
  BY <1>2, <1>4 DEF Ch, Driving
<1>8. /\ drive'[c].state = "idle" /\ drive'[c].by = drive[c].by /\ drive'[c].kind = drive[c].kind
      /\ drive'[c].disk = drive[c].disk /\ irq'[c] = "requested"
  BY <1>4 DEF IInv, TypeOK
<1>9. Phase(t)'
  BY <1>1, <1>2, <1>3, <1>4, <1>7, <1>8 DEF Phase, Own, AtDown, IInv, TypeOK, Kinds
<1> QED BY <1>2, <1>4, <1>5, <1>6, <1>7, <1>9, DriverStep DEF IInv, PhaseInv

-----------------------------------------------------------------------------
(* The theorems *)

LEMMA NextIInv == IInv /\ [Next]_vars => IInv'
<1> SUFFICES ASSUME IInv, [Next]_vars PROVE IInv'
  OBVIOUS
<1>1. CASE InitStep
  BY <1>1, InitStepStep
<1>2. ASSUME NEW t \in Workers, Use(t) PROVE IInv'
  BY <1>2, UseStep
<1>3. ASSUME NEW t \in Threads, Step(t) PROVE IInv'
  BY <1>3, TakeLockStep, SelectStep, ExpectStep, CommandStep, DownStep, BusyWaitStep,
     TransferStep, NextOpStep DEF Step
<1>4. ASSUME NEW c \in Channels, intr_hd_handler(c) \/ Answer(c) \/ Written(c) PROVE IInv'
  BY <1>4, HandlerStep, AnswerStep, WrittenStep
<1>5. CASE UNCHANGED vars
  <2>1. UNCHANGED <<todo, selected, drive, irq, expecting, disk_done, holder, pc, call, panic>>
    BY <1>5 DEF vars, drives, driver
  <2>2. TypeOK'
    BY <2>1 DEF IInv, TypeOK
  <2>3. BootInv' /\ HolderInv'
    BY <2>1 DEF IInv, BootInv, HolderInv, Booted, Drives, Driving, Ch
  <2>4. PhaseInv'
    BY <2>1 DEF IInv, PhaseInv, Phase, Own, Quiet, Drives, Driving, Ch
  <2> QED BY <2>2, <2>3, <2>4 DEF IInv
<1> QED BY <1>1, <1>2, <1>3, <1>4, <1>5 DEF Next

LEMMA Invariance == Spec => []IInv
BY InitIInv, NextIInv, PTL DEF Spec

\* Every variable keeps its type: no call goes on after its last command.
THEOREM TypeCorrect == Spec => []TypeOK
<1>1. IInv => TypeOK
  BY DEF IInv
<1> QED BY <1>1, Invariance, PTL

\* The data a thread moves is the answer to its own command, for any number of
\* threads on both disks of a channel (ide_read, ide_write, identify_disk).
THEOREM OwnDataMoved == Spec => []OwnData
<1>1. ASSUME IInv PROVE OwnData
  <2> SUFFICES ASSUME NEW t \in Threads, pc[t] = "transfer"
               PROVE  drive[Ch(t)] = [state |-> "drq", by |-> t, kind |-> call[t].kind,
                                      disk |-> call[t].disk]
    BY DEF OwnData
  <2>1. Phase(t)
    BY <1>1 DEF IInv, PhaseInv, Driving
  <2>2. drive[Ch(t)] \in [state : {"idle", "busy", "drq", "writing"},
                         by : Threads, kind : Kinds, disk : Disks]
    BY <1>1 DEF IInv, TypeOK, Ch
  <2> QED BY <2>1, <2>2 DEF Phase, Own, AtTransfer
<1> QED BY <1>1, Invariance, PTL

\* No interrupt and no token of a call outlives it, and no interrupt finds the
\* token of an earlier one (intr_hd_handler, ide.c:181).
THEOREM NothingIsLeftOver == Spec => []NothingLeftOver
<1>1. ASSUME IInv PROVE NothingLeftOver
  <2>1. ASSUME Booted, NEW c \in Channels, holder[c] = None PROVE Quiet(c)
    <3>1. ASSUME NEW t \in Threads, Drives(t, c) PROVE FALSE
      <4>1. call[t].kind = "identify"
        BY <1>1, <2>1, <3>1, IdeAssumption DEF IInv, HolderInv, Threads, IdeAssumption
      <4> QED BY <1>1, <2>1, <3>1, <4>1 DEF IInv, BootInv, Booted, Threads, Drives, Driving
    <3> QED BY <1>1, <3>1 DEF IInv, PhaseInv
  <2> QED BY <1>1, <2>1 DEF NothingLeftOver, Quiet, IInv, PhaseInv
<1> QED BY <1>1, Invariance, PTL

\* An interrupt that is let in was announced by a command that is under way, and
\* finds no token: intr_hd_handler's test of expecting_intr never fails.
THEOREM InterruptExpected ==
    Spec => [](\A c \in Channels :
                  irq[c] = "requested" /\ IntrOn => expecting[c] /\ disk_done[c] = 0)
<1>1. IInv => \A c \in Channels :
          irq[c] = "requested" /\ IntrOn => expecting[c] /\ disk_done[c] = 0
  BY Expected
<1> QED BY <1>1, Invariance, PTL

-----------------------------------------------------------------------------
(* The keyboard: the inductive invariant. *)

\* The i-th byte of w is a make or break code of a key of flag f.
KindOfByte(w, kind, f, i) == w[i] \in {kind} \X Modifiers[f]

\* The last byte of w about f clears it, and there is one if f is set.
Cleared(w, f, set) ==
    /\ set => \E i \in 1 .. Len(w) : KindOfByte(w, "break", f, i)
    /\ \A i \in 1 .. Len(w) : KindOfByte(w, "make", f, i) =>
          \E j \in i + 1 .. Len(w) : KindOfByte(w, "break", f, j)

\* What the keyboard has said last of f is that it is set.
Pressed(f) == Held(f) \/ (f = "shift" /\ fake)

\* Once no key of a flag is held, nor a fake one, its last byte on the wire
\* clears it.
ClearInv == \A f \in Flags : ~Pressed(f) => Cleared(wire, f, status[f])

\* How many characters ago the one in slot i was put there.
Age(i) == IF i < head THEN head - i ELSE head - i + bufsize

\* The slots from tail up to head.
InRing(i) == IF tail <= head THEN tail <= i /\ i < head ELSE tail <= i \/ i < head

RingInv == \A i \in 0 .. bufsize - 1 : InRing(i) => buf[i] = typed + 1 - Age(i)

KeyboardInv == KeyboardTypeOK /\ ClearInv /\ RingInv

-----------------------------------------------------------------------------
(* The keyboard: what is on the wire. *)

LEMMA KbdInit == KeyboardInit => KeyboardInv
<1>. SUFFICES ASSUME KeyboardInit PROVE KeyboardInv
  OBVIOUS
<1>. bufsize \in Nat \ {0, 1} /\ MaxTyped \in Nat
  BY KeyboardAssumption
<1>1. KeyboardTypeOK
  <2>1. wire \in Seq({<<"prefix", "e0">>} \cup {"make", "break"} \X Codes)
    BY DEF KeyboardInit
  <2>2. down = {} /\ fake = FALSE /\ status \in [Flags -> BOOLEAN] /\ caps_lock_status \in BOOLEAN /\ ext_scancode \in BOOLEAN
    BY DEF KeyboardInit
  <2>3. {head, tail} \subseteq 0 .. bufsize - 1 /\ buf \in [0 .. bufsize - 1 -> 0 .. MaxTyped]
    BY DEF KeyboardInit
  <2>4. /\ reader \in [Readers -> {"running", "asleep", "locked_out"}]
        /\ consumer = NULL /\ queue_lock = NULL
        /\ typed \in 0 .. MaxTyped /\ got \in 0 .. typed
    BY DEF KeyboardInit
  <2>. QED  BY <2>1, <2>2, <2>3, <2>4 DEF KeyboardTypeOK
<1>2. ClearInv
  BY DEF KeyboardInit, ClearInv, Cleared
<1>3. RingInv
  BY DEF KeyboardInit, RingInv, InRing
<1>. QED  BY <1>1, <1>2, <1>3 DEF KeyboardInv

WireBytes == {<<"prefix", "e0">>} \cup {"make", "break"} \X Codes

\* The codes of a flag's keys are its own.
LEMMA CodeOfFlag ==
    ASSUME NEW k \in Keys, NEW f \in Flags
    PROVE  Code(k) \in Modifiers[f] <=> k \in Modifiers[f]
<1>1. k \in {"char", "grey", "caps_lock", "shift_l", "shift_r", "ctrl_l", "ctrl_r", "alt_l", "alt_r"}
  BY KeyboardAssumption DEF ModifierKeys, Flags, Modifiers
<1>. QED  BY <1>1 DEF Flags, Modifiers, Code

\* A code is that of one flag at most.
LEMMA FlagOfCode ==
    ASSUME NEW code \in ModifierKeys
    PROVE  /\ FlagOf(code) \in Flags
           /\ \A f \in Flags : code \in Modifiers[f] <=> f = FlagOf(code)
<1>1. \E f \in Flags : code \in Modifiers[f]
  BY DEF ModifierKeys
<1>2. FlagOf(code) \in Flags /\ code \in Modifiers[FlagOf(code)]
  BY <1>1 DEF FlagOf
<1>3. \A f, g \in Flags : code \in Modifiers[f] /\ code \in Modifiers[g] => f = g
  BY DEF Flags, Modifiers
<1>. QED  BY <1>2, <1>3

\* What a key sends.
LEMMA Sent ==
    ASSUME NEW kind \in {"make", "break"}, NEW k \in Keys
    PROVE  /\ Bytes(kind, k) \in Seq(WireBytes) /\ Len(Bytes(kind, k)) \in 1 .. 2
           /\ Bytes(kind, k)[Len(Bytes(kind, k))] = <<kind, Code(k)>>
           /\ \A i \in 1 .. Len(Bytes(kind, k)) - 1 : Bytes(kind, k)[i] = <<"prefix", "e0">>
<1>. DEFINE last == <<kind, Code(k)>>  pre == <<"prefix", "e0">>
<1>1. last \in WireBytes /\ pre \in WireBytes
  BY DEF WireBytes, Codes
<1>2. CASE k \in Extended
  <2>1. Bytes(kind, k) = <<pre>> \o <<last>>
    BY <1>2 DEF Bytes
  <2>2. <<pre>> \in Seq(WireBytes) /\ <<last>> \in Seq(WireBytes)
    BY <1>1
  <2>3. /\ Bytes(kind, k) \in Seq(WireBytes)
        /\ Len(Bytes(kind, k)) = Len(<<pre>>) + Len(<<last>>)
        /\ \A i \in 1 .. Len(<<pre>>) + Len(<<last>>) :
              Bytes(kind, k)[i] = IF i <= Len(<<pre>>) THEN <<pre>>[i]
                                      ELSE <<last>>[i - Len(<<pre>>)]
    BY <2>1, <2>2, ConcatProperties
  <2>. QED  BY <2>3
<1>3. CASE k \notin Extended
  <2>1. Bytes(kind, k) = <<>> \o <<last>>
    BY <1>3 DEF Bytes
  <2>2. <<>> \o <<last>> = <<last>>
    OBVIOUS
  <2>. QED  BY <1>1, <2>1, <2>2
<1>. QED  BY <1>2, <1>3

\* One or two bytes, the last of which is a code of the given kind.
EndsIn(bytes, kind, code) ==
    /\ Len(bytes) \in 1 .. 2 /\ bytes[Len(bytes)] = <<kind, code>>
    /\ \A i \in 1 .. Len(bytes) - 1 : bytes[i] = <<"prefix", "e0">>

\* Such bytes behind the others clear the flag of a break code, and leave the
\* flags of other keys as they were.
LEMMA Appended ==
    ASSUME NEW w \in Seq(WireBytes), NEW bytes \in Seq(WireBytes), NEW f \in Flags,
           NEW kind \in {"make", "break"}, NEW code, NEW set,
           EndsIn(bytes, kind, code),
           \/ code \in Modifiers[f] /\ kind = "break"
           \/ code \notin Modifiers[f] /\ Cleared(w, f, set)
    PROVE  Cleared(w \o bytes, f, set)
<1>e. /\ Len(bytes) \in 1 .. 2 /\ bytes[Len(bytes)] = <<kind, code>>
      /\ \A i \in 1 .. Len(bytes) - 1 : bytes[i] = <<"prefix", "e0">>
  BY DEF EndsIn
<1>n. PICK n \in Nat : n = Len(w)
  OBVIOUS
<1>m. PICK m \in 1 .. 2 : m = Len(bytes)
  BY <1>e
<1>w. PICK ww : ww = w \o bytes
  OBVIOUS
<1>2. /\ ww \in Seq(WireBytes) /\ Len(ww) = n + m
      /\ \A i \in 1 .. n + m : ww[i] = IF i <= n THEN w[i] ELSE bytes[i - n]
  BY <1>n, <1>m, <1>w, ConcatProperties
<1>3. /\ ww[n + m] = <<kind, code>>
      /\ \A i \in 1 .. n : ww[i] = w[i]
      /\ \A i \in n + 1 .. n + m - 1 : ww[i] = <<"prefix", "e0">>
  <2>1. n + m \in 1 .. n + m /\ ~(n + m <= n) /\ (n + m) - n = m
    OBVIOUS
  <2>2. ww[n + m] = bytes[m]
    BY <1>2, <2>1
  <2>3. \A i \in 1 .. n : i \in 1 .. n + m /\ i <= n
    OBVIOUS
  <2>4. \A i \in n + 1 .. n + m - 1 : i \in 1 .. n + m /\ ~(i <= n) /\ i - n \in 1 .. m - 1
    OBVIOUS
  <2>. QED  BY <1>2, <1>e, <1>m, <2>2, <2>3, <2>4
<1>4. /\ set => \E i \in 1 .. Len(ww) : KindOfByte(ww, "break", f, i)
      /\ \A i \in 1 .. Len(ww) : KindOfByte(ww, "make", f, i) =>
            \E j \in i + 1 .. Len(ww) : KindOfByte(ww, "break", f, j)
  <2>2. CASE code \in Modifiers[f]
    <3>1. kind = "break"
      BY <2>2
    <3>2. n + m \in 1 .. Len(ww) /\ KindOfByte(ww, "break", f, n + m)
      <4>1. n + m \in 1 .. Len(ww)
        BY <1>2
      <4>. QED  BY <1>3, <2>2, <3>1, <4>1 DEF KindOfByte
    <3>3. \A i \in 1 .. Len(ww) : KindOfByte(ww, "make", f, i) => i < n + m
      <4>1. \A i \in 1 .. Len(ww) : i < n + m \/ i = n + m
        BY <1>2
      <4>2. ~KindOfByte(ww, "make", f, n + m)
        BY <1>3, <3>1 DEF KindOfByte
      <4>. QED  BY <4>1, <4>2
    <3>4. \A i \in 1 .. Len(ww) : i < n + m => n + m \in i + 1 .. Len(ww)
      BY <1>2
    <3>. QED  BY <3>2, <3>3, <3>4
  <2>3. CASE code \notin Modifiers[f]
    <3>1. \A i \in 1 .. Len(ww), kd \in {"make", "break"} : KindOfByte(ww, kd, f, i) =>
              i \in 1 .. n /\ KindOfByte(w, kd, f, i)
      <4>1. \A i \in 1 .. Len(ww) : i \in 1 .. n \/ i \in n + 1 .. n + m - 1 \/ i = n + m
        BY <1>2
      <4>2. \A kd \in {"make", "break"} : ~KindOfByte(ww, kd, f, n + m)
        BY <1>3, <2>3 DEF KindOfByte
      <4>3. \A i \in n + 1 .. n + m - 1, kd \in {"make", "break"} : ~KindOfByte(ww, kd, f, i)
        <5>1. \A kd \in {"make", "break"} : <<"prefix", "e0">> \notin {kd} \X Modifiers[f]
          OBVIOUS
        <5>. QED  BY <1>3, <5>1 DEF KindOfByte
      <4>4. \A i \in 1 .. n, kd \in {"make", "break"} :
                KindOfByte(ww, kd, f, i) => KindOfByte(w, kd, f, i)
        BY <1>3 DEF KindOfByte
      <4>. QED  BY <4>1, <4>2, <4>3, <4>4
    <3>2. \A i \in 1 .. n : /\ i \in 1 .. Len(ww)
                            /\ KindOfByte(w, "break", f, i) => KindOfByte(ww, "break", f, i)
      <4>1. \A i \in 1 .. n : i \in 1 .. Len(ww)
        BY <1>2
      <4>2. \A i \in 1 .. n : KindOfByte(w, "break", f, i) => KindOfByte(ww, "break", f, i)
        BY <1>3 DEF KindOfByte
      <4>. QED  BY <4>1, <4>2
    <3>3. Cleared(w, f, set)
      BY <2>3
    <3>4. /\ set => \E i \in 1 .. n : KindOfByte(w, "break", f, i)
          /\ \A i \in 1 .. n : KindOfByte(w, "make", f, i) =>
                \E j \in i + 1 .. n : KindOfByte(w, "break", f, j)
      BY <1>n, <3>3 DEF Cleared
    <3>5. set => \E i \in 1 .. Len(ww) : KindOfByte(ww, "break", f, i)
      BY <3>2, <3>4
    <3>6. ASSUME NEW i \in 1 .. Len(ww), KindOfByte(ww, "make", f, i)
          PROVE  \E j \in i + 1 .. Len(ww) : KindOfByte(ww, "break", f, j)
      <4>1. i \in 1 .. n /\ KindOfByte(w, "make", f, i)
        BY <3>1, <3>6
      <4>2. PICK j \in i + 1 .. n : KindOfByte(w, "break", f, j)
        BY <3>4, <4>1
      <4>3. j \in 1 .. n /\ j \in i + 1 .. Len(ww)
        BY <1>2, <4>1
      <4>. QED  BY <3>2, <4>2, <4>3
    <3>. QED  BY <3>5, <3>6
  <2>. QED  BY <2>2, <2>3
<1>. QED  BY <1>2, <1>4, <1>w DEF Cleared

\* The same of a fake shift code, if there is one.
LEMMA FakeAppended ==
    ASSUME NEW w \in Seq(WireBytes), NEW f \in Flags, NEW set,
           NEW kind \in {"none", "make", "break"},
           \/ f = "shift" /\ kind = "break"
           \/ (f # "shift" \/ kind = "none") /\ Cleared(w, f, set)
    PROVE  Cleared(w \o Fake(kind), f, set)
<1>1. CASE kind = "none"
  <2>1. w \o Fake(kind) = w
    BY <1>1 DEF Fake
  <2>. QED  BY <1>1, <2>1
<1>2. CASE kind # "none"
  <2>. DEFINE b == << <<"prefix", "e0">>, <<kind, "shift_l">> >>
  <2>1. Fake(kind) = b
    BY <1>2 DEF Fake
  <2>2. <<"prefix", "e0">> \in WireBytes /\ <<kind, "shift_l">> \in WireBytes
    BY <1>2 DEF WireBytes, Codes
  <2>3. b \in Seq(WireBytes) /\ EndsIn(b, kind, "shift_l")
    BY <2>2 DEF EndsIn
  <2>4. "shift_l" \in Modifiers[f] <=> f = "shift"
    BY DEF Flags, Modifiers
  <2>. HIDE DEF b
  <2>5. Cleared(w \o b, f, set)
    BY <1>2, <2>3, <2>4, Appended
  <2>. QED  BY <2>1, <2>5
<1>. QED  BY <1>1, <1>2

\* A key that is pressed or released sends its bytes behind the others.
LEMMA KeyStep ==
    ASSUME KeyboardTypeOK, ClearInv, NEW k \in Keys, Press(k) \/ Release(k)
    PROVE  ClearInv' /\ wire' \in Seq(WireBytes) /\ fake' \in BOOLEAN
<1>1. wire \in Seq(WireBytes) /\ fake \in BOOLEAN /\ status' = status /\ status \in [Flags -> BOOLEAN]
  BY DEF KeyboardTypeOK, WireBytes, Press, Release, Send, modes
<1>2. PICK kind \in {"none", "make", "break"} :
          /\ fake' = (kind = "make" \/ (kind = "none" /\ fake /\ k \notin Modifiers["shift"]))
          /\ \/ /\ down' = down \cup {k}
                /\ wire' = wire \o (Fake(kind) \o Bytes("make", k))
             \/ /\ down' = down \ {k}
                /\ wire' = wire \o (Bytes("break", k) \o Fake(kind))
  BY DEF Press, Release, Send, Before, Behind
<1>3. fake' \in BOOLEAN /\ Fake(kind) \in Seq(WireBytes)
  <2>1. <<"prefix", "e0">> \in WireBytes /\ (kind # "none" => <<kind, "shift_l">> \in WireBytes)
    BY DEF WireBytes, Codes
  <2>. QED  BY <1>2, <2>1 DEF Fake
<1>4. PICK c : c = Code(k)
  OBVIOUS
<1>f. PICK fk \in Seq(WireBytes) : fk = Fake(kind)
  BY <1>3
<1>b. ASSUME NEW kd \in {"make", "break"}
      PROVE  Bytes(kd, k) \in Seq(WireBytes) /\ EndsIn(Bytes(kd, k), kd, c)
  BY <1>4, Sent DEF EndsIn
<1>5. ASSUME NEW f \in Flags
      PROVE  wire' \in Seq(WireBytes) /\ (~Pressed(f)' => Cleared(wire', f, status[f]))
  <2>1. c \in Modifiers[f] <=> k \in Modifiers[f]
    BY <1>4, CodeOfFlag
  <2>2. ~Pressed(f) => Cleared(wire, f, status[f])
    BY DEF ClearInv
  <2>3. CASE /\ down' = down \cup {k}
             /\ wire' = wire \o (Fake(kind) \o Bytes("make", k))
    <3>. PICK b \in Seq(WireBytes) : b = Bytes("make", k) /\ EndsIn(b, "make", c)
      BY <1>b
    <3>. PICK w : w = wire \o fk
      OBVIOUS
    <3>1. w \in Seq(WireBytes) /\ w \o b \in Seq(WireBytes) /\ wire' = w \o b
      <4>1. (wire \o fk) \o b = wire \o (fk \o b)
        BY <1>1, <1>f, ConcatAssociative
      <4>2. w \in Seq(WireBytes)
        BY <1>1, ConcatProperties
      <4>. QED  BY <1>f, <2>3, <4>1, <4>2, ConcatProperties
    <3>2. ASSUME ~Pressed(f)' PROVE Cleared(wire', f, status[f])
      <4>1. /\ k \notin Modifiers[f] /\ ~Held(f) /\ (f = "shift" => kind # "make")
            /\ f = "shift" /\ kind = "none" => ~fake
        BY <1>2, <2>3, <3>2 DEF Pressed, Held
      <4>2. Cleared(w, f, status[f])
        BY <1>1, <1>f, <2>2, <4>1, FakeAppended DEF Pressed
      <4>. QED  BY <2>1, <3>1, <4>1, <4>2, Appended
    <3>. QED  BY <3>1, <3>2
  <2>4. CASE /\ down' = down \ {k}
             /\ wire' = wire \o (Bytes("break", k) \o Fake(kind))
    <3>. PICK b \in Seq(WireBytes) : b = Bytes("break", k) /\ EndsIn(b, "break", c)
      BY <1>b
    <3>. PICK w : w = wire \o b
      OBVIOUS
    <3>1. w \in Seq(WireBytes) /\ w \o fk \in Seq(WireBytes) /\ wire' = w \o fk
      <4>1. wire \o (b \o fk) = w \o fk
        BY <1>1, ConcatAssociative
      <4>2. w \in Seq(WireBytes)
        BY <1>1, ConcatProperties
      <4>. QED  BY <1>f, <2>4, <4>1, <4>2, ConcatProperties
    <3>2. ASSUME ~Pressed(f)' PROVE Cleared(wire', f, status[f])
      <4>1. (f = "shift" => kind # "make") /\ (k \notin Modifiers[f] => ~Held(f))
        BY <1>2, <2>4, <3>2 DEF Pressed, Held
      <4>2. f = "shift" /\ kind = "none" /\ k \notin Modifiers[f] => ~fake
        BY <1>2, <3>2 DEF Pressed
      <4>3. CASE f = "shift" /\ kind = "break"
        BY <1>f, <3>1, <4>3, FakeAppended
      <4>4. CASE f # "shift" \/ kind = "none"
        <5>1. k \notin Modifiers[f] => Cleared(wire, f, status[f])
          BY <2>2, <4>1, <4>2, <4>4 DEF Pressed
        <5>2. Cleared(w, f, status[f])
          BY <1>1, <2>1, <5>1, Appended
        <5>. QED  BY <1>f, <3>1, <4>4, <5>2, FakeAppended
      <4>. QED  BY <4>1, <4>3, <4>4
    <3>. QED  BY <3>1, <3>2
  <2>. QED  BY <1>2, <2>3, <2>4
<1>6. wire' \in Seq(WireBytes)
  BY <1>5 DEF Flags, Modifiers
<1>. QED  BY <1>1, <1>3, <1>5, <1>6 DEF ClearInv

\* The handler has read the first byte and set or cleared a flag accordingly.
LEMMA ByteStep ==
    ASSUME KeyboardTypeOK, ClearInv, wire # <<>>, wire' = Tail(wire),
           down' = down, fake' = fake,
           \A f \in Flags : status'[f] =>
               \/ status[f] /\ ~KindOfByte(wire, "break", f, 1)
               \/ KindOfByte(wire, "make", f, 1)
    PROVE  ClearInv' /\ wire' \in Seq(WireBytes)
<1>. DEFINE n == Len(wire)
<1>1. wire \in Seq(WireBytes) /\ n \in Nat /\ n > 0
  BY DEF KeyboardTypeOK, WireBytes
<1>. PICK w : w = wire'
  OBVIOUS
<1>2. /\ w \in Seq(WireBytes) /\ Len(w) = n - 1
      /\ \A i \in 1 .. n - 1 : w[i] = wire[i + 1]
  BY <1>1, HeadTailProperties
<1>3. ASSUME NEW f \in Flags, ~Pressed(f)
      PROVE  /\ status'[f] => \E i \in 1 .. Len(w) : KindOfByte(w, "break", f, i)
             /\ \A i \in 1 .. Len(w) : KindOfByte(w, "make", f, i) =>
                   \E j \in i + 1 .. Len(w) : KindOfByte(w, "break", f, j)
  <2>1. \A i \in 1 .. n - 1, kd \in {"make", "break"} :
            KindOfByte(w, kd, f, i) <=> KindOfByte(wire, kd, f, i + 1)
    BY <1>2 DEF KindOfByte
  <2>2. /\ status[f] => \E i \in 1 .. n : KindOfByte(wire, "break", f, i)
        /\ \A i \in 1 .. n : KindOfByte(wire, "make", f, i) =>
              \E j \in i + 1 .. n : KindOfByte(wire, "break", f, j)
    BY <1>3 DEF ClearInv, Cleared
  <2>3. ASSUME status'[f] PROVE \E i \in 1 .. n - 1 : KindOfByte(w, "break", f, i)
    <3>1. PICK i \in 2 .. n : KindOfByte(wire, "break", f, i)
      BY <1>1, <2>2, <2>3
    <3>2. i - 1 \in 1 .. n - 1 /\ (i - 1) + 1 = i
      BY <1>1
    <3>. QED  BY <2>1, <3>1, <3>2
  <2>4. ASSUME NEW i \in 1 .. n - 1, KindOfByte(w, "make", f, i)
        PROVE  \E j \in i + 1 .. n - 1 : KindOfByte(w, "break", f, j)
    <3>1. PICK j \in i + 1 + 1 .. n : KindOfByte(wire, "break", f, j)
      BY <1>1, <2>1, <2>2, <2>4
    <3>2. j - 1 \in 1 .. n - 1 /\ j - 1 \in i + 1 .. n - 1 /\ (j - 1) + 1 = j
      BY <1>1
    <3>. QED  BY <2>1, <3>1, <3>2
  <2>. QED  BY <1>2, <2>3, <2>4
<1>4. \A f \in Flags : Pressed(f)' = Pressed(f)
  BY DEF Pressed, Held
<1>5. \A f \in Flags : ~Pressed(f)' => Cleared(wire', f, status'[f])
  BY <1>3, <1>4 DEF Cleared
<1>. QED  BY <1>2, <1>5 DEF ClearInv

\* The handler's step on a byte that is no character.
LEMMA ModeStep ==
    ASSUME KeyboardTypeOK, ClearInv,
           \/ Prefix \/ MakeCaps
           \/ \E code \in Codes : Break(code) \/ MakeModifier(code)
    PROVE  /\ ClearInv' /\ wire' \in Seq(WireBytes) /\ down' = down /\ fake' = fake
           /\ status' \in [Flags -> BOOLEAN]
           /\ caps_lock_status' \in BOOLEAN /\ ext_scancode' \in BOOLEAN
           /\ QueueUnchanged
<1>0. status \in [Flags -> BOOLEAN] /\ caps_lock_status \in BOOLEAN /\ ext_scancode \in BOOLEAN
  BY DEF KeyboardTypeOK
<1>1. CASE Prefix \/ MakeCaps
  <2>1. /\ wire # <<>> /\ wire' = Tail(wire) /\ down' = down /\ fake' = fake
        /\ status' = status
        /\ Head(wire) \in {<<"prefix", "e0">>, <<"make", "caps_lock">>}
        /\ caps_lock_status' \in BOOLEAN /\ ext_scancode' \in BOOLEAN /\ QueueUnchanged
    BY <1>0, <1>1 DEF Prefix, MakeCaps, Byte
  <2>2. \A f \in Flags : ~KindOfByte(wire, "break", f, 1)
    <3>1. wire[1] \in {<<"prefix", "e0">>, <<"make", "caps_lock">>}
      BY <2>1 DEF KeyboardTypeOK
    <3>. QED  BY <3>1 DEF KindOfByte
  <2>3. ClearInv' /\ wire' \in Seq(WireBytes)
    BY <2>1, <2>2, ByteStep
  <2>. QED  BY <1>0, <2>1, <2>3
<1>2. ASSUME NEW code \in Codes, Break(code)
      PROVE  /\ ClearInv' /\ wire' \in Seq(WireBytes) /\ down' = down /\ fake' = fake
             /\ status' \in [Flags -> BOOLEAN]
             /\ caps_lock_status' = caps_lock_status /\ ext_scancode' = ext_scancode
             /\ QueueUnchanged
  <2>1. /\ wire # <<>> /\ wire' = Tail(wire) /\ down' = down /\ fake' = fake
        /\ Head(wire) = <<"break", code>>
        /\ status' = IF code \in ModifierKeys
                     THEN [status EXCEPT ![FlagOf(code)] = FALSE] ELSE status
        /\ caps_lock_status' = caps_lock_status /\ ext_scancode' = ext_scancode
        /\ QueueUnchanged
    BY <1>2 DEF Break, Byte
  <2>2. wire[1] = <<"break", code>>
    BY <2>1 DEF KeyboardTypeOK
  <2>3. ASSUME NEW f \in Flags, status'[f]
        PROVE  status[f] /\ ~KindOfByte(wire, "break", f, 1)
    <3>1. CASE code \in ModifierKeys
      <4>1. f # FlagOf(code) /\ status[f]
        BY <1>0, <2>1, <2>3, <3>1, FlagOfCode
      <4>. QED  BY <2>2, <3>1, <4>1, FlagOfCode DEF KindOfByte
    <3>2. CASE code \notin ModifierKeys
      <4>1. code \notin Modifiers[f]
        BY <3>2 DEF ModifierKeys
      <4>. QED  BY <2>1, <2>2, <2>3, <3>2, <4>1 DEF KindOfByte
    <3>. QED  BY <3>1, <3>2
  <2>4. status' \in [Flags -> BOOLEAN]
    BY <1>0, <2>1
  <2>5. ClearInv' /\ wire' \in Seq(WireBytes)
    BY <2>1, <2>3, ByteStep
  <2>. QED  BY <2>1, <2>4, <2>5
<1>3. ASSUME NEW code \in Codes, MakeModifier(code)
      PROVE  /\ ClearInv' /\ wire' \in Seq(WireBytes) /\ down' = down /\ fake' = fake
             /\ status' \in [Flags -> BOOLEAN]
             /\ caps_lock_status' = caps_lock_status /\ ext_scancode' = ext_scancode
             /\ QueueUnchanged
  <2>1. /\ wire # <<>> /\ wire' = Tail(wire) /\ down' = down /\ fake' = fake
        /\ Head(wire) = <<"make", code>>
        /\ code \in ModifierKeys
        /\ status' = [status EXCEPT ![FlagOf(code)] = TRUE]
        /\ caps_lock_status' = caps_lock_status /\ ext_scancode' = ext_scancode
        /\ QueueUnchanged
    BY <1>3 DEF MakeModifier, Byte
  <2>2. wire[1] = <<"make", code>>
    BY <2>1 DEF KeyboardTypeOK
  <2>3. ASSUME NEW f \in Flags, status'[f]
        PROVE  \/ status[f] /\ ~KindOfByte(wire, "break", f, 1)
               \/ KindOfByte(wire, "make", f, 1)
    <3>1. CASE f = FlagOf(code)
      BY <2>1, <2>2, <3>1, FlagOfCode DEF KindOfByte
    <3>2. CASE f # FlagOf(code)
      <4>1. status[f]
        BY <1>0, <2>1, <2>3, <3>2
      <4>. QED  BY <2>2, <4>1 DEF KindOfByte
    <3>. QED  BY <3>1, <3>2
  <2>4. status' \in [Flags -> BOOLEAN]
    BY <1>0, <2>1
  <2>5. ClearInv' /\ wire' \in Seq(WireBytes)
    BY <2>1, <2>3, ByteStep
  <2>. QED  BY <2>1, <2>4, <2>5
<1>. QED  BY <1>0, <1>1, <1>2, <1>3

-----------------------------------------------------------------------------
(* The keyboard: what is in the ring. *)

\* The remainder of a difference below 0.
LEMMA ModBelow ==
    ASSUME NEW d \in Nat \ {0}, NEW x \in Int, x < 0, x + d >= 0
    PROVE  x % d = x + d
<1>1. /\ x % d \in 0 .. d - 1 /\ x \div d \in Int
      /\ x = (x \div d) * d + (x % d)
  OBVIOUS
<1>2. PICK q \in Int : q = x \div d
  BY <1>1
<1>3. PICK r \in 0 .. d - 1 : r = x % d
  BY <1>1
<1>4. x = q * d + r
  BY <1>1, <1>2, <1>3
<1>5. q = -1
  <2>1. CASE q >= 0
    <3>1. q * d >= 0
      BY <2>1
    <3>. QED  BY <1>4, <3>1
  <2>2. CASE q <= -2
    <3>1. PICK p \in Nat : q = -2 - p
      <4>1. -2 - q \in Nat /\ q = -2 - (-2 - q)
        BY <2>2
      <4>. QED  BY <4>1
    <3>2. q * d = -2 * d - p * d /\ p * d >= 0
      BY <3>1
    <3>. QED  BY <1>4, <3>2
  <2>. QED  BY <2>1, <2>2
<1>. QED  BY <1>3, <1>4, <1>5

\* One slot on.
LEMMA NextPos ==
    ASSUME NEW i \in 0 .. bufsize - 1
    PROVE  /\ next_pos(i) \in 0 .. bufsize - 1
           /\ next_pos(i) = IF i = bufsize - 1 THEN 0 ELSE i + 1
<1>1. bufsize \in Nat \ {0, 1}
  BY KeyboardAssumption
<1>2. CASE i = bufsize - 1
  <2>1. i + 1 = bufsize /\ bufsize % bufsize = 0
    BY <1>1, <1>2
  <2>. QED  BY <1>1, <1>2, <2>1 DEF next_pos
<1>3. CASE i # bufsize - 1
  <2>1. i + 1 \in 0 .. bufsize - 1
    BY <1>1, <1>3
  <2>2. (i + 1) % bufsize = i + 1
    BY <1>1, <2>1
  <2>. QED  BY <1>1, <1>3, <2>1, <2>2 DEF next_pos
<1>. QED  BY <1>2, <1>3

\* A character goes into the slot at head.
LEMMA CharStep ==
    ASSUME KeyboardTypeOK, RingInv, ~ioq_full, ioq_setchar,
           typed < MaxTyped
    PROVE  /\ RingInv' /\ head' # head /\ (head' = tail' => tail = 0)
           /\ head' \in 0 .. bufsize - 1 /\ tail' = tail
           /\ buf' \in [0 .. bufsize - 1 -> 0 .. MaxTyped]
           /\ typed' \in 0 .. MaxTyped /\ got' \in 0 .. typed'
<1>1. /\ bufsize \in Nat \ {0, 1} /\ MaxTyped \in Nat
      /\ head \in 0 .. bufsize - 1 /\ tail \in 0 .. bufsize - 1
      /\ buf \in [0 .. bufsize - 1 -> 0 .. MaxTyped]
      /\ typed \in 0 .. MaxTyped /\ got \in 0 .. typed
  BY KeyboardAssumption DEF KeyboardTypeOK
<1>2. /\ typed' = typed + 1 /\ buf' = [buf EXCEPT ![head] = typed + 1]
      /\ tail' = tail /\ got' = got
      /\ head' = IF head = bufsize - 1 THEN 0 ELSE head + 1
  BY <1>1, NextPos DEF ioq_setchar
<1>3. tail - head # 1
  BY DEF ioq_full
<1>4. ASSUME NEW i \in 0 .. bufsize - 1, InRing(i)'
      PROVE  buf'[i] = typed' + 1 - Age(i)'
  <2>1. CASE i = head
    <3>1. buf'[i] = typed + 1
      BY <1>1, <1>2, <2>1
    <3>2. Age(i)' = 1
      BY <1>1, <1>2, <2>1 DEF Age
    <3>. QED  BY <1>1, <1>2, <3>1, <3>2
  <2>2. CASE i # head
    <3>1. InRing(i)
      BY <1>1, <1>2, <1>3, <1>4, <2>2 DEF InRing
    <3>2. PICK a \in Int : a = Age(i)
      <4>1. Age(i) \in Int
        BY <1>1 DEF Age
      <4>. QED  BY <4>1
    <3>3. Age(i)' = a + 1
      BY <1>1, <1>2, <2>2, <3>2 DEF Age
    <3>4. buf'[i] = buf[i] /\ buf[i] = typed + 1 - a
      BY <1>1, <1>2, <2>2, <3>1, <3>2 DEF RingInv
    <3>. QED  BY <1>1, <1>2, <3>3, <3>4
  <2>. QED  BY <2>1, <2>2
<1>5. RingInv'
  BY <1>4 DEF RingInv
<1>. QED  BY <1>1, <1>2, <1>3, <1>5

\* A character is taken out of the slot at tail: the oldest.
LEMMA TakeStep ==
    ASSUME KeyboardTypeOK, RingInv, ~ioq_empty, Take,
           head' = head, buf' = buf, typed' = typed
    PROVE  /\ RingInv' /\ tail' \in 0 .. bufsize - 1
           /\ got' = typed + 1 - ((head - tail) % bufsize) /\ got' \in 0 .. typed
<1>1. /\ bufsize \in Nat \ {0, 1} /\ MaxTyped \in Nat
      /\ head \in 0 .. bufsize - 1 /\ tail \in 0 .. bufsize - 1
      /\ buf \in [0 .. bufsize - 1 -> 0 .. MaxTyped] /\ typed \in 0 .. MaxTyped
  BY KeyboardAssumption DEF KeyboardTypeOK
<1>2. /\ got' = buf[tail] /\ tail' = IF tail = bufsize - 1 THEN 0 ELSE tail + 1
      /\ tail' \in 0 .. bufsize - 1
  BY <1>1, NextPos DEF Take
<1>3. tail # head
  BY DEF ioq_empty
<1>4. \A i \in 0 .. bufsize - 1 : InRing(i)' => InRing(i) /\ Age(i)' = Age(i)
  BY <1>1, <1>2, <1>3 DEF InRing, Age
<1>5. RingInv'
  BY <1>4 DEF RingInv
<1>6. InRing(tail) /\ Age(tail) \in 1 .. bufsize - 1
  BY <1>1, <1>3 DEF InRing, Age
<1>7. (head - tail) % bufsize = Age(tail)
  <2>1. CASE tail < head
    <3>1. PICK x \in 0 .. bufsize - 1 : x = head - tail
      BY <1>1, <2>1
    <3>2. x % bufsize = x
      BY <1>1
    <3>. QED  BY <1>1, <2>1, <3>1, <3>2 DEF Age
  <2>2. CASE head < tail
    <3>1. head - tail + bufsize \in 0 .. bufsize - 1
      BY <1>1, <2>2
    <3>2. (head - tail) % bufsize = head - tail + bufsize
      <4>1. PICK x \in Int : x = head - tail /\ x < 0 /\ x + bufsize >= 0
        BY <1>1, <2>2
      <4>2. x % bufsize = x + bufsize
        BY <1>1, <4>1, ModBelow
      <4>. QED  BY <4>1, <4>2
    <3>. QED  BY <1>1, <2>2, <3>2 DEF Age
  <2>. QED  BY <1>1, <1>3, <2>1, <2>2
<1>8. buf[tail] = typed + 1 - Age(tail)
  BY <1>1, <1>6 DEF RingInv
<1>. QED  BY <1>1, <1>2, <1>5, <1>6, <1>7, <1>8

\* Every step keeps the invariant, and takes the oldest character.
LEMMA KeyboardStep ==
    ASSUME KeyboardInv, KeyboardNext
    PROVE  /\ KeyboardInv'
           /\ tail' # tail => got' = typed + 1 - ((head - tail) % bufsize)
           /\ head' # head /\ head' = tail' => tail = 0
<1>. USE DEF KeyboardInv
<1>0. /\ down \subseteq Keys /\ fake \in BOOLEAN /\ wire \in Seq(WireBytes)
      /\ status \in [Flags -> BOOLEAN]
      /\ caps_lock_status \in BOOLEAN /\ ext_scancode \in BOOLEAN
      /\ {head, tail} \subseteq 0 .. bufsize - 1
      /\ buf \in [0 .. bufsize - 1 -> 0 .. MaxTyped]
      /\ consumer \in Readers \cup {NULL} /\ queue_lock \in Readers \cup {NULL}
      /\ reader \in [Readers -> {"running", "asleep", "locked_out"}]
      /\ typed \in 0 .. MaxTyped /\ got \in 0 .. typed
  BY DEF KeyboardTypeOK, WireBytes, Codes
<1>. DEFINE Modes == /\ down' \subseteq Keys /\ fake' \in BOOLEAN /\ wire' \in Seq(WireBytes) /\ ClearInv'
                     /\ status' \in [Flags -> BOOLEAN]
                     /\ caps_lock_status' \in BOOLEAN /\ ext_scancode' \in BOOLEAN
            Queue == /\ {head', tail'} \subseteq 0 .. bufsize - 1
                     /\ buf' \in [0 .. bufsize - 1 -> 0 .. MaxTyped]
                     /\ consumer' \in Readers \cup {NULL} /\ queue_lock' \in Readers \cup {NULL}
                     /\ reader' \in [Readers -> {"running", "asleep", "locked_out"}]
                     /\ typed' \in 0 .. MaxTyped /\ got' \in 0 .. typed'
                     /\ RingInv'
                     /\ tail' # tail => got' = typed + 1 - ((head - tail) % bufsize)
                     /\ head' # head /\ head' = tail' => tail = 0
<1>1. SUFFICES Modes /\ Queue
  BY DEF KeyboardTypeOK, WireBytes, Codes
<1>2. QueueUnchanged => Queue
  <2>1. SUFFICES ASSUME QueueUnchanged PROVE Queue
    OBVIOUS
  <2>2. /\ head' = head /\ tail' = tail /\ buf' = buf /\ consumer' = consumer
        /\ queue_lock' = queue_lock /\ reader' = reader /\ typed' = typed /\ got' = got
    BY <2>1 DEF QueueUnchanged, ring
  <2>3. RingInv'
    BY <2>2 DEF RingInv, InRing, Age
  <2>. QED  BY <1>0, <2>2, <2>3
<1>3. UNCHANGED <<down, fake, wire, status, caps_lock_status, ext_scancode>> => Modes
  BY <1>0 DEF ClearInv, Cleared, KindOfByte, Pressed, Held
<1>4. ASSUME NEW k \in Keys, Press(k) \/ Release(k) PROVE Modes /\ Queue
  <2>1. /\ down' \in {down \cup {k}, down \ {k}}
        /\ status' = status /\ caps_lock_status' = caps_lock_status
        /\ ext_scancode' = ext_scancode /\ QueueUnchanged
    BY <1>4 DEF Press, Release, Send, modes, QueueUnchanged
  <2>2. ClearInv' /\ wire' \in Seq(WireBytes) /\ fake' \in BOOLEAN
    BY <1>4, KeyStep
  <2>3. down' \subseteq Keys
    BY <1>0, <2>1
  <2>. QED  BY <1>0, <1>2, <2>1, <2>2, <2>3
<1>5. CASE \/ Prefix \/ MakeCaps
           \/ \E code \in Codes : Break(code) \/ MakeModifier(code)
  BY <1>0, <1>2, <1>5, ModeStep
<1>6. CASE MakeChar
  <2>1. /\ wire # <<>> /\ wire' = Tail(wire) /\ down' = down /\ fake' = fake
        /\ Head(wire) = <<"make", "char">>
        /\ status' = status /\ caps_lock_status' = caps_lock_status
        /\ ext_scancode' = ext_scancode /\ typed < MaxTyped
        /\ \/ QueueUnchanged
           \/ ~ioq_full /\ ioq_setchar
    BY <1>6 DEF MakeChar, Byte, modes
  <2>2. \A f \in Flags : ~KindOfByte(wire, "break", f, 1)
    <3>1. wire[1] = <<"make", "char">>
      BY <1>0, <2>1
    <3>. QED  BY <3>1 DEF KindOfByte
  <2>3. ClearInv' /\ wire' \in Seq(WireBytes)
    BY <2>1, <2>2, ByteStep
  <2>4. ASSUME ~ioq_full, ioq_setchar PROVE Queue
    <3>1. /\ RingInv' /\ (head' # head /\ head' = tail' => tail = 0)
          /\ head' \in 0 .. bufsize - 1 /\ tail' = tail
          /\ buf' \in [0 .. bufsize - 1 -> 0 .. MaxTyped]
          /\ typed' \in 0 .. MaxTyped /\ got' \in 0 .. typed'
      BY <2>1, <2>4, CharStep
    <3>2. /\ consumer' \in Readers \cup {NULL} /\ queue_lock' \in Readers \cup {NULL}
          /\ reader' \in [Readers -> {"running", "asleep", "locked_out"}]
      BY <1>0, <2>4 DEF ioq_setchar
    <3>. QED  BY <1>0, <3>1, <3>2
  <2>. QED  BY <1>0, <1>2, <2>1, <2>3, <2>4
<1>7. ASSUME NEW r \in Readers, ioq_getchar(r) PROVE Modes /\ Queue
  <2>1. UNCHANGED <<down, fake, wire, status, caps_lock_status, ext_scancode>> /\ typed' = typed
    BY <1>7 DEF ioq_getchar, keys, modes
  <2>2. CASE ~ioq_empty
    <3>1. /\ Take /\ head' = head /\ buf' = buf /\ consumer' = consumer
          /\ queue_lock' = queue_lock /\ reader' = reader
      BY <1>7, <2>2 DEF ioq_getchar
    <3>2. /\ RingInv' /\ tail' \in 0 .. bufsize - 1
          /\ got' = typed + 1 - ((head - tail) % bufsize) /\ got' \in 0 .. typed
      BY <2>1, <2>2, <3>1, TakeStep
    <3>. QED  BY <1>0, <1>3, <2>1, <3>1, <3>2
  <2>3. CASE ioq_empty
    <3>1. /\ head' = head /\ tail' = tail /\ buf' = buf /\ consumer' = consumer /\ got' = got
          /\ queue_lock' \in {queue_lock, r}
          /\ reader' \in {[reader EXCEPT ![r] = "asleep"], [reader EXCEPT ![r] = "locked_out"]}
      BY <1>7, <2>3 DEF ioq_getchar, ioq_wait, ring
    <3>2. RingInv'
      BY <2>1, <3>1 DEF RingInv, InRing, Age
    <3>. QED  BY <1>0, <1>3, <2>1, <3>1, <3>2
  <2>. QED  BY <2>2, <2>3
<1>. QED  BY <1>4, <1>5, <1>6, <1>7 DEF KeyboardNext, intr_keyboard_handler, Codes

LEMMA KeyboardKept == KeyboardInv /\ [KeyboardNext]_keyboardVars => KeyboardInv'
<1>1. ASSUME KeyboardInv, UNCHANGED keyboardVars PROVE KeyboardInv'
  BY <1>1 DEF keyboardVars, keys, modes, ring, KeyboardInv, KeyboardTypeOK, ClearInv, Cleared, KindOfByte, Pressed, Held,
              RingInv, InRing, Age
<1>. QED  BY <1>1, KeyboardStep

\* Shift, ctrl and alt are set only while one of their keys is held or its
\* break code is on its way to intr_keyboard_handler, whichever keys there are
\* and however they are pressed; shift also after a fake make code, until the
\* next break code of shift.
THEOREM NoModifierSticks == KeyboardSpec => []NoStuckModifier
<1>1. KeyboardInit => KeyboardInv
  BY KbdInit
<1>2. KeyboardInv /\ [KeyboardNext]_keyboardVars => KeyboardInv'
  BY KeyboardKept
<1>3. KeyboardInv => NoStuckModifier
  BY DEF KeyboardInv, ClearInv, Cleared, Pressed, KindOfByte, NoStuckModifier
<1>. QED  BY <1>1, <1>2, <1>3, PTL DEF KeyboardSpec

\* ioq_getchar takes the oldest character of a ring of any size, and only the
\* full ring that ioq_full misses (ioqueue.c:17) turns into an empty one.
THEOREM OldestTaken == KeyboardSpec => OldestFirst
<1>1. KeyboardInit => KeyboardInv
  BY KbdInit
<1>2. KeyboardInv /\ [KeyboardNext]_keyboardVars => KeyboardInv'
  BY KeyboardKept
<1>3. KeyboardInv /\ [KeyboardNext]_keyboardVars =>
          [/\ tail' # tail => got' = typed + 1 - ((head - tail) % bufsize)
           /\ head' # head /\ head' = tail' => tail = 0]_keyboardVars
  BY KeyboardStep
<1>. QED  BY <1>1, <1>2, <1>3, PTL DEF KeyboardSpec, OldestFirst
=============================================================================
