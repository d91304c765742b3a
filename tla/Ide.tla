--------------------------------- MODULE Ide ---------------------------------
(***************************************************************************)
(* device/ide.c: commands to the two disks of an IDE channel and the       *)
(* interrupts that answer them.  main runs ide_init with interrupts        *)
(* masked, so an interrupt comes in only while it sleeps in sema_down and  *)
(* idle runs; afterwards threads read and write, and an interrupt may come *)
(* between any two of their steps.  The disk is external: modelled as the  *)
(* driver takes it, one transfer and one interrupt to a command.           *)
(***************************************************************************)
EXTENDS Integers, Sequences

CONSTANTS Channels,             \* 0 .. channel_cnt - 1
          Workers,              \* threads that use the disks after ide_init
          main, None,
          MaxOps                \* bound: commands of one call

ASSUME IdeAssumption ==
    /\ Channels \in {{0}, {0, 1}}
    /\ main \notin Workers /\ None \notin Workers \cup {main}
    /\ MaxOps \in Nat \ {0}

Threads == Workers \cup {main}
Disks == {0, 1}                 \* dev_no
Kinds == {"identify", "read", "write"}

\* The second mask, 0xbf, of pic_init: of the slave's lines only IRQ 14 is open.
Unmasked == {0}

VARIABLES todo,         \* what is left of ide_init: <<kind, channel, disk>>
          selected,     \* selected[c]: the disk the device register names
          drive,        \* drive[c]: [state, by, kind, disk] of the last command
          irq,          \* irq[c]: the line, and whether it has been serviced
          expecting,    \* expecting[c]: expecting_intr
          disk_done,    \* disk_done[c]: the semaphore's value
          holder,       \* holder[c]: the channel's lock
          pc, call,     \* where t stands, its call: [kind, ch, disk, left]
          panic         \* why the machine stopped

drives == <<selected, drive, irq>>
driver == <<expecting, disk_done, holder>>
vars == <<todo, drives, driver, pc, call, panic>>

TypeOK ==
    /\ todo \in Seq(Kinds \X Channels \X Disks)
    /\ selected \in [Channels -> Disks]
    /\ drive \in [Channels -> [state : {"idle", "busy", "drq", "writing"},
                               by : Threads, kind : Kinds, disk : Disks]]
    /\ irq \in [Channels -> {"low", "requested", "serviced"}]
    /\ expecting \in [Channels -> BOOLEAN]
    /\ disk_done \in [Channels -> {0, 1}]
    /\ holder \in [Channels -> Threads \cup {None}]
    /\ pc \in [Threads -> {"out", "lock", "select", "expect", "command", "down",
                           "busy_wait", "transfer", "next"}]
    /\ call \in [Threads -> [kind : Kinds, ch : Channels, disk : Disks, left : 0 .. MaxOps]]
    /\ panic \in {"no", "busy", "failed", "token"}

InitOf(c) == << <<"identify", c, 0>>, <<"identify", c, 1>>, <<"read", c, 1>> >>

Init ==
    /\ todo = IF 1 \in Channels THEN InitOf(0) \o InitOf(1) ELSE InitOf(0)
    /\ selected = [c \in Channels |-> 0]
    /\ drive = [c \in Channels |-> [state |-> "idle", by |-> main, kind |-> "identify", disk |-> 0]]
    /\ irq = [c \in Channels |-> "low"]
    /\ expecting = [c \in Channels |-> FALSE]
    /\ disk_done = [c \in Channels |-> 0]
    /\ holder = [c \in Channels |-> None]
    /\ pc = [t \in Threads |-> "out"]
    /\ call = [t \in Threads |-> [kind |-> "identify", ch |-> 0, disk |-> 0, left |-> 0]]
    /\ panic = "no"

-----------------------------------------------------------------------------
(* The driver *)

At(t, label) == pc[t] = label /\ panic = "no"
Goto(t, label) == pc' = [pc EXCEPT ![t] = label]
Ch(t) == call[t].ch

Call(t, kind, c, d, n) ==
    /\ call' = [call EXCEPT ![t] = [kind |-> kind, ch |-> c, disk |-> d, left |-> n]]
    /\ Goto(t, IF kind = "identify" THEN "select" ELSE "lock")
    /\ UNCHANGED <<drives, driver, panic>>

\* main identifies both disks of a channel and scans the second one's
\* partitions, which takes as many reads as the tables on it say.
InitStep ==
    /\ todo # <<>> /\ At(main, "out")
    /\ Call(main, Head(todo)[1], Head(todo)[2], Head(todo)[3], 1)
    /\ todo' \in {Tail(todo)} \cup (IF Head(todo)[1] = "read" THEN {todo} ELSE {})

Booted == todo = <<>> /\ pc[main] = "out"

\* ide_read and ide_write.
Use(t) ==
    /\ Booted /\ At(t, "out")
    /\ \E kind \in {"read", "write"}, c \in Channels, d \in Disks, n \in 1 .. MaxOps :
          Call(t, kind, c, d, n)
    /\ UNCHANGED todo

\* Mutant: nobody waits for the channel's lock.
LockAtOnce(t) ==
    /\ At(t, "lock")
    /\ holder' = [holder EXCEPT ![Ch(t)] = t]
    /\ Goto(t, "select")
    /\ UNCHANGED <<todo, drives, expecting, disk_done, call, panic>>

Lock(t) ==
    /\ At(t, "lock") /\ holder[Ch(t)] = None
    /\ holder' = [holder EXCEPT ![Ch(t)] = t]
    /\ Goto(t, "select")
    /\ UNCHANGED <<todo, drives, expecting, disk_done, call, panic>>

\* select_disk and select_sector.
Select(t) ==
    /\ At(t, "select")
    /\ selected' = [selected EXCEPT ![Ch(t)] = call[t].disk]
    /\ Goto(t, "expect")
    /\ UNCHANGED <<todo, drive, irq, driver, call, panic>>

\* Mutant: cmd_out does not announce the interrupt.
ExpectNot(t) ==
    /\ At(t, "expect")
    /\ Goto(t, "command")
    /\ UNCHANGED <<todo, drives, driver, call, panic>>

\* cmd_out announces the interrupt before ...
Expect(t) ==
    /\ At(t, "expect")
    /\ expecting' = [expecting EXCEPT ![Ch(t)] = TRUE]
    /\ Goto(t, "command")
    /\ UNCHANGED <<todo, drives, disk_done, holder, call, panic>>

\* ... it writes the command, which also lowers the interrupt line.  A read
\* waits for the disk's interrupt at once, the others for its status.
Command(t) ==
    /\ At(t, "command")
    /\ drive' = [drive EXCEPT ![Ch(t)] = [state |-> "busy", by |-> t, kind |-> call[t].kind,
                                          disk |-> selected[Ch(t)]]]
    /\ irq' = [irq EXCEPT ![Ch(t)] = "low"]
    /\ Goto(t, IF call[t].kind = "read" THEN "down" ELSE "busy_wait")
    /\ UNCHANGED <<todo, selected, driver, call, panic>>

\* Mutant: sema_down leaves the semaphore up.
DownKeeping(t) ==
    /\ At(t, "down") /\ disk_done[Ch(t)] = 1
    /\ Goto(t, IF call[t].kind = "read" THEN "busy_wait" ELSE "next")
    /\ UNCHANGED <<todo, drives, driver, call, panic>>

\* sema_down(&disk_done), after a read's command and after a write's data.
Down(t) ==
    /\ At(t, "down") /\ disk_done[Ch(t)] = 1
    /\ disk_done' = [disk_done EXCEPT ![Ch(t)] = 0]
    /\ Goto(t, IF call[t].kind = "read" THEN "busy_wait" ELSE "next")
    /\ UNCHANGED <<todo, drives, expecting, holder, call, panic>>

\* Reading the status lowers the line.  If the disk is busy mtime_sleep calls
\* thread_yield, which halts the machine (thread_yield of Sched).
busy_wait(t) ==
    /\ At(t, "busy_wait")
    /\ irq' = [irq EXCEPT ![Ch(t)] = "low"]
    /\ \/ drive[Ch(t)].state = "drq" /\ Goto(t, "transfer") /\ UNCHANGED panic
       \/ /\ drive[Ch(t)].state # "drq"
          /\ panic' = IF drive[Ch(t)].state = "idle" THEN "failed" ELSE "busy"
          /\ UNCHANGED pc
    /\ UNCHANGED <<todo, selected, drive, driver, call>>

\* read_from_sector and write2sector.
Transfer(t) ==
    /\ At(t, "transfer")
    /\ drive' = [drive EXCEPT ![Ch(t)].state = IF call[t].kind = "write" THEN "writing" ELSE "idle"]
    /\ Goto(t, IF call[t].kind = "write" THEN "down" ELSE "next")
    /\ UNCHANGED <<todo, selected, irq, driver, call, panic>>

Last(t) == call[t].left = 1

\* secs_done += secs_op, and the lock's release after the last command.
NextOp(t) ==
    /\ At(t, "next")
    /\ call' = [call EXCEPT ![t].left = @ - 1]
    /\ IF Last(t) THEN Goto(t, "out") ELSE Goto(t, "select")
    /\ holder' = [holder EXCEPT ![Ch(t)] = IF Last(t) /\ @ = t THEN None ELSE @]
    /\ UNCHANGED <<todo, drives, expecting, disk_done, panic>>

\* Interrupts are masked while main runs ide_init, but not while it sleeps.
IntrOn == Booted \/ (pc[main] = "down" /\ disk_done[Ch(main)] = 0)

\* intr_hd_handler
intr_hd_handler(c) ==
    /\ irq[c] = "requested" /\ c \in Unmasked /\ IntrOn /\ panic = "no"
    /\ IF ~expecting[c]
       THEN irq' = [irq EXCEPT ![c] = "serviced"] /\ UNCHANGED <<expecting, disk_done, panic>>
       ELSE IF disk_done[c] = 1
       THEN panic' = "token" /\ UNCHANGED <<irq, expecting, disk_done>>
       ELSE /\ expecting' = [expecting EXCEPT ![c] = FALSE]
            /\ disk_done' = [disk_done EXCEPT ![c] = 1]
            /\ irq' = [irq EXCEPT ![c] = "low"]
            /\ UNCHANGED panic
    /\ UNCHANGED <<todo, selected, drive, holder, pc, call>>

-----------------------------------------------------------------------------
(* The disk *)

Drive(c, state, line) ==
    /\ panic = "no"
    /\ drive' = [drive EXCEPT ![c].state = state]
    /\ irq' = [irq EXCEPT ![c] = line]
    /\ UNCHANGED <<todo, selected, driver, pc, call, panic>>

\* The data is there, or the command has failed; a write asks for its data
\* without an interrupt.
Answer(c) ==
    /\ drive[c].state = "busy"
    /\ IF drive[c].kind = "write" THEN Drive(c, "drq", "low")
       ELSE \E s \in {"drq", "idle"} : Drive(c, s, "requested")

Written(c) == drive[c].state = "writing" /\ Drive(c, "idle", "requested")

Step(t) ==
    \/ Lock(t) \/ Select(t) \/ Expect(t) \/ Command(t) \/ Down(t)
    \/ busy_wait(t) \/ Transfer(t) \/ NextOp(t)

Next ==
    \/ InitStep
    \/ \E t \in Workers : Use(t)
    \/ \E t \in Threads : Step(t)
    \/ \E c \in Channels : intr_hd_handler(c) \/ Answer(c) \/ Written(c)

Spec == Init /\ [][Next]_vars

\* Disks answer, an interrupt that is requested and let in is taken, and a
\* thread that can go on does (ReadyThreadRuns of Thread).
FairSpec ==
    /\ Spec /\ WF_vars(InitStep)
    /\ \A t \in Threads : WF_vars(Step(t))
    /\ \A c \in Channels : WF_vars(intr_hd_handler(c)) /\ WF_vars(Answer(c) \/ Written(c))

-----------------------------------------------------------------------------
(* Correctness *)

\* The data a thread is about to move is that of its own command to the disk
\* it named: neither another thread nor an interrupt that belongs to an
\* earlier command can have let it go on.
OwnData ==
    \A t \in Threads : pc[t] = "transfer" =>
        drive[Ch(t)] = [state |-> "drq", by |-> t, kind |-> call[t].kind, disk |-> call[t].disk]

\* While the channel is free its semaphore is down and no interrupt is on its
\* way, so that nobody's wait is cut short by a call that is over; and while it
\* is not, a second interrupt never finds the first one's token unconsumed.
NothingLeftOver ==
    /\ Booted => \A c \in Channels : holder[c] = None => disk_done[c] = 0 /\ irq[c] # "requested"
    /\ panic # "token"

\* "Blocks itself when the disk starts to work, and is woken when the read is
\* done" (ide.c:130), unless the machine has stopped.
CommandAnswered == \A t \in Threads : pc[t] = "down" ~> (pc[t] # "down" \/ panic # "no")
=============================================================================
