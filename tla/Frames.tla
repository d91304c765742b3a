-------------------------------- MODULE Frames -------------------------------
(***************************************************************************)
(* What kernel.S, switch.S, the structs of thread.h and the CPU must agree *)
(* on word by word: the frames that interrupts, system calls, the first    *)
(* entry of a process and the switch between threads leave on a kernel     *)
(* stack, and the vector by which each is reached.  Straight-line code     *)
(* with interrupts masked, so every path is a function of the machine.     *)
(***************************************************************************)
EXTENDS Naturals, Sequences
LOCAL INSTANCE SequencesExt

\* A machine: its registers and the kernel stack in use, top first.  A value
\* is a tuple: of what kind, and its name.
Segments == <<"ds", "es", "fs", "gs">>
General == <<"eax", "ecx", "edx", "ebx", "esp", "ebp", "esi", "edi">>
Registers == ToSet(Segments \o General) \cup {"eip", "cs", "eflags", "ss"}

Push(m, x) == [m EXCEPT !.stack = <<x>> \o @]
PushAll(m, rs) == FoldLeft(LAMBDA n, r : Push(n, n.reg[r]), m, rs)
Pop(m, r) == [reg |-> [m.reg EXCEPT ![r] = Head(m.stack)], stack |-> Tail(m.stack)]
PopAll(m, rs) == FoldLeft(Pop, m, rs)
Drop(m, n) == [m EXCEPT !.stack = SubSeq(@, n + 1, Len(@))]

\* popad passes over the esp that pushad has pushed.
popad(m) == PopAll(Drop(PopAll(m, <<"edi", "esi", "ebp">>), 1), <<"ebx", "edx", "ecx", "eax">>)

\* C code keeps ebx, ebp, esi and edi, and may use its arguments' words.
Clobbered(m, args) ==
    [reg |-> [r \in Registers |-> IF r \in {"eax", "ecx", "edx"} THEN <<"any", r>> ELSE m.reg[r]],
     stack |-> [i \in DOMAIN m.stack |-> IF i <= args THEN <<"any", "argument">> ELSE m.stack[i]]]

InUser(m) == m.reg["cs"] = <<"user", "cs">>

-----------------------------------------------------------------------------
(* The CPU *)

\* The exceptions with an error code.  30 is one of them on the processors that
\* have it (AMD's security exception) and reserved on the others.
Faults == {8, 10, 11, 12, 13, 14, 17}
Processors == {Faults, Faults \cup {30}}

\* User code finds the kernel's stack empty (OwnKernelStack of Process).
Raise(m, v, faults) ==
    LET on == PushAll(m, (IF InUser(m) THEN <<"ss", "esp">> ELSE <<>>) \o <<"eflags", "cs", "eip">>)
    IN  IF v \in faults THEN Push(on, <<"error", "code">>) ELSE on

iretd(m) ==
    LET back == PopAll(m, <<"eip", "cs", "eflags">>)
    IN  IF InUser(back) THEN PopAll(back, <<"esp", "ss">>) ELSE back

-----------------------------------------------------------------------------
(* kernel.S and interrupt.c *)

\* Mutant: VECTOR 0x11 is given ZERO, as its neighbours are.
NoZeroWithout17 == {8, 10, 11, 12, 13, 14, 30}

\* The vectors whose second parameter is ERROR_CODE.
NoZero == {8, 10, 11, 12, 13, 14, 17, 30}

Save(m) == PushAll(m, Segments \o General)

\* A stub, up to its call of the handler.
VECTOR(m, v) ==
    Push(Save(IF v \in NoZero THEN m ELSE Push(m, <<"number", 0>>)), <<"number", v>>)

intr_exit(m) == iretd(Drop(PopAll(popad(Drop(m, 1)), Reverse(Segments)), 1))

\* syscall_handler, up to its call, and from there with the service's result.
SyscallEntry(m) ==
    PushAll(Push(Save(Push(m, <<"number", 0>>)), <<"number", 128>>), <<"edx", "ecx", "ebx">>)
SyscallExit(m, result) ==
    LET back == Drop(Clobbered(m, 3), 3)
    IN  intr_exit([back EXCEPT !.stack = [@ EXCEPT ![9] = result]])

\* The stubs' addresses as the macro stores them: there is no VECTOR 0x60.
intr_entry_table == SelectSeq([i \in 1 .. 129 |-> i - 1], LAMBDA v : v # 96)

\* idt_desc_init: the stub a vector leads to; the last gate is the only one
\* that user code may call.
Gate(v) == IF v = 128 THEN <<"syscall_handler", v>> ELSE <<"VECTOR", intr_entry_table[v + 1]>>
Dpl(v) == IF v = 128 THEN 3 ELSE 0

\* exception_init and the three calls of register_handler.
idt_table(v) ==
    CASE v = 32 -> "intr_timer_handler"
      [] v = 33 -> "intr_keyboard_handler"
      [] v \in {46, 47} -> "intr_hd_handler"
      [] OTHER -> "general_intr_handler"

\* general_intr_handler lets the spurious interrupts of both chips pass and
\* hangs on any other.
Returns(v) == idt_table(v) = "general_intr_handler" => v \in {39, 47}

\* pic_init: the vector of a line, and the masks 0xf8 and 0xbf.
Line(n) == 32 + n
Open == {n \in 0 .. 15 : ((248 + 256 * 191) \div 2 ^ n) % 2 = 0}

-----------------------------------------------------------------------------
(* thread.h, thread.c, process.c and switch.S *)

intr_stack == <<"vec_no", "edi", "esi", "ebp", "esp_dummy", "ebx", "edx", "ecx", "eax",
                "gs", "fs", "es", "ds", "err_code", "eip", "cs", "eflags", "esp", "ss">>
thread_stack == <<"ebp", "ebx", "edi", "esi", "eip", "unused_retaddr", "function", "func_arg">>

\* What start_process leaves in each register for user code to begin with.
UserRegister(r) ==
    CASE r = "eip" -> <<"user", "function">>
      [] r = "cs"  -> <<"user", "cs">>
      [] r \in {"ds", "es", "fs", "ss"} -> <<"user", "data">>
      [] r = "eflags" -> <<"flags", "IF">>
      [] r = "esp" -> <<"user", "stack">>
      [] OTHER     -> <<"number", 0>>

\* The intr_stack that start_process fills and goes to intr_exit with.
UserFrame ==
    [i \in DOMAIN intr_stack |->
        IF intr_stack[i] \in {"vec_no", "err_code"} THEN <<"any", intr_stack[i]>>
        ELSE IF intr_stack[i] = "esp_dummy" THEN <<"number", 0>>
        ELSE UserRegister(intr_stack[i])]

\* thread_create does not set edi, nor the place of the return address.
NewThread(t) ==
    [i \in DOMAIN thread_stack |->
        CASE thread_stack[i] = "eip" -> <<"code", "kernel_thread">>
          [] thread_stack[i] \in {"function", "func_arg"} -> <<t, thread_stack[i]>>
          [] thread_stack[i] \in {"edi", "unused_retaddr"} -> <<"any", thread_stack[i]>>
          [] OTHER -> <<"number", 0>>]

\* schedule's call of switch_to, which finds cur at esp + 20 and next at
\* esp + 24; kstack is every thread's self_kstack.
switch_to(m, kstack, cur, next) ==
    LET saved == PushAll([m EXCEPT !.stack = << <<"code", "schedule">>, cur, next>> \o @],
                         <<"esi", "edi", "ebx", "ebp">>)
        kept  == [t \in DOMAIN kstack |-> IF <<"thread", t>> = saved.stack[6] THEN saved.stack
                                          ELSE kstack[t]]
        other == [saved EXCEPT !.stack = kept[saved.stack[7][2]]]
    IN  [machine |-> PopAll(other, <<"ebp", "ebx", "edi", "esi", "eip">>), kstack |-> kept]

-----------------------------------------------------------------------------
(* Correctness *)

Machine(who) ==
    [reg |-> [r \in Registers |-> <<who, r>>],
     stack |-> IF who = "user" THEN <<>> ELSE << <<who, "frame">> >>]

\* The stub of v leaves the code that it interrupts with every register as it
\* was, and the handler with an intr_stack whose fields hold what they are named for.
Transparent(v, who, faults) ==
    LET m == Machine(who)
        entered == VECTOR(Raise(m, v, faults), v)
    IN  /\ entered.stack[1] = <<"number", v>>
        /\ \A i \in DOMAIN entered.stack \cap DOMAIN intr_stack :
              intr_stack[i] \in Registers /\ (who = "user" \/ i <= 17) =>
                  entered.stack[i] = m.reg[intr_stack[i]]
        /\ intr_exit(Clobbered(entered, 1)) = m

\* An interrupt or exception of any vector is transparent, in either mode, but
\* for one: VECTOR 0x1E relies on the error code that its comment (kernel.S:81)
\* says the processor pushes, and returns to a wrong place where none is.
InterruptTransparent ==
    \A v \in ToSet(intr_entry_table), who \in {"user", "kernel"}, faults \in Processors :
        Transparent(v, who, faults) <=> (v = 30 => v \in faults)

\* A system call passes its arguments in their order and changes eax only.
SystemCallReturns ==
    LET m == Machine("user")
        entered == SyscallEntry(Raise(m, 128, Faults))
        result == <<"service", "result">>
    IN  /\ SubSeq(entered.stack, 1, 3) = <<m.reg["ebx"], m.reg["ecx"], m.reg["edx"]>>
        /\ SyscallExit(entered, result) = [m EXCEPT !.reg["eax"] = result]

\* The frame start_process fills takes intr_exit to user mode.
ProcessBegins ==
    intr_exit([reg |-> Machine("kernel").reg, stack |-> UserFrame])
        = [reg |-> [r \in Registers |-> UserRegister(r)], stack |-> <<>>]

\* A new thread begins in kernel_thread with its function and argument, and
\* one that comes back finds its stack and the registers that C code keeps.
SwitchResumes ==
    LET a == Machine("a")
        cur == <<"thread", "a">>
        new == <<"thread", "b">>
        one == switch_to(a, [t \in {"a", "b"} |-> IF t = "b" THEN NewThread("b") ELSE <<>>], cur, new)
        b   == [reg |-> Machine("b").reg, stack |-> one.machine.stack]
        two == switch_to(b, one.kstack, new, cur)
        three == switch_to([a EXCEPT !.stack = two.machine.stack], two.kstack, cur, new)
        Same(m, x) == \A r \in {"ebx", "ebp", "esi", "edi"} : m.reg[r] = x.reg[r]
    IN  /\ one.machine.reg["eip"] = <<"code", "kernel_thread">>
        /\ SubSeq(one.machine.stack, 2, 3) = << <<"b", "function">>, <<"b", "func_arg">> >>
        /\ Same(two.machine, a) /\ two.machine.stack = <<cur, new>> \o a.stack
        /\ Same(three.machine, b) /\ three.machine.stack = <<new, cur>> \o b.stack
        /\ {two.machine.reg["eip"], three.machine.reg["eip"]} = {<<"code", "schedule">>}

\* Although a stub is missing, every exception and every line of the 8259A
\* still has the stub that carries its number; the lines that are open, and
\* the spurious ones, have handlers that return; and user code can raise the
\* system call's vector and no other.
VectorsReached ==
    /\ \A v \in 0 .. Line(15) : Gate(v) = <<"VECTOR", v>>
    /\ \A n \in (Open \ {2}) \cup {7, 15} : Returns(Line(n))
    /\ \A v \in 0 .. 128 : Dpl(v) = 3 <=> Gate(v)[1] = "syscall_handler"

\* The four layouts agree: CPU, kernel.S, switch.S and the structs.
FramesAgree ==
    /\ InterruptTransparent
    /\ SystemCallReturns
    /\ ProcessBegins
    /\ SwitchResumes
    /\ VectorsReached
=============================================================================
