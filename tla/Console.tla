------------------------------- MODULE Console -------------------------------
(***************************************************************************)
(* device/console.c over lib/kernel/print.S: put_char reads the cursor     *)
(* from the VGA controller, draws, and writes it back, each through a      *)
(* select port and a data port that all threads share.  The lock is        *)
(* sync.c's, as AbstractLock states it.  panic_spin prints without it.     *)
(***************************************************************************)
EXTENDS Naturals, Sequences, Functions

CONSTANTS Threads, Texts, Rows, Cols, LF, BS, Blank, None,
          console_lock,
          Base,         \* how many values a register of the controller has
          Report        \* the lines that panic_spin prints

Chars == UNION {Range(s) : s \in Texts}

\* Callers print a backspace after another character only.
ASSUME ConsoleAssumption ==
    /\ {Rows, Cols, Base} \subseteq Nat \ {0} /\ Rows > 1
    /\ None \notin Threads /\ LF # BS
    /\ Texts \subseteq Seq(Chars)
    /\ \A s \in Texts : \A i \in 1 .. Len(s) : s[i] = BS => i > 1 /\ s[i - 1] # BS

\* The lines of a report, some of them empty, fit on the screen with the cursor below
\* them, where they wrap too.
ASSUME ReportAssumption ==
    /\ Report \in Seq(Seq(UNION {Range(Report[i]) : i \in DOMAIN Report}))
    /\ \A i \in DOMAIN Report : {LF, BS} \cap Range(Report[i]) = {}
    /\ \E above \in [0 .. Len(Report) -> 0 .. Rows - 1] :
          /\ above[0] = 0
          /\ \A i \in 1 .. Len(Report) :
                above[i] = above[i - 1] + (Len(Report[i]) \div Cols) + 1

VARIABLES owner, taken, \* console_lock
          pc,           \* where a thread stands in put_char
          text,         \* what it still has to print
          bx,           \* its register
          index,        \* the controller's register port 0x3d5 stands for
          cursor,       \* the two registers that hold the cursor
          screen,       \* video memory
          halted        \* panic_spin has printed and spins

locks == <<owner, taken>>
vars == <<locks, pc, text, bx, index, cursor, screen, halted>>

Cells == Rows * Cols

Lock == INSTANCE AbstractLock WITH Locks <- {console_lock}

\* console_init, on a screen cleared by the loader.
Init ==
    /\ Lock!Init
    /\ pc = [t \in Threads |-> "out"] /\ text = [t \in Threads |-> <<>>]
    /\ bx = [t \in Threads |-> 0]
    /\ index = "hi" /\ cursor = [hi |-> 0, lo |-> 0]
    /\ screen = [i \in 0 .. Cells - 1 |-> Blank]
    /\ halted = FALSE

-----------------------------------------------------------------------------
(* put_char on a screen and a position, as a record [s, p] *)

\* Beyond the screen video memory goes on, unseen.
Drawn(v, p, ch) == [v EXCEPT !.s = IF p < Cells THEN [@ EXCEPT ![p] = ch] ELSE @]

roll_screen(v) ==
    [s |-> [i \in 0 .. Cells - 1 |-> IF i < Cells - Cols THEN v.s[i + Cols] ELSE Blank],
     p |-> Cells - Cols]

\* Mutant: je for jl: only the first cell after the screen makes it roll.
line_feedEqual(v) ==
    LET q == (v.p - (v.p % Cols)) + Cols
    IN  IF q # Cells THEN [v EXCEPT !.p = q] ELSE roll_screen(v)

\* CR and LF alike.
line_feed(v) ==
    LET q == (v.p - (v.p % Cols)) + Cols
    IN  IF q < Cells THEN [v EXCEPT !.p = q] ELSE roll_screen(v)

put_other(v, ch) ==
    LET w == [Drawn(v, v.p, ch) EXCEPT !.p = @ + 1]
    IN  IF w.p < Cells THEN w ELSE line_feed(w)

\* Never at cell 0: a character comes before it.
backspace(v) == [Drawn(v, v.p - 1, Blank) EXCEPT !.p = @ - 1]

put_char(v, ch) ==
    CASE ch = LF -> line_feed(v) [] ch = BS -> backspace(v) [] ch \notin {LF, BS} -> put_other(v, ch)

put_str(v, str) ==
    LET after[k \in 0 .. Len(str)] ==
            IF k = 0 THEN v ELSE put_char(after[k - 1], str[k])
    IN  after[Len(str)]

put_lines(v, lines) ==
    LET after[i \in 0 .. Len(lines)] ==
            IF i = 0 THEN v ELSE put_char(put_str(after[i - 1], lines[i]), LF)
    IN  after[Len(lines)]

-----------------------------------------------------------------------------
At(t, label) == ~halted /\ pc[t] = label

Goto(t, label) == pc' = [pc EXCEPT ![t] = label]

\* Mutant: console_put_str does not take the lock.
AcquireNothing(t) == UNCHANGED locks

console_acquire(t) == Lock!Acquire(t, console_lock)

\* console_put_str, console_put_char and console_put_int.
Call(t, s) ==
    /\ At(t, "out") /\ console_acquire(t)
    /\ text' = [text EXCEPT ![t] = s] /\ Goto(t, "next")
    /\ UNCHANGED <<bx, index, cursor, screen, halted>>

console_release(t) ==
    /\ At(t, "next") /\ text[t] = <<>>
    /\ Lock!Release(t, console_lock) /\ Goto(t, "out")
    /\ UNCHANGED <<text, bx, index, cursor, screen, halted>>

Select(t, from, register, to) ==
    /\ At(t, from) /\ Goto(t, to)
    /\ index' = register
    /\ UNCHANGED <<locks, text, bx, cursor, screen, halted>>

In(t, from, weight, to) ==
    /\ At(t, from) /\ Goto(t, to)
    /\ bx' = [bx EXCEPT ![t] = @ + weight * cursor[index]]
    /\ UNCHANGED <<locks, text, index, cursor, screen, halted>>

Out(t, from, byte, to) ==
    /\ At(t, from) /\ Goto(t, to)
    /\ cursor' = [cursor EXCEPT ![index] = byte]
    /\ UNCHANGED <<locks, text, index, screen, halted>>

Draw(t) ==
    /\ At(t, "draw") /\ Goto(t, "set_cursor")
    /\ LET v == put_char([s |-> screen, p |-> bx[t]], Head(text[t]))
       IN  screen' = v.s /\ bx' = [bx EXCEPT ![t] = v.p]
    /\ text' = [text EXCEPT ![t] = Tail(@)]
    /\ UNCHANGED <<locks, index, cursor, halted>>

PutChar(t) ==
    \/ text[t] # <<>> /\ Select(t, "next", "hi", "in_hi")
    \/ In(t, "in_hi", Base, "select_lo")
    \/ Select(t, "select_lo", "lo", "in_lo")
    \/ In(t, "in_lo", 1, "draw")
    \/ Draw(t)
    \/ Select(t, "set_cursor", "hi", "out_hi")
    \/ Out(t, "out_hi", bx[t] \div Base, "set_lo") /\ UNCHANGED bx
    \/ Select(t, "set_lo", "lo", "out_lo")
    \/ Out(t, "out_lo", bx[t] % Base, "next") /\ bx' = [bx EXCEPT ![t] = 0]

\* panic_spin, in a thread or in a handler, with interrupts off: it reads the
\* cursor as it finds it, prints its lines and never returns.
panic_spin ==
    /\ ~halted /\ halted' = TRUE
    /\ LET found == [s |-> screen, p |-> Base * cursor.hi + cursor.lo]
           shown == put_lines(put_char(found, LF), Report)
       IN  /\ screen' = shown.s
           /\ cursor' = [hi |-> shown.p \div Base, lo |-> shown.p % Base]
    /\ index' = "lo"
    /\ UNCHANGED <<locks, pc, text, bx>>

Next ==
    \/ panic_spin
    \/ \E t \in Threads :
          PutChar(t) \/ console_release(t) \/ \E s \in Texts : Call(t, s)

Spec == Init /\ [][Next]_vars

-----------------------------------------------------------------------------
(* Correctness *)

writer == owner[console_lock]

\* The cursor counts as moved as soon as the character is drawn.
position ==
    IF writer # None /\ pc[writer] \in {"set_cursor", "out_hi", "set_lo", "out_lo"}
    THEN bx[writer] ELSE Base * cursor.hi + cursor.lo

Terminal == INSTANCE AbstractConsole WITH
    lines <- [r \in 1 .. Rows |-> [c \in 1 .. Cols |-> screen[(r - 1) * Cols + c - 1]]],
    row <- (position \div Cols) + 1,
    col <- (position % Cols) + 1,
    rest <- IF writer = None THEN <<>> ELSE text[writer]

\* Threads that lose the CPU between any two port accesses still print their
\* texts whole, one after the other, wrapped and scrolled as a terminal does:
\* the console's lock, put_char's arithmetic and its scrolling together.
ImplementsTerminal == Terminal!Spec

\* A panic may hit a thread between the two halves of the cursor, which then
\* may even point behind the screen.  Its report can be read all the same: its
\* lines stand whole, one below the other, on rows of their own.
ReportReadable ==
    halted => \E rows \in [1 .. Len(Report) -> 0 .. Rows - 1] :
        /\ \A i \in 1 .. Len(Report) : rows[i] * Cols + Len(Report[i]) <= Cells
        /\ \A i \in 1 .. Len(Report) - 1 : rows[i] + (Len(Report[i]) \div Cols) < rows[i + 1]
        /\ \A i \in 1 .. Len(Report) : \A c \in 1 .. Len(Report[i]) :
              screen[rows[i] * Cols + c - 1] = Report[i][c]
=============================================================================
