--------------------------- MODULE AbstractConsole ---------------------------
(***************************************************************************)
(* What device/console.h promises: a terminal of so many lines.  A text is *)
(* shown whole before the next begins; a character stands right of the one *)
(* before it, and a line too many pushes the topmost out.                  *)
(***************************************************************************)
EXTENDS Sequences, Naturals

CONSTANTS Threads, Texts, Rows, Cols, LF, BS, Blank, None

VARIABLES lines,        \* lines[row][col]: what the terminal shows
          row, col,     \* where the next character goes
          writer,       \* the thread whose text is being shown, or None
          rest,         \* what is left of it
          halted        \* the machine has stopped

terminal == <<lines, row, col>>
consoleVars == <<terminal, writer, rest, halted>>

EmptyLine == [c \in 1 .. Cols |-> Blank]

Init ==
    /\ lines = [r \in 1 .. Rows |-> EmptyLine] /\ row = 1 /\ col = 1
    /\ writer = None /\ rest = <<>> /\ halted = FALSE

NextLine(page) ==
    /\ col' = 1
    /\ \/ row < Rows /\ row' = row + 1 /\ lines' = page
       \/ row = Rows /\ row' = row /\ lines' = Tail(page) \o <<EmptyLine>>

StepBack ==
    /\ \/ col > 1 /\ col' = col - 1 /\ row' = row
       \/ col = 1 /\ row > 1 /\ col' = Cols /\ row' = row - 1
    /\ lines' = [lines EXCEPT ![row'][col'] = Blank]

Show(ch) ==
    \/ ch = LF /\ NextLine(lines)
    \/ ch = BS /\ StepBack
    \/ /\ ch \notin {LF, BS}
       /\ LET page == [lines EXCEPT ![row][col] = ch]
          IN  \/ col = Cols /\ NextLine(page)
              \/ col < Cols /\ col' = col + 1 /\ row' = row /\ lines' = page

Begin(t, s) ==
    /\ writer = None /\ writer' = t /\ rest' = s
    /\ UNCHANGED <<terminal, halted>>

Put ==
    /\ rest # <<>> /\ Show(Head(rest)) /\ rest' = Tail(rest)
    /\ UNCHANGED <<writer, halted>>

End ==
    /\ writer # None /\ rest = <<>> /\ writer' = None
    /\ UNCHANGED <<terminal, rest, halted>>

\* What the screen of a stopped machine shows is another matter.
Halt == halted' = TRUE

Next == ~halted /\ (Put \/ End \/ Halt \/ \E t \in Threads, s \in Texts : Begin(t, s))

Spec == Init /\ [][Next]_consoleVars
=============================================================================
