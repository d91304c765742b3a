---------------------------- MODULE ConsoleProofs ----------------------------
(***************************************************************************)
(* The console implements the terminal of AbstractConsole, on a screen of  *)
(* any size, for any number of threads and any texts; and the report of a  *)
(* panic can be read, wherever the panic strikes.                          *)
(***************************************************************************)
EXTENDS Console, FiniteSetTheorems, TLAPS

-----------------------------------------------------------------------------
(* The inductive invariant.  A panic may strike anywhere and nothing runs  *)
(* after it, so it speaks of the machine that has not stopped.             *)

Labels == {"out", "next", "in_hi", "select_lo", "in_lo", "draw",
           "set_cursor", "out_hi", "set_lo", "out_lo"}

Read == Base * cursor.hi + cursor.lo

StateInv ==
    /\ owner \in [{console_lock} -> Threads \cup {None}]
    /\ pc \in [Threads -> Labels]
    /\ text \in [Threads -> Seq(Chars)]
    /\ bx \in [Threads -> Nat]
    /\ index \in {"hi", "lo"}
    /\ cursor \in [hi : Nat, lo : Nat]
    /\ screen \in [0 .. Cells - 1 -> Chars \cup {Blank}]

\* Whoever is inside put_char or between two calls of it has the lock.
HolderInv == \A t \in Threads : pc[t] # "out" <=> owner[console_lock] = t

\* What put_char has read and written so far is still so: the controller
\* listens to the register this thread has selected, its bx holds what it has
\* read, and the cursor what it has written.
Ports(t) ==
    /\ pc[t] \in {"in_hi", "select_lo", "in_lo", "draw"} => text[t] # <<>>
    /\ pc[t] \in {"out", "next", "in_hi"} => bx[t] = 0
    /\ pc[t] \in {"in_hi", "out_hi"} => index = "hi"
    /\ pc[t] \in {"in_lo", "out_lo"} => index = "lo"
    /\ pc[t] \in {"select_lo", "in_lo"} => bx[t] = Base * cursor.hi
    /\ pc[t] = "draw" => bx[t] = Read
    /\ pc[t] \in {"set_lo", "out_lo"} => cursor.hi = bx[t] \div Base

PortInv == \A t \in Threads : Ports(t)

Apart(s) == \A i \in 2 .. Len(s) : s[i] = BS => s[i - 1] # BS

\* The next character lands on the screen, and a backspace has one to delete.
SpotInv ==
    /\ position \in 0 .. Cells - 1
    /\ \A t \in Threads :
          /\ Apart(text[t])
          /\ pc[t] # "out" /\ text[t] # <<>> /\ Head(text[t]) = BS => position > 0

Working == StateInv /\ HolderInv /\ PortInv /\ SpotInv

IInv == ~halted => Working

-----------------------------------------------------------------------------
(* Cells, rows and columns. *)

\* Division with remainder.
LEMMA DivMod ==
    ASSUME NEW n \in Nat, NEW d \in Nat \ {0}
    PROVE  n \div d \in Nat /\ n % d \in 0 .. d - 1 /\ n = (n \div d) * d + (n % d)
OBVIOUS

\* Quotient and remainder are unique.
LEMMA DivModOf ==
    ASSUME NEW d \in Nat \ {0}, NEW k \in Nat, NEW j \in 0 .. d - 1
    PROVE  (k * d + j) \div d = k /\ (k * d + j) % d = j
OBVIOUS

\* Cells of earlier rows have smaller numbers.
LEMMA Between ==
    ASSUME NEW d \in Nat \ {0}, NEW k \in Nat, NEW j \in 0 .. d - 1, NEW n \in Nat
    PROVE  k * d + j < n * d <=> k < n
<1>1. ASSUME k < n PROVE k * d + j < n * d
  <2>1. (k + 1) * d <= n * d
    BY <1>1
  <2>2. (k + 1) * d = k * d + d
    OBVIOUS
  <2> QED BY <2>1, <2>2
<1>2. ASSUME n <= k PROVE n * d <= k * d + j
  BY <1>2
<1> QED BY <1>1, <1>2

\* A screen has at least two rows; its cells are those of the last row and those above.
LEMMA Screen ==
    /\ Rows \in Nat \ {0, 1} /\ Cols \in Nat \ {0} /\ Base \in Nat \ {0}
    /\ Cells \in Nat /\ Cells - Cols \in Nat
    /\ Cells - Cols = (Rows - 1) * Cols /\ Cells - Cols >= Cols
<1>1. Rows \in Nat \ {0, 1} /\ Cols \in Nat \ {0} /\ Base \in Nat \ {0}
  BY ConsoleAssumption
<1>2. Rows * Cols = (Rows - 1) * Cols + Cols /\ (Rows - 1) * Cols >= Cols
  BY <1>1
<1> QED BY <1>1, <1>2 DEF Cells

\* The cell in row r and column c, both from 0.
LEMMA CellAt ==
    ASSUME NEW r \in 0 .. Rows - 1, NEW c \in 0 .. Cols - 1
    PROVE  /\ r * Cols + c \in 0 .. Cells - 1
           /\ (r * Cols + c) \div Cols = r /\ (r * Cols + c) % Cols = c
<1>1. r \in Nat /\ c \in Nat /\ r * Cols + c \in Nat /\ r < Rows
  BY Screen
<1>2. r * Cols + c < Rows * Cols
  BY <1>1, Screen, Between
<1> QED BY <1>1, <1>2, Screen, DivModOf DEF Cells

\* A cell of the screen is one column of one row.
LEMMA PlaceOf ==
    ASSUME NEW p \in 0 .. Cells - 1
    PROVE  /\ p \div Cols \in 0 .. Rows - 1 /\ p % Cols \in 0 .. Cols - 1
           /\ p = (p \div Cols) * Cols + (p % Cols)
<1>1. p \in Nat /\ p < Cells
  BY Screen
<1>2. p \div Cols \in Nat /\ p % Cols \in 0 .. Cols - 1 /\ p = (p \div Cols) * Cols + (p % Cols)
  BY <1>1, Screen, DivMod
<1>3. p \div Cols < Rows
  <2> DEFINE k == p \div Cols
             j == p % Cols
  <2>1. k \in Nat /\ j \in 0 .. Cols - 1 /\ k * Cols + j < Rows * Cols
    BY <1>1, <1>2 DEF Cells
  <2> HIDE DEF k, j
  <2>2. k < Rows
    BY <2>1, Screen, Between
  <2> QED BY <2>2 DEF k
<1> QED BY <1>2, <1>3, Screen

-----------------------------------------------------------------------------
(* The screen as lines. *)

Screens == [0 .. Cells - 1 -> Chars \cup {Blank}]
Shown(s) == [r \in 1 .. Rows |-> [c \in 1 .. Cols |-> s[(r - 1) * Cols + c - 1]]]
Pages == [1 .. Rows -> [1 .. Cols -> Chars \cup {Blank}]]

\* A page on which row r and column c, both from 0, have been drawn.
With(page, r, c, ch) == [page EXCEPT ![r + 1][c + 1] = ch]

\* The screen makes a page of lines.
LEMMA ShownPage ==
    ASSUME NEW s \in Screens
    PROVE  Shown(s) \in Pages
<1>1. \A r \in 1 .. Rows, c \in 1 .. Cols : (r - 1) * Cols + c - 1 \in 0 .. Cells - 1
  <2> SUFFICES ASSUME NEW r \in 1 .. Rows, NEW c \in 1 .. Cols
               PROVE  (r - 1) * Cols + c - 1 \in 0 .. Cells - 1
    OBVIOUS
  <2>1. r - 1 \in 0 .. Rows - 1 /\ c - 1 \in 0 .. Cols - 1
    BY Screen
  <2>2. (r - 1) * Cols + (c - 1) \in 0 .. Cells - 1
    BY <2>1, CellAt
  <2>3. (r - 1) * Cols \in Int
    BY <2>1, Screen
  <2> HIDE DEF Cells
  <2> QED BY <2>2, <2>3
<1> QED BY <1>1 DEF Shown, Pages, Screens

\* A cell that is drawn is one column of one line.
LEMMA ShownDraw ==
    ASSUME NEW s \in Screens, NEW p \in 0 .. Cells - 1, NEW ch,
           NEW new, new = [s EXCEPT ![p] = ch]
    PROVE  Shown(new) = With(Shown(s), p \div Cols, p % Cols, ch)
<1> DEFINE row0 == p \div Cols
           col0 == p % Cols
           page == [Shown(s) EXCEPT ![row0 + 1][col0 + 1] = ch]
<1>1. row0 \in 0 .. Rows - 1 /\ col0 \in 0 .. Cols - 1 /\ p = row0 * Cols + col0
  BY PlaceOf
<1>2. \A i \in 0 .. Cells - 1 : new[i] = IF i = p THEN ch ELSE s[i]
  BY DEF Screens
<1> HIDE DEF row0, col0
<1>3. ASSUME NEW r \in 1 .. Rows, NEW c \in 1 .. Cols
      PROVE  new[(r - 1) * Cols + c - 1] = page[r][c]
  <2>1. r - 1 \in 0 .. Rows - 1 /\ c - 1 \in 0 .. Cols - 1 /\ (r - 1) * Cols \in Nat
    BY Screen
  <2> DEFINE i == (r - 1) * Cols + (c - 1)
  <2>2. i \in 0 .. Cells - 1 /\ i \div Cols = r - 1 /\ i % Cols = c - 1
    BY <2>1, CellAt
  <2>3. p \div Cols = row0 /\ p % Cols = col0
    BY DEF row0, col0
  <2>4. (r - 1) * Cols + c - 1 = i
    BY <2>1
  <2> HIDE DEF i
  <2>5. i = p <=> r = row0 + 1 /\ c = col0 + 1
    <3>1. ASSUME i = p PROVE r = row0 + 1 /\ c = col0 + 1
      BY <2>1, <2>2, <2>3, <3>1
    <3>2. ASSUME r = row0 + 1, c = col0 + 1 PROVE i = p
      <4>1. r - 1 = row0 /\ c - 1 = col0
        BY <1>1, <3>2
      <4> QED BY <1>1, <4>1 DEF i
    <3> QED BY <3>1, <3>2
  <2>6. Shown(s)[r][c] = s[i]
    BY <2>4 DEF Shown
  <2>7. page[r][c] = IF r = row0 + 1 /\ c = col0 + 1 THEN ch ELSE Shown(s)[r][c]
    BY ShownPage DEF Pages
  <2> QED BY <1>2, <2>2, <2>4, <2>5, <2>6, <2>7
<1>4. page = [r \in 1 .. Rows |-> [c \in 1 .. Cols |-> page[r][c]]]
  BY ShownPage DEF Pages
<1>5. Shown(new) = page
  <2> HIDE DEF page
  <2> QED BY <1>3, <1>4 DEF Shown
<1> QED BY <1>5 DEF row0, col0, With

\* Rolling drops the topmost line and adds an empty one.
LEMMA ShownRoll ==
    ASSUME NEW s \in Screens, NEW v, v.s = s
    PROVE  Shown(roll_screen(v).s) = Tail(Shown(s)) \o <<Terminal!EmptyLine>>
<1> DEFINE new == [i \in 0 .. Cells - 1 |-> IF i < Cells - Cols THEN s[i + Cols] ELSE Blank]
           page == Shown(s)
           e == Terminal!EmptyLine
           rolled == [r \in 1 .. Rows |-> IF r < Rows THEN page[r + 1] ELSE e]
<1>1. roll_screen(v).s = new
  BY DEF roll_screen
<1>2. e = [c \in 1 .. Cols |-> Blank] /\ page \in Pages
  BY ShownPage DEF Terminal!EmptyLine
<1>3. Tail(page) \o <<e>> = rolled
  <2> DEFINE g == Tail(page) \o <<e>>
             S == [1 .. Cols -> Chars \cup {Blank}]
  <2>1. page \in Seq(S) /\ Len(page) = Rows /\ e \in S /\ Rows \in Nat \ {0}
    BY <1>2, Screen DEF Pages
  <2> HIDE DEF S, e, page
  <2>2. Tail(page) \in Seq(S) /\ Len(Tail(page)) = Rows - 1
        /\ \A i \in 1 .. Rows - 1 : Tail(page)[i] = page[i + 1]
    BY <2>1
  <2>3. g \in Seq(S) /\ Len(g) = Rows /\ g[Rows] = e /\ \A i \in 1 .. Rows - 1 : g[i] = page[i + 1]
    BY <2>1, <2>2
  <2>4. DOMAIN g = 1 .. Rows
    BY <2>3
  <2> HIDE DEF g
  <2>5. g = [i \in 1 .. Rows |-> g[i]]
    BY <2>3, <2>4
  <2>6. \A i \in 1 .. Rows : g[i] = IF i < Rows THEN page[i + 1] ELSE e
    BY <2>1, <2>3
  <2>7. g = rolled
    BY <2>5, <2>6
  <2> QED BY <2>7 DEF g
<1>4. ASSUME NEW r \in 1 .. Rows, NEW c \in 1 .. Cols
      PROVE  new[(r - 1) * Cols + c - 1] = rolled[r][c]
  <2>1. r - 1 \in 0 .. Rows - 1 /\ c - 1 \in 0 .. Cols - 1 /\ (r - 1) * Cols \in Nat
    BY Screen
  <2> DEFINE i == (r - 1) * Cols + (c - 1)
  <2>2. i \in 0 .. Cells - 1 /\ (r - 1) * Cols + c - 1 = i /\ i \in Nat
    BY <2>1, CellAt
  <2>3. i < Cells - Cols <=> r < Rows
    <3>1. Rows - 1 \in Nat /\ r - 1 \in Nat
      BY Screen
    <3>2. i < (Rows - 1) * Cols <=> r - 1 < Rows - 1
      BY <2>1, <3>1, Screen, Between
    <3> QED BY <3>2, Screen
  <2>4. r < Rows => page[r + 1][c] = s[i + Cols]
    <3>1. ((r + 1) - 1) * Cols + c - 1 = i + Cols
      <4>1. ((r + 1) - 1) * Cols = (r - 1) * Cols + Cols
        BY <2>1, Screen
      <4> QED BY <2>1, <4>1, Screen
    <3>2. r < Rows => r + 1 \in 1 .. Rows
      BY Screen
    <3>3. \A q \in 1 .. Rows : page[q][c] = s[(q - 1) * Cols + c - 1]
      BY DEF Shown
    <3> HIDE DEF page, i
    <3> QED BY <3>1, <3>2, <3>3
  <2> HIDE DEF i, page
  <2>5. rolled[r][c] = IF r < Rows THEN page[r + 1][c] ELSE Blank
    BY <1>2
  <2> QED BY <2>2, <2>3, <2>4, <2>5
<1>5. rolled = [r \in 1 .. Rows |-> [c \in 1 .. Cols |-> rolled[r][c]]]
  <2>1. \A r \in 1 .. Rows : rolled[r] \in [1 .. Cols -> Chars \cup {Blank}]
    <3> HIDE DEF page, e
    <3> QED BY <1>2, Screen DEF Pages
  <2> HIDE DEF page, e
  <2> QED BY <2>1
<1>6. Shown(new) = rolled
  <2> HIDE DEF rolled, new
  <2> QED BY <1>4, <1>5 DEF Shown
<1> QED BY <1>1, <1>3, <1>6

-----------------------------------------------------------------------------
(* put_char moves the screen as Show moves the terminal. *)

\* AbstractConsole's NextLine, from position p to position q.
Below(page, next, p, q) ==
    /\ (q % Cols) + 1 = 1
    /\ \/ /\ (p \div Cols) + 1 < Rows
          /\ (q \div Cols) + 1 = ((p \div Cols) + 1) + 1
          /\ next = page
       \/ /\ (p \div Cols) + 1 = Rows
          /\ (q \div Cols) + 1 = (p \div Cols) + 1
          /\ next = Tail(page) \o <<Terminal!EmptyLine>>

\* One line down, or, on the last line, everything one line up.
LEMMA NextLineStep ==
    ASSUME NEW s \in Screens, NEW v, v.s = s, position \in 0 .. Cells - 1,
           \/ /\ (position \div Cols) + 1 < Rows
              /\ screen' = s /\ position' = ((position \div Cols) + 1) * Cols
           \/ /\ (position \div Cols) + 1 = Rows
              /\ screen' = roll_screen(v).s /\ position' = roll_screen(v).p
    PROVE  /\ screen' \in Screens /\ position' \in 1 .. Cells - 1
           /\ Below(Shown(s), Shown(screen'), position, position')
<1> DEFINE k == position \div Cols
<1>1. k \in 0 .. Rows - 1 /\ k \in Nat
  BY PlaceOf
<1>2. CASE k + 1 < Rows /\ screen' = s /\ position' = (k + 1) * Cols
  <2>1. k + 1 \in 0 .. Rows - 1 /\ 0 \in 0 .. Cols - 1 /\ k + 1 >= 1
    BY <1>1, <1>2, Screen
  <2>2. position' \in 0 .. Cells - 1 /\ position' \div Cols = k + 1 /\ position' % Cols = 0
    <3> DEFINE n == k + 1
    <3>1. n * Cols + 0 = n * Cols
      BY <2>1, Screen
    <3>2. n \in 0 .. Rows - 1
      BY <2>1
    <3> HIDE DEF n
    <3>3. n * Cols \in 0 .. Cells - 1 /\ (n * Cols) \div Cols = n /\ (n * Cols) % Cols = 0
      BY <2>1, <3>1, <3>2, CellAt
    <3> QED BY <1>2, <3>3 DEF n
  <2>3. position' >= 1
    BY <1>1, <1>2, Screen
  <2> HIDE DEF k
  <2>4. (position' % Cols) + 1 = 1 /\ (position' \div Cols) + 1 = (k + 1) + 1 /\ Shown(screen') = Shown(s)
    BY <1>2, <2>2
  <2> QED BY <1>2, <2>2, <2>3, <2>4, Screen DEF k, Below
<1>3. CASE k + 1 = Rows /\ screen' = roll_screen(v).s /\ position' = roll_screen(v).p
  <2>1. position' = (Rows - 1) * Cols /\ position' >= 1 /\ position' \in 0 .. Cells - 1
    BY <1>3, Screen DEF roll_screen
  <2>2. position' \div Cols = k /\ position' % Cols = 0
    <3>1. k * Cols + 0 = k * Cols /\ k = Rows - 1 /\ 0 \in 0 .. Cols - 1
      BY <1>1, <1>3, Screen
    <3> HIDE DEF k
    <3>2. (k * Cols) \div Cols = k /\ (k * Cols) % Cols = 0
      BY <1>1, <3>1, CellAt
    <3> QED BY <2>1, <3>1, <3>2
  <2>3. screen' \in Screens
    <3>1. \A i \in 0 .. Cells - 1 : i < Cells - Cols => i + Cols \in 0 .. Cells - 1
      BY Screen
    <3> HIDE DEF Cells
    <3> QED BY <1>3, <3>1 DEF roll_screen, Screens
  <2>4. Shown(screen') = Tail(Shown(s)) \o <<Terminal!EmptyLine>>
    BY <1>3, ShownRoll
  <2>5. /\ (position' % Cols) + 1 = 1 /\ (position \div Cols) + 1 = Rows
        /\ (position' \div Cols) + 1 = (position \div Cols) + 1
    BY <1>3, <2>2
  <2> QED BY <2>1, <2>3, <2>4, <2>5 DEF Below
<1> QED BY <1>2, <1>3

\* line_feed, from a cell of the screen or from the one right behind it.
LEMMA LineFeed ==
    ASSUME NEW s \in Screens, NEW p \in 0 .. Cells
    PROVE  LET v == [s |-> s, p |-> p]
               w == line_feed(v)
           IN  /\ p \div Cols + 1 < Rows => w = [s |-> s, p |-> ((p \div Cols) + 1) * Cols]
               /\ p \div Cols + 1 >= Rows => w = roll_screen(v)
<1> DEFINE v == [s |-> s, p |-> p]
           k == p \div Cols
           j == p % Cols
           q == (p - j) + Cols
<1>1. p \in Nat /\ Cols \in Nat \ {0} /\ Rows \in Nat
  BY Screen
<1>2. k \in Nat /\ j \in 0 .. Cols - 1 /\ p = k * Cols + j
  BY <1>1, DivMod
<1>3. line_feed(v) = IF q < Cells THEN [s |-> s, p |-> q] ELSE roll_screen(v)
  BY DEF line_feed
<1> HIDE DEF k, j
<1>4. q = (k + 1) * Cols
  BY <1>1, <1>2
<1>5. q < Cells <=> k + 1 < Rows
  <2>1. (k + 1) * Cols + 0 < Rows * Cols <=> k + 1 < Rows
    <3>1. k + 1 \in Nat /\ 0 \in 0 .. Cols - 1
      BY <1>1, <1>2
    <3> QED BY <1>1, <3>1, Between
  <2>2. (k + 1) * Cols \in Nat
    BY <1>1, <1>2
  <2> QED BY <1>4, <2>1, <2>2 DEF Cells
<1> HIDE DEF q, v
<1>6. k + 1 \in Nat
  BY <1>2
<1> QED BY <1>1, <1>3, <1>4, <1>5, <1>6 DEF k, v

\* AbstractConsole's Show, likewise.
Shows(page, next, p, q, ch) ==
    \/ ch = LF /\ Below(page, next, p, q)
    \/ /\ ch = BS
       /\ \/ /\ (p % Cols) + 1 > 1
             /\ (q % Cols) + 1 = ((p % Cols) + 1) - 1 /\ (q \div Cols) + 1 = (p \div Cols) + 1
          \/ /\ (p % Cols) + 1 = 1 /\ (p \div Cols) + 1 > 1
             /\ (q % Cols) + 1 = Cols /\ (q \div Cols) + 1 = ((p \div Cols) + 1) - 1
       /\ next = With(page, q \div Cols, q % Cols, Blank)
    \/ /\ ch \notin {LF, BS}
       /\ LET drawn == With(page, p \div Cols, p % Cols, ch)
          IN  \/ (p % Cols) + 1 = Cols /\ Below(drawn, next, p, q)
              \/ /\ (p % Cols) + 1 < Cols /\ (q % Cols) + 1 = ((p % Cols) + 1) + 1
                 /\ (q \div Cols) + 1 = (p \div Cols) + 1 /\ next = drawn

\* put_char draws, deletes, wraps and scrolls as the terminal does, and stays on the screen.
LEMMA ShowStep ==
    ASSUME screen \in Screens, position \in 0 .. Cells - 1,
           NEW ch \in Chars, ch = BS => position > 0,
           NEW v, v = put_char([s |-> screen, p |-> position], ch),
           screen' = v.s, position' = v.p
    PROVE  /\ screen' \in Screens /\ position' \in 0 .. Cells - 1
           /\ ch # BS => position' > 0
           /\ Shows(Shown(screen), Shown(screen'), position, position', ch)
<1> DEFINE at == [s |-> screen, p |-> position]
           k == position \div Cols
           j == position % Cols
<1>1. /\ position \in Nat /\ position < Cells /\ Cells \in Nat /\ Cells - Cols \in Nat
      /\ Cols \in Nat \ {0} /\ Rows \in Nat
  BY Screen
<1>2. k \in 0 .. Rows - 1 /\ j \in 0 .. Cols - 1 /\ position = k * Cols + j
  BY PlaceOf
<1>5. LF # BS
  BY ConsoleAssumption
<1>6. CASE ch = LF
  <2>1. v = line_feed(at)
    BY <1>5, <1>6 DEF put_char
  <2>2. /\ k + 1 < Rows => v = [s |-> screen, p |-> (k + 1) * Cols]
        /\ k + 1 >= Rows => v = roll_screen(at)
    BY <1>1, <2>1, LineFeed
  <2>3. \/ k + 1 < Rows /\ screen' = screen /\ position' = (k + 1) * Cols
        \/ k + 1 = Rows /\ screen' = roll_screen(at).s /\ position' = roll_screen(at).p
    <3> HIDE DEF k, at
    <3> QED BY <1>1, <1>2, <2>2
  <2>4. at.s = screen
    OBVIOUS
  <2> HIDE DEF at
  <2>5. /\ screen' \in Screens /\ position' \in 1 .. Cells - 1
        /\ Below(Shown(screen), Shown(screen'), position, position')
    BY <2>3, <2>4, NextLineStep
  <2>6. Shows(Shown(screen), Shown(screen'), position, position', ch)
    BY <1>6, <2>5 DEF Shows
  <2> QED BY <1>1, <2>5, <2>6
<1>7. CASE ch = BS
  <2>1. v = [s |-> [screen EXCEPT ![position - 1] = Blank], p |-> position - 1]
    <3>1. v = backspace(at)
      BY <1>5, <1>7 DEF put_char
    <3>2. at.s = screen /\ at.p = position /\ position - 1 < Cells
      BY <1>1
    <3> HIDE DEF at
    <3>3. Drawn(at, at.p - 1, Blank) = [at EXCEPT !.s = [screen EXCEPT ![position - 1] = Blank]]
      BY <3>2 DEF Drawn
    <3>4. at = [s |-> screen, p |-> position]
      BY DEF at
    <3> QED BY <3>1, <3>2, <3>3, <3>4 DEF backspace
  <2>2. position - 1 \in 0 .. Cells - 1
    BY <1>1, <1>7
  <2>3. screen' \in Screens
    BY <2>1, <2>2 DEF Screens
  <2>4. Shown(screen') = With(Shown(screen), (position - 1) \div Cols, (position - 1) % Cols, Blank)
    BY <2>1, <2>2, ShownDraw
  <2>5. \/ /\ (position % Cols) + 1 > 1
           /\ (position' % Cols) + 1 = ((position % Cols) + 1) - 1
           /\ (position' \div Cols) + 1 = (position \div Cols) + 1
        \/ /\ (position % Cols) + 1 = 1 /\ (position \div Cols) + 1 > 1
           /\ (position' % Cols) + 1 = Cols
           /\ (position' \div Cols) + 1 = ((position \div Cols) + 1) - 1
    <3>1. position' = position - 1
      BY <2>1
    <3>2. CASE j > 0
      <4> HIDE DEF k, j
      <4>1. position - 1 = k * Cols + (j - 1) /\ j - 1 \in 0 .. Cols - 1
        BY <1>1, <1>2, <3>2
      <4>2. (position - 1) \div Cols = k /\ (position - 1) % Cols = j - 1
        BY <1>2, <4>1, CellAt
      <4> QED BY <1>1, <1>2, <3>1, <3>2, <4>2 DEF k, j
    <3>3. CASE j = 0
      <4> HIDE DEF k, j
      <4>1. k > 0
        BY <1>1, <1>2, <1>7, <3>3
      <4>2. k * Cols = (k - 1) * Cols + Cols /\ k - 1 \in 0 .. Rows - 1 /\ Cols - 1 \in 0 .. Cols - 1
        BY <1>1, <1>2, <4>1
      <4>3. position - 1 = (k - 1) * Cols + (Cols - 1)
        BY <1>1, <1>2, <3>3, <4>2
      <4>4. (position - 1) \div Cols = k - 1 /\ (position - 1) % Cols = Cols - 1
        BY <4>2, <4>3, CellAt
      <4> QED BY <1>1, <1>2, <3>1, <3>3, <4>1, <4>4 DEF k, j
    <3> HIDE DEF k, j
    <3> QED BY <1>2, <3>2, <3>3
  <2>6. position' = position - 1
    BY <2>1
  <2>7. Shown(screen') = With(Shown(screen), position' \div Cols, position' % Cols, Blank)
    BY <2>4, <2>6
  <2>8. Shows(Shown(screen), Shown(screen'), position, position', ch)
    BY <1>7, <2>5, <2>7 DEF Shows
  <2> QED BY <1>7, <2>2, <2>3, <2>6, <2>8
<1>8. CASE ch \notin {LF, BS}
  <2> DEFINE drawn == [screen EXCEPT ![position] = ch]
             w == [s |-> drawn, p |-> position + 1]
  <2>1. v = IF position + 1 < Cells THEN w ELSE line_feed(w)
    <3>1. v = put_other(at, ch)
      BY <1>8 DEF put_char
    <3>2. Drawn(at, at.p, ch) = [s |-> drawn, p |-> position]
      BY <1>1 DEF Drawn
    <3>3. [Drawn(at, at.p, ch) EXCEPT !.p = @ + 1] = w
      BY <3>2
    <3> QED BY <3>1, <3>3 DEF put_other
  <2>2. drawn \in Screens
    BY DEF Screens
  <2>3. Shown(drawn) = With(Shown(screen), position \div Cols, position % Cols, ch)
    <3>1. drawn = [screen EXCEPT ![position] = ch]
      OBVIOUS
    <3> HIDE DEF drawn, w, at, k, j
    <3> QED BY <3>1, ShownDraw
  <2>4. CASE j + 1 < Cols
    <3>1. position + 1 = k * Cols + (j + 1) /\ j + 1 \in 0 .. Cols - 1
      <4> HIDE DEF k, j
      <4> QED BY <1>1, <1>2, <2>4
    <3>2. position + 1 \in 0 .. Cells - 1 /\ (position + 1) \div Cols = k /\ (position + 1) % Cols = j + 1
      <4> HIDE DEF k, j
      <4> QED BY <1>2, <3>1, CellAt
    <3>3. screen' = drawn /\ position' = position + 1
      <4> HIDE DEF drawn
      <4> QED BY <1>1, <2>1, <3>2
    <3>4. /\ (position % Cols) + 1 < Cols
          /\ (position' % Cols) + 1 = ((position % Cols) + 1) + 1
          /\ (position' \div Cols) + 1 = (position \div Cols) + 1
      BY <2>4, <3>2, <3>3
    <3>5. Shows(Shown(screen), Shown(screen'), position, position', ch)
      <4> HIDE DEF drawn
      <4> QED BY <1>8, <2>3, <3>3, <3>4 DEF Shows
    <3>6. position' \in 0 .. Cells - 1 /\ position' > 0
      BY <1>1, <3>2, <3>3
    <3> HIDE DEF drawn
    <3> QED BY <2>2, <3>3, <3>5, <3>6
  <2>5. CASE j + 1 = Cols
    <3>1. position + 1 = (k + 1) * Cols
      <4> HIDE DEF k, j
      <4> QED BY <1>1, <1>2, <2>5
    <3>2. w.s = drawn
      OBVIOUS
    <3>3. \/ k + 1 < Rows /\ screen' = drawn /\ position' = (k + 1) * Cols
          \/ k + 1 = Rows /\ screen' = roll_screen(w).s /\ position' = roll_screen(w).p
      <4>1. CASE k + 1 < Rows
        <5>1. k + 1 \in 0 .. Rows - 1 /\ 0 \in 0 .. Cols - 1 /\ (k + 1) * Cols + 0 = (k + 1) * Cols
          <6> HIDE DEF k, j
          <6> QED BY <1>1, <1>2, <4>1
        <5> DEFINE n == k + 1
        <5> HIDE DEF n
        <5>2. n * Cols + 0 \in 0 .. Cells - 1
          BY <5>1, CellAt DEF n
        <5>3. position + 1 < Cells
          <6> HIDE DEF k
          <6> QED BY <1>1, <3>1, <5>1, <5>2 DEF n
        <5> HIDE DEF drawn, k
        <5> QED BY <2>1, <3>1, <4>1, <5>3
      <4>2. CASE k + 1 = Rows
        <5>1. position + 1 = Cells
          <6> HIDE DEF k, j
          <6> QED BY <3>1, <4>2 DEF Cells
        <5>2. (position + 1) \div Cols = k + 1
          <6>1. Rows * Cols + 0 = Cells /\ 0 \in 0 .. Cols - 1
            BY <1>1 DEF Cells
          <6>2. (Rows * Cols + 0) \div Cols = Rows
            BY <1>1, <6>1, DivModOf
          <6> HIDE DEF k
          <6> QED BY <4>2, <5>1, <6>1, <6>2
        <5>3. line_feed(w) = roll_screen(w)
          <6>1. (position + 1) \div Cols + 1 >= Rows /\ position + 1 \in 0 .. Cells
            <7> HIDE DEF k
            <7> QED BY <1>1, <4>2, <5>1, <5>2
          <6> HIDE DEF drawn
          <6> QED BY <2>2, <6>1, LineFeed
        <5> HIDE DEF w
        <5> QED BY <1>1, <2>1, <4>2, <5>1, <5>3
      <4> HIDE DEF k, w, drawn
      <4> QED BY <1>1, <1>2, <4>1, <4>2
    <3> HIDE DEF w, drawn
    <3>4. /\ screen' \in Screens /\ position' \in 1 .. Cells - 1
          /\ Below(Shown(drawn), Shown(screen'), position, position')
      BY <2>2, <3>2, <3>3, NextLineStep
    <3>5. (position % Cols) + 1 = Cols
      BY <2>5
    <3>6. Shows(Shown(screen), Shown(screen'), position, position', ch)
      BY <1>8, <2>3, <3>4, <3>5 DEF Shows
    <3> QED BY <1>1, <3>4, <3>6
  <2> HIDE DEF j, w
  <2> QED BY <1>1, <1>2, <2>4, <2>5
<1> QED BY <1>6, <1>7, <1>8

-----------------------------------------------------------------------------
(* The steps. *)

Moving == {"set_cursor", "out_hi", "set_lo", "out_lo"}

\* Only the holder of the lock is inside put_char, and the terminal's next
\* character goes where he has read, or where he is about to write.
LEMMA Alone ==
    ASSUME StateInv, HolderInv, NEW t \in Threads, pc[t] # "out"
    PROVE  /\ writer = t /\ t # None
           /\ \A u \in Threads : u # t => pc[u] = "out"
           /\ position = IF pc[t] \in Moving THEN bx[t] ELSE Read
BY ConsoleAssumption DEF HolderInv, writer, position, Moving, Read

\* With the lock free, nobody is inside put_char and the cursor says where the text goes on.
LEMMA NobodyThere ==
    ASSUME StateInv, HolderInv, writer = None
    PROVE  position = Read /\ \A u \in Threads : pc[u] = "out"
BY ConsoleAssumption DEF HolderInv, writer, position, Read

\* A step of put_char that the terminal does not see.
LEMMA Quiet ==
    ASSUME StateInv, HolderInv, SpotInv, NEW t \in Threads, pc[t] # "out",
           NEW to \in Labels \ {"out"}, Goto(t, to), StateInv',
           UNCHANGED <<locks, text, screen, halted>>, position' = position, Ports(t)',
           \A u \in Threads : u # t => bx'[u] = bx[u],
           PortInv
    PROVE  Working' /\ UNCHANGED Terminal!consoleVars
<1>1. \A u \in Threads : pc'[u] = IF u = t THEN to ELSE pc[u]
  BY DEF Goto, StateInv
<1>2. owner' = owner /\ text' = text /\ screen' = screen /\ halted' = halted
  BY DEF locks
<1>3. HolderInv'
  BY <1>1, <1>2 DEF HolderInv
<1>4. SpotInv'
  BY <1>1, <1>2 DEF SpotInv, Apart
<1>5. PortInv'
  <2> SUFFICES ASSUME NEW u \in Threads, u # t PROVE Ports(u)'
    BY DEF PortInv
  <2>1. pc[u] = "out" /\ bx[u] = 0
    BY Alone DEF PortInv, Ports
  <2>2. pc'[u] = "out" /\ bx'[u] = 0
    BY <1>1, <2>1
  <2> QED BY <2>2 DEF Ports
<1>6. UNCHANGED Terminal!consoleVars
  <2>1. writer' = writer
    BY <1>2 DEF writer
  <2>2. (IF writer = None THEN <<>> ELSE text[writer])' = IF writer = None THEN <<>> ELSE text[writer]
    BY <1>2, <2>1
  <2>3. [r \in 1 .. Rows |-> [c \in 1 .. Cols |-> screen[(r - 1) * Cols + c - 1]]]'
            = [r \in 1 .. Rows |-> [c \in 1 .. Cols |-> screen[(r - 1) * Cols + c - 1]]]
    BY <1>2
  <2> QED BY <1>2, <2>1, <2>2, <2>3 DEF Terminal!consoleVars, Terminal!terminal
<1> QED BY <1>3, <1>4, <1>5, <1>6 DEF Working

\* The terminal does not see that a port is selected, nor that it is read (InStep) or that
\* the first half of the cursor is written (OutHiStep).
LEMMA SelectStep ==
    ASSUME Working, NEW t \in Threads, NEW from, NEW to, NEW register,
           Select(t, from, register, to),
           \/ from = "next" /\ register = "hi" /\ to = "in_hi" /\ text[t] # <<>>
           \/ from = "select_lo" /\ register = "lo" /\ to = "in_lo"
           \/ from = "set_cursor" /\ register = "hi" /\ to = "out_hi"
           \/ from = "set_lo" /\ register = "lo" /\ to = "out_lo"
    PROVE  Working' /\ UNCHANGED Terminal!consoleVars
<1>1. /\ StateInv /\ HolderInv /\ SpotInv /\ PortInv /\ pc[t] = from
      /\ to \in Labels \ {"out"} /\ Goto(t, to)
  BY DEF Working, Select, At, Labels
<1>2. pc' = [pc EXCEPT ![t] = to] /\ pc'[t] = to /\ index' = register
      /\ UNCHANGED <<locks, text, bx, cursor, screen, halted>>
  BY <1>1 DEF Select, Goto, StateInv
<1>3. StateInv'
  BY <1>1, <1>2 DEF StateInv, locks
<1>4. HolderInv'
  BY <1>1, <1>2 DEF HolderInv, StateInv, locks
<1>5. position' = position
  <2>1. position = IF from \in Moving THEN bx[t] ELSE Read
    BY <1>1, Alone
  <2>2. position' = IF to \in Moving THEN bx'[t] ELSE Read'
    <3>1. owner'[console_lock] = t /\ t # None
      BY <1>1, <1>2, <1>4, ConsoleAssumption DEF HolderInv
    <3> QED BY <1>2, <3>1 DEF position, writer, Read, Moving
  <2>3. Read' = Read /\ bx'[t] = bx[t]
    BY <1>2 DEF Read
  <2> QED BY <2>1, <2>2, <2>3 DEF Moving
<1>6. Ports(t)'
  <2>1. Ports(t)
    BY <1>1 DEF PortInv
  <2> QED BY <1>1, <1>2, <2>1 DEF Ports, Read
<1> QED BY <1>1, <1>2, <1>3, <1>5, <1>6, Quiet

\* The high half of the cursor, then the low half: bx holds what the cursor does.
LEMMA InStep ==
    ASSUME Working, NEW t \in Threads, NEW from, NEW to, NEW weight,
           In(t, from, weight, to),
           \/ from = "in_hi" /\ weight = Base /\ to = "select_lo"
           \/ from = "in_lo" /\ weight = 1 /\ to = "draw"
    PROVE  Working' /\ UNCHANGED Terminal!consoleVars
<1>1. /\ StateInv /\ HolderInv /\ SpotInv /\ PortInv /\ pc[t] = from
      /\ to \in Labels \ {"out"} /\ Goto(t, to)
  BY DEF Working, In, At, Labels
<1>2. /\ pc' = [pc EXCEPT ![t] = to] /\ pc'[t] = to
      /\ bx' = [bx EXCEPT ![t] = @ + weight * cursor[index]]
      /\ UNCHANGED <<locks, text, index, cursor, screen, halted>>
  BY <1>1 DEF In, Goto, StateInv
<1>3. Ports(t)
  BY <1>1 DEF PortInv
<1>4. /\ cursor.hi \in Nat /\ cursor.lo \in Nat /\ Base \in Nat /\ Base * cursor.hi \in Nat
      /\ Read \in Nat
  BY <1>1, Screen DEF StateInv, Read
<1>5. bx'[t] = IF to = "draw" THEN Read ELSE Base * cursor.hi
  <2>1. bx'[t] = bx[t] + weight * cursor[index]
    BY <1>1, <1>2 DEF StateInv
  <2>2. CASE from = "in_hi"
    <3>1. bx[t] = 0 /\ cursor[index] = cursor.hi /\ weight = Base /\ to = "select_lo"
      BY <1>1, <1>3, <2>2 DEF Ports
    <3> QED BY <1>4, <2>1, <3>1
  <2>3. CASE from = "in_lo"
    <3>1. bx[t] = Base * cursor.hi /\ cursor[index] = cursor.lo /\ weight = 1 /\ to = "draw"
      BY <1>1, <1>3, <2>3 DEF Ports
    <3> QED BY <1>4, <2>1, <3>1 DEF Read
  <2> QED BY <2>2, <2>3
<1>6. StateInv'
  <2>1. bx' \in [Threads -> Nat]
    BY <1>1, <1>2, <1>4, <1>5 DEF StateInv
  <2> QED BY <1>1, <1>2, <2>1 DEF StateInv, locks
<1>7. HolderInv'
  BY <1>1, <1>2 DEF HolderInv, StateInv, locks
<1>8. position' = position
  <2>1. position = Read
    BY <1>1, Alone DEF Moving
  <2>2. owner'[console_lock] = t /\ t # None
    BY <1>1, <1>2, <1>7, ConsoleAssumption DEF HolderInv
  <2>3. position' = Read
    BY <1>2, <2>2 DEF position, writer, Read
  <2> QED BY <2>1, <2>3
<1>9. Ports(t)'
  BY <1>1, <1>2, <1>3, <1>5 DEF Ports, Read
<1>10. \A u \in Threads : u # t => bx'[u] = bx[u]
  BY <1>1, <1>2 DEF StateInv
<1> QED BY <1>1, <1>2, <1>6, <1>8, <1>9, <1>10, Quiet

\* The first half: the cursor is torn, and only bx says where the text goes on.
LEMMA OutHiStep ==
    ASSUME Working, NEW t \in Threads,
           Out(t, "out_hi", bx[t] \div Base, "set_lo"), UNCHANGED bx
    PROVE  Working' /\ UNCHANGED Terminal!consoleVars
<1>1. /\ StateInv /\ HolderInv /\ SpotInv /\ PortInv /\ pc[t] = "out_hi"
      /\ "set_lo" \in Labels \ {"out"} /\ Goto(t, "set_lo")
  BY DEF Working, Out, At, Labels
<1>2. /\ pc' = [pc EXCEPT ![t] = "set_lo"] /\ pc'[t] = "set_lo" /\ bx' = bx
      /\ cursor' = [cursor EXCEPT ![index] = bx[t] \div Base]
      /\ UNCHANGED <<locks, text, index, screen, halted>>
  BY <1>1 DEF Out, Goto, StateInv
<1>3. index = "hi"
  BY <1>1 DEF PortInv, Ports
<1>4. bx[t] \in Nat /\ bx[t] \div Base \in Nat
  <2>1. bx[t] \in Nat
    BY <1>1 DEF StateInv
  <2> QED BY <2>1, Screen, DivMod
<1>5. cursor' \in [hi : Nat, lo : Nat] /\ cursor'.hi = bx[t] \div Base
  BY <1>1, <1>2, <1>3, <1>4 DEF StateInv
<1>6. StateInv'
  BY <1>1, <1>2, <1>5 DEF StateInv, locks, Labels
<1>7. HolderInv'
  BY <1>1, <1>2 DEF HolderInv, StateInv, locks
<1>8. position' = position
  <2>1. position = bx[t]
    BY <1>1, Alone DEF Moving
  <2>2. owner'[console_lock] = t /\ t # None
    BY <1>1, <1>2, <1>7, ConsoleAssumption DEF HolderInv
  <2>3. position' = bx[t]
    BY <1>2, <2>2 DEF position, writer
  <2> QED BY <2>1, <2>3
<1>9. Ports(t)'
  BY <1>2, <1>5 DEF Ports
<1> QED BY <1>1, <1>2, <1>6, <1>8, <1>9, Quiet

\* The second half: the cursor holds what put_char has computed.
LEMMA OutLoStep ==
    ASSUME Working, NEW t \in Threads,
           Out(t, "out_lo", bx[t] % Base, "next"), bx' = [bx EXCEPT ![t] = 0]
    PROVE  Working' /\ UNCHANGED Terminal!consoleVars
<1>1. /\ StateInv /\ HolderInv /\ SpotInv /\ PortInv /\ pc[t] = "out_lo"
      /\ "next" \in Labels \ {"out"} /\ Goto(t, "next")
  BY DEF Working, Out, At, Labels
<1>2. /\ pc' = [pc EXCEPT ![t] = "next"] /\ pc'[t] = "next" /\ bx' \in [Threads -> Nat]
      /\ bx'[t] = 0 /\ \A u \in Threads : u # t => bx'[u] = bx[u]
      /\ cursor' = [cursor EXCEPT ![index] = bx[t] % Base]
      /\ UNCHANGED <<locks, text, index, screen, halted>>
  BY <1>1 DEF Out, Goto, StateInv
<1>3. index = "lo" /\ cursor.hi = bx[t] \div Base
  BY <1>1 DEF PortInv, Ports
<1>4. /\ bx[t] \in Nat /\ bx[t] % Base \in Nat /\ bx[t] \div Base \in Nat
      /\ bx[t] = Base * (bx[t] \div Base) + (bx[t] % Base)
  <2>1. bx[t] \in Nat
    BY <1>1 DEF StateInv
  <2> DEFINE q == bx[t] \div Base
             r == bx[t] % Base
  <2>2. q \in Nat /\ r \in 0 .. Base - 1 /\ bx[t] = q * Base + r
    BY <2>1, Screen, DivMod
  <2> HIDE DEF q, r
  <2>3. r \in Nat /\ bx[t] = Base * q + r
    BY <2>2, Screen
  <2> QED BY <2>1, <2>2, <2>3 DEF q, r
<1>5. /\ cursor' \in [hi : Nat, lo : Nat] /\ cursor'.hi = bx[t] \div Base
      /\ cursor'.lo = bx[t] % Base
  BY <1>1, <1>2, <1>3, <1>4 DEF StateInv
<1>6. StateInv'
  BY <1>1, <1>2, <1>5 DEF StateInv, locks, Labels
<1>7. HolderInv'
  BY <1>1, <1>2 DEF HolderInv, StateInv, locks
<1>8. position' = position
  <2>1. position = bx[t]
    BY <1>1, Alone DEF Moving
  <2>2. owner'[console_lock] = t /\ t # None
    BY <1>1, <1>2, <1>7, ConsoleAssumption DEF HolderInv
  <2>3. position' = Base * cursor'.hi + cursor'.lo
    BY <1>2, <2>2 DEF position, writer
  <2> QED BY <1>4, <1>5, <2>1, <2>3
<1>9. Ports(t)'
  BY <1>2 DEF Ports
<1> QED BY <1>1, <1>2, <1>6, <1>8, <1>9, Quiet

\* In what is left of a text, too, no backspace comes first or after another one.
LEMMA ApartTail ==
    ASSUME NEW s \in Seq(Chars), s # <<>>, Apart(s)
    PROVE  /\ Head(s) \in Chars /\ Tail(s) \in Seq(Chars) /\ Apart(Tail(s))
           /\ Tail(s) # <<>> /\ Head(Tail(s)) = BS => Head(s) # BS
<1>1. /\ Len(s) \in Nat /\ Len(s) >= 1 /\ Head(s) = s[1] /\ Tail(s) \in Seq(Chars)
      /\ Head(s) \in Chars /\ Len(Tail(s)) = Len(s) - 1
      /\ \A i \in 1 .. Len(Tail(s)) : Tail(s)[i] = s[i + 1]
  OBVIOUS
<1>2. Apart(Tail(s))
  <2> SUFFICES ASSUME NEW i \in 2 .. Len(Tail(s)), Tail(s)[i] = BS
               PROVE  Tail(s)[i - 1] # BS
    BY DEF Apart
  <2>1. i + 1 \in 2 .. Len(s) /\ s[i + 1] = BS /\ (i + 1) - 1 = i /\ (i - 1) + 1 = i
        /\ i - 1 \in 1 .. Len(Tail(s))
    BY <1>1
  <2>2. s[i] # BS
    BY <2>1 DEF Apart
  <2> QED BY <1>1, <2>1, <2>2
<1>3. ASSUME Tail(s) # <<>>, Head(Tail(s)) = BS PROVE Head(s) # BS
  <2>1. Len(Tail(s)) >= 1 /\ Tail(s)[1] = BS
    BY <1>1, <1>3
  <2>2. 2 \in 2 .. Len(s) /\ s[2] = BS
    BY <1>1, <2>1
  <2> QED BY <1>1, <2>2 DEF Apart
<1> QED BY <1>1, <1>2, <1>3

\* Drawing a character is what the terminal sees of put_char.
LEMMA DrawStep ==
    ASSUME Working, NEW t \in Threads, Draw(t)
    PROVE  Working' /\ Terminal!Put
<1>1. StateInv /\ HolderInv /\ SpotInv /\ PortInv /\ pc[t] = "draw"
  BY DEF Working, Draw, At
<1> PICK ch : ch = Head(text[t])
  OBVIOUS
<1> PICK v : v = put_char([s |-> screen, p |-> bx[t]], ch)
  OBVIOUS
<1>2. /\ pc' = [pc EXCEPT ![t] = "set_cursor"] /\ pc'[t] = "set_cursor"
      /\ screen' = v.s /\ bx' = [bx EXCEPT ![t] = v.p]
      /\ text' = [text EXCEPT ![t] = Tail(text[t])]
      /\ UNCHANGED <<locks, index, cursor, halted>>
  BY <1>1 DEF Draw, Goto, StateInv
<1>3. /\ text[t] \in Seq(Chars) /\ text[t] # <<>> /\ Apart(text[t])
      /\ ch = BS => position > 0
  BY <1>1 DEF StateInv, PortInv, Ports, SpotInv
<1>4. /\ ch \in Chars /\ Tail(text[t]) \in Seq(Chars) /\ Apart(Tail(text[t]))
      /\ Tail(text[t]) # <<>> /\ Head(Tail(text[t])) = BS => ch # BS
  BY <1>3, ApartTail
<1>5. position = bx[t] /\ writer = t /\ t # None /\ \A u \in Threads : u # t => pc[u] = "out"
  BY <1>1, Alone DEF Moving, PortInv, Ports
<1>6. /\ bx'[t] = v.p /\ text'[t] = Tail(text[t])
      /\ \A u \in Threads : u # t => bx'[u] = bx[u] /\ text'[u] = text[u] /\ pc'[u] = pc[u]
  <2> QED BY <1>1, <1>2 DEF StateInv
<1>7. HolderInv'
  <2> QED BY <1>1, <1>2, <1>6 DEF HolderInv, locks
<1>8. owner'[console_lock] = t
  <2> QED BY <1>2, <1>5 DEF writer, locks
<1>9. position' = v.p
  <2> QED BY <1>2, <1>5, <1>6, <1>8 DEF position, writer
<1>10. /\ screen' \in Screens /\ position' \in 0 .. Cells - 1
       /\ ch # BS => position' > 0
       /\ Shows(Shown(screen), Shown(screen'), position, position', ch)
  <2>1. screen \in Screens /\ position \in 0 .. Cells - 1
    BY <1>1 DEF StateInv, Screens, SpotInv
  <2>2. v = put_char([s |-> screen, p |-> position], ch)
    BY <1>5
  <2> QED BY <1>2, <1>3, <1>4, <1>9, <2>1, <2>2, ShowStep
<1>11. StateInv'
  <2>1. position' \in Nat
    BY <1>10, Screen
  <2>2. bx' \in [Threads -> Nat] /\ text' \in [Threads -> Seq(Chars)]
    BY <1>1, <1>2, <1>4, <1>9, <2>1 DEF StateInv
  <2> QED BY <1>1, <1>2, <1>10, <2>2 DEF StateInv, locks, Labels, Screens
<1>12. SpotInv'
  <2> SUFFICES ASSUME NEW u \in Threads
               PROVE  /\ Apart(text'[u])
                      /\ pc'[u] # "out" /\ text'[u] # <<>> /\ Head(text'[u]) = BS => position' > 0
    BY <1>10 DEF SpotInv, Apart
  <2>1. CASE u = t
    BY <1>4, <1>6, <1>10, <2>1
  <2>2. CASE u # t
    BY <1>1, <1>5, <1>6, <2>2 DEF SpotInv
  <2> QED BY <2>1, <2>2
<1>13. PortInv'
  <2> SUFFICES ASSUME NEW u \in Threads PROVE Ports(u)'
    BY DEF PortInv
  <2>1. CASE u = t
    BY <1>2, <2>1 DEF Ports
  <2>2. CASE u # t
    BY <1>1, <1>5, <1>6, <2>2 DEF PortInv, Ports
  <2> QED BY <2>1, <2>2
<1>14. Terminal!Put
  <2>1. (IF writer = None THEN <<>> ELSE text[writer]) = text[t]
    BY <1>5
  <2>2. (IF writer = None THEN <<>> ELSE text[writer])' = Tail(text[t])
    BY <1>5, <1>6, <1>8 DEF writer
  <2>3. writer' = writer /\ halted' = halted
    BY <1>2, <1>5, <1>8 DEF writer
  <2>4. Terminal!Show(Head(IF writer = None THEN <<>> ELSE text[writer]))
    <3>1. Head(IF writer = None THEN <<>> ELSE text[writer]) = ch
      BY <2>1
    <3>2. Shows(Shown(screen), Shown(screen'), position, position',
                Head(IF writer = None THEN <<>> ELSE text[writer]))
      BY <1>10, <3>1
    <3>3. [r \in 1 .. Rows |-> [c \in 1 .. Cols |-> screen[(r - 1) * Cols + c - 1]]] = Shown(screen)
      BY DEF Shown
    <3>4. [r \in 1 .. Rows |-> [c \in 1 .. Cols |-> screen[(r - 1) * Cols + c - 1]]]' = Shown(screen')
      BY DEF Shown
    <3>5. /\ ((position % Cols) + 1)' = (position' % Cols) + 1
          /\ ((position \div Cols) + 1)' = (position' \div Cols) + 1
      OBVIOUS
    <3> QED BY <3>2, <3>3, <3>4, <3>5, Zenon
            DEF Terminal!Show, Terminal!NextLine, Terminal!StepBack, Shows, Below, With
  <2>5. (IF writer = None THEN <<>> ELSE text[writer]) # <<>>
    BY <1>3, <2>1
  <2> QED BY <2>1, <2>2, <2>3, <2>4, <2>5, Zenon DEF Terminal!Put
<1> QED BY <1>7, <1>11, <1>12, <1>13, <1>14 DEF Working

\* The lock is taken: a new text begins.
LEMMA CallStep ==
    ASSUME Working, NEW t \in Threads, NEW s \in Texts, Call(t, s)
    PROVE  Working' /\ Terminal!Begin(t, s)
<1>1. StateInv /\ HolderInv /\ SpotInv /\ PortInv /\ pc[t] = "out"
  BY DEF Working, Call, At
<1>2. /\ owner[console_lock] = None /\ owner' = [owner EXCEPT ![console_lock] = t]
      /\ text' = [text EXCEPT ![t] = s] /\ pc' = [pc EXCEPT ![t] = "next"]
      /\ UNCHANGED <<bx, index, cursor, screen, halted>>
  BY DEF Call, console_acquire, Lock!Acquire, Goto
<1>3. s \in Seq(Chars) /\ Apart(s) /\ (s # <<>> => Head(s) # BS) /\ t # None
  <2>1. /\ s \in Seq(Chars) /\ t # None
        /\ \A i \in 1 .. Len(s) : s[i] = BS => i > 1 /\ s[i - 1] # BS
    BY ConsoleAssumption
  <2>2. Apart(s)
    BY <2>1 DEF Apart
  <2>3. ASSUME s # <<>> PROVE Head(s) # BS
    BY <2>1, <2>3
  <2> QED BY <2>1, <2>2, <2>3
<1>4. t # None /\ owner'[console_lock] = t /\ pc'[t] = "next" /\ text'[t] = s
      /\ \A u \in Threads : u # t => pc'[u] = pc[u] /\ text'[u] = text[u]
  BY <1>1, <1>2, ConsoleAssumption DEF StateInv
<1>5. position = Read /\ \A u \in Threads : pc[u] = "out"
  BY <1>1, <1>2, NobodyThere DEF writer
<1>6. StateInv'
  BY <1>1, <1>2, <1>3 DEF StateInv, Labels
<1>7. HolderInv'
  BY <1>4, <1>5 DEF HolderInv
<1>8. position' = Read
  BY <1>2, <1>4 DEF position, writer, Read
<1>9. SpotInv'
  <2> SUFFICES ASSUME NEW u \in Threads
               PROVE  /\ Apart(text'[u])
                      /\ pc'[u] # "out" /\ text'[u] # <<>> => Head(text'[u]) # BS
    BY <1>1, <1>5, <1>8 DEF SpotInv, Apart
  <2> QED BY <1>1, <1>3, <1>4, <1>5 DEF SpotInv
<1>10. PortInv'
  BY <1>1, <1>2, <1>4, <1>5 DEF PortInv, Ports
<1>11. Terminal!Begin(t, s)
  <2>1. writer = None /\ writer' = t
    BY <1>2, <1>4 DEF writer
  <2>2. (IF writer = None THEN <<>> ELSE text[writer])' = s
    BY <1>4, <2>1
  <2>3. position' = position /\ screen' = screen /\ halted' = halted
    BY <1>2, <1>5, <1>8
  <2>4. [r \in 1 .. Rows |-> [c \in 1 .. Cols |-> screen[(r - 1) * Cols + c - 1]]]'
            = [r \in 1 .. Rows |-> [c \in 1 .. Cols |-> screen[(r - 1) * Cols + c - 1]]]
    BY <2>3
  <2> QED BY <2>1, <2>2, <2>3, <2>4 DEF Terminal!Begin, Terminal!terminal
<1> QED BY <1>6, <1>7, <1>9, <1>10, <1>11 DEF Working

\* The lock is given back: the text has ended.
LEMMA ReleaseStep ==
    ASSUME Working, NEW t \in Threads, console_release(t)
    PROVE  Working' /\ Terminal!End
<1>1. StateInv /\ HolderInv /\ SpotInv /\ PortInv /\ pc[t] = "next" /\ text[t] = <<>>
  BY DEF Working, console_release, At
<1>2. /\ owner' = [owner EXCEPT ![console_lock] = None]
      /\ pc' = [pc EXCEPT ![t] = "out"]
      /\ UNCHANGED <<text, bx, index, cursor, screen, halted>>
  BY DEF console_release, Lock!Release, Goto
<1>3. writer = t /\ t # None /\ position = Read /\ \A u \in Threads : u # t => pc[u] = "out"
  BY <1>1, Alone DEF Moving
<1>4. owner'[console_lock] = None /\ \A u \in Threads : pc'[u] = "out"
  BY <1>1, <1>2, <1>3 DEF StateInv
<1>5. StateInv'
  BY <1>1, <1>2 DEF StateInv, Labels
<1>6. HolderInv'
  BY <1>4, ConsoleAssumption DEF HolderInv
<1>7. position' = Read
  BY <1>2, <1>4 DEF position, writer, Read
<1>8. SpotInv'
  BY <1>1, <1>2, <1>3, <1>4, <1>7 DEF SpotInv, Apart
<1>9. PortInv'
  BY <1>1, <1>2, <1>3, <1>4 DEF PortInv, Ports
<1>10. Terminal!End
  <2>1. writer' = None
    BY <1>4 DEF writer
  <2>2. /\ (IF writer = None THEN <<>> ELSE text[writer]) = <<>>
        /\ (IF writer = None THEN <<>> ELSE text[writer])' = <<>>
    BY <1>1, <1>3, <2>1
  <2>3. position' = position /\ screen' = screen /\ halted' = halted
    BY <1>2, <1>3, <1>7
  <2>4. [r \in 1 .. Rows |-> [c \in 1 .. Cols |-> screen[(r - 1) * Cols + c - 1]]]'
            = [r \in 1 .. Rows |-> [c \in 1 .. Cols |-> screen[(r - 1) * Cols + c - 1]]]
    BY <2>3
  <2> QED BY <1>3, <2>1, <2>2, <2>3, <2>4 DEF Terminal!End, Terminal!terminal
<1> QED BY <1>5, <1>6, <1>8, <1>9, <1>10 DEF Working

-----------------------------------------------------------------------------
\* An empty screen with the cursor in its first cell.
LEMMA InitWorks == Init => Working /\ Terminal!Init
<1> SUFFICES ASSUME Init PROVE Working /\ Terminal!Init
  OBVIOUS
<1>1. StateInv
  BY DEF Init, StateInv, Lock!Init, Labels
<1>2. writer = None /\ \A u \in Threads : pc[u] = "out" /\ text[u] = <<>>
  BY DEF Init, writer, Lock!Init
<1>3. HolderInv
  BY <1>2, ConsoleAssumption DEF HolderInv, writer
<1>4. position = 0
  BY <1>2, Screen DEF Init, position
<1>5. SpotInv
  BY <1>2, <1>4, Screen DEF SpotInv, Apart
<1>6. PortInv
  BY DEF Init, PortInv, Ports
<1>7. position \div Cols = 0 /\ position % Cols = 0
  <2>1. 0 * Cols + 0 = 0 /\ 0 \in 0 .. Cols - 1
    BY Screen
  <2>2. (0 * Cols + 0) \div Cols = 0 /\ (0 * Cols + 0) % Cols = 0
    BY <2>1, Screen, DivModOf
  <2> QED BY <1>4, <2>1, <2>2
<1>8. [r \in 1 .. Rows |-> [c \in 1 .. Cols |-> screen[(r - 1) * Cols + c - 1]]]
          = [r \in 1 .. Rows |-> Terminal!EmptyLine]
  <2>1. \A r \in 1 .. Rows, c \in 1 .. Cols : screen[(r - 1) * Cols + c - 1] = Blank
    <3> SUFFICES ASSUME NEW r \in 1 .. Rows, NEW c \in 1 .. Cols
                 PROVE  screen[(r - 1) * Cols + c - 1] = Blank
      OBVIOUS
    <3>1. r - 1 \in 0 .. Rows - 1 /\ c - 1 \in 0 .. Cols - 1 /\ (r - 1) * Cols \in Int
      BY Screen
    <3>2. (r - 1) * Cols + (c - 1) \in 0 .. Cells - 1
      BY <3>1, CellAt
    <3>3. (r - 1) * Cols + (c - 1) = (r - 1) * Cols + c - 1
      BY <3>1
    <3> QED BY <3>2, <3>3 DEF Init
  <2> QED BY <2>1 DEF Terminal!EmptyLine
<1>9. Terminal!Init
  <2>1. (position \div Cols) + 1 = 1 /\ (position % Cols) + 1 = 1
    BY <1>7
  <2>2. (IF writer = None THEN <<>> ELSE text[writer]) = <<>> /\ halted = FALSE
    BY <1>2 DEF Init
  <2> QED BY <1>2, <1>8, <2>1, <2>2, Zenon DEF Terminal!Init
<1> QED BY <1>1, <1>3, <1>5, <1>6, <1>9 DEF Working

\* Every step of the console is one of the terminal's, or none.
LEMMA NextWorks ==
    IInv /\ [Next]_vars => IInv' /\ [Terminal!Next]_Terminal!consoleVars
<1> SUFFICES ASSUME IInv, [Next]_vars PROVE IInv' /\ [Terminal!Next]_Terminal!consoleVars
  OBVIOUS
<1>1. CASE UNCHANGED vars
  <2>1. IInv'
    BY <1>1 DEF IInv, Working, StateInv, HolderInv, PortInv, Ports, SpotInv, Apart, position, writer, Read,
       vars, locks
  <2>2. UNCHANGED <<owner, pc, text, bx, cursor, screen, halted>>
    BY <1>1 DEF vars, locks
  <2>3. position' = position /\ writer' = writer
    BY <2>2 DEF position, writer
  <2>4. [r \in 1 .. Rows |-> [c \in 1 .. Cols |-> screen[(r - 1) * Cols + c - 1]]]'
            = [r \in 1 .. Rows |-> [c \in 1 .. Cols |-> screen[(r - 1) * Cols + c - 1]]]
    BY <2>2
  <2>5. (IF writer = None THEN <<>> ELSE text[writer])' = IF writer = None THEN <<>> ELSE text[writer]
    BY <2>2, <2>3
  <2>6. UNCHANGED Terminal!consoleVars
    BY <2>2, <2>3, <2>4, <2>5 DEF Terminal!consoleVars, Terminal!terminal
  <2> QED BY <2>1, <2>6
<1>2. CASE panic_spin
  BY <1>2 DEF panic_spin, IInv, Terminal!Next, Terminal!Halt
<1>3. ASSUME NEW t \in Threads, PutChar(t) \/ console_release(t) \/ \E s \in Texts : Call(t, s)
      PROVE  IInv' /\ [Terminal!Next]_Terminal!consoleVars
  <2>1. ~halted
    BY <1>3 DEF PutChar, Select, In, Draw, Out, console_release, Call, At
  <2>2. Working
    BY <2>1 DEF IInv
  <2>3. CASE console_release(t)
    BY <2>1, <2>2, <2>3, ReleaseStep DEF IInv, Terminal!Next
  <2>4. CASE \E s \in Texts : Call(t, s)
    <3>1. PICK s \in Texts : Call(t, s)
      BY <2>4
    <3>2. Working' /\ Terminal!Begin(t, s)
      BY <2>2, <3>1, CallStep
    <3> QED BY <2>1, <3>2 DEF IInv, Terminal!Next
  <2>5. CASE Draw(t)
    BY <2>1, <2>2, <2>5, DrawStep DEF IInv, Terminal!Next
  <2>6. CASE \/ text[t] # <<>> /\ Select(t, "next", "hi", "in_hi")
             \/ Select(t, "select_lo", "lo", "in_lo")
             \/ Select(t, "set_cursor", "hi", "out_hi")
             \/ Select(t, "set_lo", "lo", "out_lo")
    BY <2>2, <2>6, SelectStep DEF IInv
  <2>7. CASE In(t, "in_hi", Base, "select_lo") \/ In(t, "in_lo", 1, "draw")
    BY <2>2, <2>7, InStep DEF IInv
  <2>8. CASE Out(t, "out_hi", bx[t] \div Base, "set_lo") /\ UNCHANGED bx
    BY <2>2, <2>8, OutHiStep DEF IInv
  <2>9. CASE Out(t, "out_lo", bx[t] % Base, "next") /\ bx' = [bx EXCEPT ![t] = 0]
    BY <2>2, <2>9, OutLoStep DEF IInv
  <2> QED BY <1>3, <2>3, <2>4, <2>5, <2>6, <2>7, <2>8, <2>9 DEF PutChar
<1> QED BY <1>1, <1>2, <1>3 DEF Next

\* Whatever threads print and wherever they lose the CPU inside put_char, the
\* console shows what a terminal shows that takes one text after the other.
THEOREM TerminalImplemented == Spec => ImplementsTerminal
<1>1. Init => IInv /\ Terminal!Init
  BY InitWorks DEF IInv
<1>2. IInv /\ [Next]_vars => IInv' /\ [Terminal!Next]_Terminal!consoleVars
  BY NextWorks
<1>3. Spec => Terminal!Spec
  BY <1>1, <1>2, PTL DEF Spec, Terminal!Spec
<1> QED BY <1>3 DEF ImplementsTerminal

\* As long as the machine works, a thread inside put_char finds its register
\* and the cursor as it left them, and draws inside the screen.
THEOREM CursorOwned == Spec => []IInv
<1>1. Init => IInv
  BY InitWorks DEF IInv
<1>2. IInv /\ [Next]_vars => IInv'
  BY NextWorks
<1> QED BY <1>1, <1>2, PTL DEF Spec

-----------------------------------------------------------------------------
(* Induction and recursion over the naturals, without an operator as a     *)
(* parameter.                                                              *)

\* Among the intervals that end in a natural outside of T, the smallest by
\* inclusion would end in a successor of a member.
LEMMA Induction ==
    ASSUME NEW T \in SUBSET Nat, 0 \in T, \A n \in T : n + 1 \in T
    PROVE  \A n \in Nat : n \in T
<1> DEFINE S == {0 .. n : n \in Nat \ T}
<1> SUFFICES ASSUME NEW z \in Nat \ T PROVE FALSE
  OBVIOUS
<1>1. S \subseteq FiniteSubsetsOf(Nat)
  <2>1. \A n \in Nat : IsFiniteSet(0 .. n)
    BY FS_Interval
  <2> QED BY <2>1 DEF FiniteSubsetsOf
<1>2. PICK i \in S : \A y \in S : ~(<<y, i>> \in StrictSubsetOrdering(Nat))
  <2>1. S # {}
    OBVIOUS
  <2> HIDE DEF S
  <2> QED BY <1>1, <2>1, FS_StrictSubsetOrderingWellFounded, WFMin
<1>3. PICK m \in Nat \ T : i = 0 .. m
  OBVIOUS
<1>4. m - 1 \in Nat /\ m - 1 \notin T
  <2>1. m # 0
    OBVIOUS
  <2>2. m - 1 \in Nat /\ (m - 1) + 1 = m
    BY <2>1
  <2> QED BY <2>2
<1>5. 0 .. m - 1 \in S /\ 0 .. m - 1 \subseteq Nat /\ i \subseteq Nat
  BY <1>3, <1>4
<1>6. 0 .. m - 1 \subseteq i /\ m \in i /\ m \notin 0 .. m - 1
  BY <1>3, <1>4
<1>7. <<0 .. m - 1, i>> \in StrictSubsetOrdering(Nat)
  BY <1>5, <1>6 DEF StrictSubsetOrdering
<1> QED BY <1>2, <1>5, <1>7

Walked(f, n, S, v, G) ==
    f \in [0 .. n -> S] /\ f[0] = v /\ \A k \in 1 .. n : f[k] = G[<<f[k - 1], k>>]

\* A step can be taken n times.
LEMMA Iterated ==
    ASSUME NEW n \in Nat, NEW S, NEW v \in S, NEW G \in [S \X (1 .. n) -> S]
    PROVE  \E f : Walked(f, n, S, v, G)
<1> DEFINE Runs(m, f) == f[0] = v /\ \A k \in 1 .. m : f[k] = G[<<f[k - 1], k>>]
           T == {m \in Nat : m <= n => \E f \in [0 .. m -> S] : Runs(m, f)}
<1>1. 0 \in T
  <2>1. [k \in 0 .. 0 |-> v] \in [0 .. 0 -> S] /\ Runs(0, [k \in 0 .. 0 |-> v])
    OBVIOUS
  <2> QED BY <2>1
<1>2. ASSUME NEW m \in T PROVE m + 1 \in T
  <2> SUFFICES ASSUME m + 1 <= n PROVE \E f \in [0 .. m + 1 -> S] : Runs(m + 1, f)
    OBVIOUS
  <2>1. PICK f \in [0 .. m -> S] : Runs(m, f)
    OBVIOUS
  <2> DEFINE g == [k \in 0 .. m + 1 |-> IF k = m + 1 THEN G[<<f[m], m + 1>>] ELSE f[k]]
  <2>2. m \in Nat /\ f[m] \in S /\ G[<<f[m], m + 1>>] \in S
    OBVIOUS
  <2>3. g[m + 1] = G[<<f[m], m + 1>>] /\ \A k \in 0 .. m : g[k] = f[k]
    BY <2>2
  <2>4. \A k \in 0 .. m + 1 : g[k] \in S /\ (k = m + 1 \/ k \in 0 .. m)
    BY <2>2, <2>3
  <2>5. g = [k \in 0 .. m + 1 |-> g[k]]
    OBVIOUS
  <2> HIDE DEF g
  <2>6. g \in [0 .. m + 1 -> S]
    BY <2>4, <2>5
  <2>7. g[0] = v
    BY <2>1, <2>2, <2>3
  <2>8. ASSUME NEW k \in 1 .. m + 1 PROVE g[k] = G[<<g[k - 1], k>>]
    <3>1. CASE k = m + 1
      <4>1. k - 1 = m /\ m \in 0 .. m
        BY <2>2, <3>1
      <4> QED BY <2>3, <3>1, <4>1
    <3>2. CASE k \in 1 .. m
      <4>1. k - 1 \in 0 .. m /\ k \in 0 .. m
        BY <2>2, <3>2
      <4> QED BY <2>1, <2>3, <3>2, <4>1
    <3> QED BY <2>2, <3>1, <3>2
  <2>9. Runs(m + 1, g)
    BY <2>7, <2>8
  <2> HIDE DEF Runs
  <2> QED BY <2>6, <2>9
<1> HIDE DEF Runs
<1>3. T \in SUBSET Nat
  OBVIOUS
<1> HIDE DEF T
<1>4. n \in T
  BY <1>1, <1>2, <1>3, Induction
<1>5. \E f \in [0 .. n -> S] : Runs(n, f)
  BY <1>4 DEF T
<1> QED BY <1>5, Zenon DEF Runs, Walked

-----------------------------------------------------------------------------
(* What panic_spin prints. *)

Symbols == UNION {Range(Report[i]) : i \in DOMAIN Report}

Views == [s : [0 .. Cells - 1 -> Chars \cup {Blank} \cup Symbols], p : Nat]

\* Symbols have been printed on v in a row, some of them on a line of their own:
\* M pairs each with its distance from the cell at the beginning of row r, the
\* next one comes at distance x, and all are on the screen.
Holds(v, r, M, x) ==
    /\ v \in Views /\ r \in Nat /\ x \in Nat
    /\ v.p = r * Cols + x /\ v.p < Cells
    /\ \A m \in M : m[1] \in 0 .. x - 1 /\ v.s[r * Cols + m[1]] = m[2]

\* A report is lines of symbols, none of them a line feed or a backspace.
LEMMA ReportLines ==
    /\ Report \in Seq(Seq(Symbols)) /\ Len(Report) \in Nat /\ LF # BS
    /\ \A i \in 1 .. Len(Report) :
          Report[i] \in Seq(Symbols) /\ Len(Report[i]) \in Nat
    /\ \A ch \in Symbols : ch # LF /\ ch # BS
<1>1. Report \in Seq(Seq(Symbols)) /\ LF # BS
  BY ReportAssumption, ConsoleAssumption DEF Symbols
<1>2. ASSUME NEW ch \in Symbols PROVE ch # LF /\ ch # BS
  <2>1. PICK i \in DOMAIN Report : ch \in Range(Report[i])
    BY DEF Symbols
  <2> QED BY <2>1, ReportAssumption
<1> HIDE DEF Symbols
<1>3. Len(Report) \in Nat /\ \A i \in 1 .. Len(Report) : Report[i] \in Seq(Symbols)
  BY <1>1
<1>4. \A i \in 1 .. Len(Report) : Len(Report[i]) \in Nat
  BY <1>3
<1> QED BY <1>1, <1>2, <1>3, <1>4

\* A line feed, wherever the cursor is.
LEMMA Fed ==
    ASSUME NEW v \in Views, NEW w, w = line_feed(v)
    PROVE  /\ w \in Views
           /\ \E k \in Nat, j \in 0 .. Cols - 1 :
                 /\ v.p = k * Cols + j
                 /\ k + 1 < Rows => w.s = v.s /\ w.p = (k + 1) * Cols
                 /\ k + 1 >= Rows => /\ w.p = (Rows - 1) * Cols
                                     /\ \A i \in 0 .. Cells - Cols - 1 : w.s[i] = v.s[i + Cols]
<1> PICK p : p = v.p
  OBVIOUS
<1>1. p \in Nat /\ Cols \in Nat \ {0} /\ Rows \in Nat
  BY Screen DEF Views
<1> PICK j : j = p % Cols
  OBVIOUS
<1>2. PICK k \in Nat : j \in 0 .. Cols - 1 /\ p = k * Cols + j
  BY <1>1, DivMod, Zenon
<1> DEFINE q == (p - j) + Cols
<1>3. w = IF q < Cells THEN [v EXCEPT !.p = q] ELSE roll_screen(v)
  BY DEF line_feed
<1>4. q = (k + 1) * Cols
  BY <1>1, <1>2
<1>5. q < Cells <=> k + 1 < Rows
  <2>1. (k + 1) * Cols + 0 < Rows * Cols <=> k + 1 < Rows
    <3>1. k + 1 \in Nat /\ 0 \in 0 .. Cols - 1
      BY <1>1, <1>2
    <3> QED BY <1>1, <3>1, Between
  <2>2. (k + 1) * Cols \in Nat
    BY <1>1, <1>2
  <2> QED BY <1>4, <2>1, <2>2 DEF Cells
<1>6. q \in Nat
  <2>1. (k + 1) * Cols \in Nat
    BY <1>1
  <2> QED BY <1>4, <2>1, Zenon
<1> HIDE DEF q
<1>7. ASSUME k + 1 < Rows PROVE w \in Views /\ w.s = v.s /\ w.p = (k + 1) * Cols
  <2>1. w = [v EXCEPT !.p = q]
    BY <1>3, <1>5, <1>7, Zenon
  <2>2. w.s = v.s /\ w.p = q /\ w \in Views
    BY <1>6, <2>1 DEF Views
  <2> QED BY <1>1, <1>2, <1>4, <1>7, <2>2
<1>8. ASSUME k + 1 >= Rows
      PROVE  /\ w \in Views /\ w.p = (Rows - 1) * Cols
             /\ \A i \in 0 .. Cells - Cols - 1 : w.s[i] = v.s[i + Cols]
  <2>1. w = roll_screen(v) /\ Cells - Cols = (Rows - 1) * Cols /\ Cells - Cols \in Nat /\ Cells \in Nat
    BY <1>1, <1>2, <1>3, <1>5, <1>8, Screen
  <2>2. \A i \in 0 .. Cells - 1 : i < Cells - Cols => i + Cols \in 0 .. Cells - 1
    BY Screen
  <2> HIDE DEF Cells
  <2>3. w.s = [i \in 0 .. Cells - 1 |-> IF i < Cells - Cols THEN v.s[i + Cols] ELSE Blank]
        /\ w.p = Cells - Cols /\ w = [s |-> w.s, p |-> w.p]
    BY <2>1 DEF roll_screen
  <2>4. v.s \in [0 .. Cells - 1 -> Chars \cup {Blank} \cup Symbols]
    BY DEF Views
  <2>5. w.s \in [0 .. Cells - 1 -> Chars \cup {Blank} \cup Symbols]
    BY <2>2, <2>3, <2>4
  <2>6. w \in Views
    BY <2>1, <2>3, <2>5 DEF Views
  <2>7. \A i \in 0 .. Cells - Cols - 1 : w.s[i] = v.s[i + Cols]
    BY <1>1, <2>1, <2>3
  <2> QED BY <1>1, <1>2, <1>8, <2>1, <2>3, <2>6, <2>7
<1>9. /\ w \in Views
      /\ k + 1 < Rows => w.s = v.s /\ w.p = (k + 1) * Cols
      /\ k + 1 >= Rows => /\ w.p = (Rows - 1) * Cols
                          /\ \A i \in 0 .. Cells - Cols - 1 : w.s[i] = v.s[i + Cols]
  BY <1>1, <1>2, <1>7, <1>8
<1> QED BY <1>2, <1>9, Zenon

\* On a line of its own: one line further down, or, at the bottom of the screen,
\* in the same place and everything one line up.
LEMMA HoldsFed ==
    ASSUME NEW v, NEW r, NEW M, NEW n \in Nat, NEW c \in 0 .. Cols - 1,
           Holds(v, r, M, n * Cols + c), n + 1 < Rows
    PROVE  \E r1 : Holds(line_feed(v), r1, M, (n + 1) * Cols)
<1> PICK w : w = line_feed(v)
  OBVIOUS
<1> DEFINE x == n * Cols + c
<1>1. /\ v \in Views /\ r \in Nat /\ x \in Nat /\ v.p = r * Cols + x /\ v.p < Cells
      /\ \A m \in M : m[1] \in 0 .. x - 1 /\ v.s[r * Cols + m[1]] = m[2]
  BY DEF Holds
<1>2. w \in Views
  BY <1>1, Fed
<1>3. PICK k \in Nat, j \in 0 .. Cols - 1 :
          /\ v.p = k * Cols + j
          /\ k + 1 < Rows => w.s = v.s /\ w.p = (k + 1) * Cols
          /\ k + 1 >= Rows => /\ w.p = (Rows - 1) * Cols
                              /\ \A i \in 0 .. Cells - Cols - 1 : w.s[i] = v.s[i + Cols]
  BY <1>1, Fed
<1>4. /\ Rows \in Nat \ {0, 1} /\ Cols \in Nat \ {0} /\ Cells \in Nat /\ Cells - Cols \in Nat
      /\ Cells = Rows * Cols
  BY Screen DEF Cells
<1>5. k = r + n /\ j = c
  <2>1. k * Cols + j = (r + n) * Cols + c /\ r + n \in Nat
    BY <1>1, <1>3, <1>4
  <2>2. (k * Cols + j) \div Cols = k /\ (k * Cols + j) % Cols = j
    BY <1>4, DivModOf
  <2>3. ((r + n) * Cols + c) \div Cols = r + n /\ ((r + n) * Cols + c) % Cols = c
    BY <1>4, <2>1, DivModOf
  <2> QED BY <2>1, <2>2, <2>3
<1>6. (n + 1) * Cols = n * Cols + Cols /\ (n + 1) * Cols \in Nat /\ x < (n + 1) * Cols
  BY <1>4
<1>7. CASE k + 1 < Rows
  <2>1. w.s = v.s /\ w.p = r * Cols + (n + 1) * Cols
    BY <1>1, <1>3, <1>4, <1>5, <1>7
  <2>2. w.p < Cells
    <3>1. (k + 1) * Cols + 0 < Rows * Cols
      BY <1>4, <1>7, Between
    <3> QED BY <1>3, <1>4, <1>7, <3>1
  <2>3. \A m \in M : m[1] \in 0 .. (n + 1) * Cols - 1
    BY <1>1, <1>4, <1>6
  <2>4. Holds(w, r, M, (n + 1) * Cols)
    BY <1>1, <1>2, <1>6, <2>1, <2>2, <2>3 DEF Holds
  <2> QED BY <2>4
<1>8. CASE k + 1 >= Rows
  <2>1. /\ w.p = (Rows - 1) * Cols
        /\ \A i \in 0 .. Cells - Cols - 1 : w.s[i] = v.s[i + Cols]
    BY <1>3, <1>8
  <2>2. k + 1 = Rows
    <3>1. k < Rows
      BY <1>1, <1>3, <1>4, Between
    <3> QED BY <1>4, <1>8, <3>1
  <2>3. r - 1 \in Nat /\ (r - 1) + (n + 1) = Rows - 1
    BY <1>1, <1>4, <1>5, <2>2
  <2>4. w.p = (r - 1) * Cols + (n + 1) * Cols /\ w.p < Cells /\ r * Cols = (r - 1) * Cols + Cols
    <3>1. PICK g \in Nat : g = r - 1 /\ r = g + 1
      BY <1>1, <2>3
    <3>2. g + (n + 1) = Rows - 1
      BY <2>3, <3>1
    <3>3. (g + (n + 1)) * Cols = g * Cols + (n + 1) * Cols /\ (g + 1) * Cols = g * Cols + Cols
      BY <1>4
    <3>4. w.p = g * Cols + (n + 1) * Cols
      BY <2>1, <3>2, <3>3
    <3>5. (Rows - 1) * Cols < Cells
      BY <1>4, Screen
    <3> QED BY <2>1, <3>1, <3>3, <3>4, <3>5
  <2>5. ASSUME NEW m \in M
        PROVE  m[1] \in 0 .. (n + 1) * Cols - 1 /\ w.s[(r - 1) * Cols + m[1]] = m[2]
    <3>1. PICK y \in Nat : y = m[1] /\ y < x
      BY <1>1
    <3>2. PICK z \in Nat : z = (r - 1) * Cols
      BY <1>4, <2>3
    <3>3. r * Cols + y = (z + y) + Cols /\ r * Cols = z + Cols
      BY <1>4, <2>4, <3>2
    <3>4. z + y \in 0 .. Cells - Cols - 1
      BY <1>1, <1>4, <3>1, <3>3
    <3>5. w.s[z + y] = v.s[(z + y) + Cols]
      BY <2>1, <3>4
    <3>6. v.s[r * Cols + y] = m[2]
      BY <1>1, <3>1
    <3>7. y \in 0 .. (n + 1) * Cols - 1
      <4> HIDE DEF x
      <4>1. PICK z1 \in Nat : z1 = (n + 1) * Cols
        BY <1>6
      <4> QED BY <1>1, <1>6, <3>1, <4>1
    <3> QED BY <3>1, <3>2, <3>3, <3>5, <3>6, <3>7, Zenon
  <2>6. Holds(w, r - 1, M, (n + 1) * Cols)
    BY <1>2, <1>6, <2>3, <2>4, <2>5 DEF Holds
  <2> QED BY <2>6
<1>9. \E r1 : Holds(w, r1, M, (n + 1) * Cols)
  BY <1>3, <1>4, <1>7, <1>8
<1> QED BY <1>9, Zenon

\* A symbol joins those that stand already; behind the last column comes the next line.
LEMMA HoldsPut ==
    ASSUME NEW v, NEW r, NEW M, NEW x, NEW ch \in Symbols,
           Holds(v, r, M, x), x + 1 < Cells
    PROVE  /\ put_char(v, ch) \in Views
           /\ \E r1 : Holds(put_char(v, ch), r1, M \cup {<<x, ch>>}, x + 1)
<1> DEFINE w == [s |-> [v.s EXCEPT ![v.p] = ch], p |-> v.p + 1]
           N == M \cup {<<x, ch>>}
<1>1. /\ v \in Views /\ r \in Nat /\ x \in Nat /\ v.p = r * Cols + x /\ v.p < Cells
      /\ \A m \in M : m[1] \in 0 .. x - 1 /\ v.s[r * Cols + m[1]] = m[2]
  BY DEF Holds
<1>2. /\ Rows \in Nat \ {0, 1} /\ Cols \in Nat \ {0} /\ Cells \in Nat /\ Cells - Cols \in Nat
      /\ Cells = Rows * Cols
  BY Screen DEF Cells
<1>3. put_char(v, ch) = IF w.p < Cells THEN w ELSE line_feed(w)
  <2>1. put_char(v, ch) = put_other(v, ch)
    BY ReportLines DEF put_char
  <2>2. PICK a, b : v = [s |-> a, p |-> b] /\ a = v.s /\ b = v.p
    BY <1>1 DEF Views
  <2>3. [Drawn(v, v.p, ch) EXCEPT !.p = @ + 1] = w
    <3>1. v.p < Cells /\ b < Cells
      BY <1>1, <2>2
    <3> DEFINE d == [a EXCEPT ![b] = ch]
    <3>2. w = [s |-> d, p |-> b + 1]
      BY <2>2
    <3>3. Drawn([s |-> a, p |-> b], b, ch) = [s |-> d, p |-> b]
      BY <3>1 DEF Drawn
    <3> HIDE DEF w, d
    <3>4. [[s |-> d, p |-> b] EXCEPT !.p = @ + 1] = [s |-> d, p |-> b + 1]
      OBVIOUS
    <3>5. Drawn(v, v.p, ch) = [s |-> d, p |-> b]
      BY <2>2, <3>3
    <3> QED BY <3>2, <3>4, <3>5
  <2> HIDE DEF w
  <2> QED BY <2>1, <2>3 DEF put_other
<1>4. w \in Views /\ w.p = v.p + 1 /\ w.s[v.p] = ch /\ \A i \in 0 .. Cells - 1 : i # v.p => w.s[i] = v.s[i]
  <2> DEFINE G == Chars \cup {Blank} \cup Symbols
             t == [v.s EXCEPT ![v.p] = ch]
  <2>1. v.s \in [0 .. Cells - 1 -> G] /\ v.p \in Nat /\ v = [s |-> v.s, p |-> v.p]
    BY <1>1 DEF Views
  <2>2. v.p \in 0 .. Cells - 1 /\ ch \in G
    BY <1>1, <1>2, <2>1
  <2> HIDE DEF G
  <2>3. t \in [0 .. Cells - 1 -> G] /\ t[v.p] = ch /\ \A i \in 0 .. Cells - 1 : i # v.p => t[i] = v.s[i]
    BY <2>1, <2>2
  <2> HIDE DEF t
  <2>4. w = [s |-> t, p |-> v.p + 1] /\ v.p + 1 \in Nat
    BY <2>1 DEF t
  <2> HIDE DEF w
  <2>5. w.s = t /\ w.p = v.p + 1
    BY <2>4
  <2>6. w \in [s : [0 .. Cells - 1 -> G], p : Nat]
    BY <2>3, <2>4
  <2> QED BY <2>3, <2>5, <2>6 DEF Views, G
<1>5. x + 1 \in Nat /\ w.p = r * Cols + (x + 1) /\ r * Cols \in Nat
  BY <1>1, <1>2, <1>4
<1> HIDE DEF w
<1>6. ASSUME NEW m \in N
      PROVE  m[1] \in 0 .. x /\ w.s[r * Cols + m[1]] = m[2]
  <2>1. CASE m \in M
    <3>1. PICK y \in Nat : y = m[1] /\ y < x
      BY <1>1, <2>1
    <3>2. r * Cols + y \in 0 .. Cells - 1 /\ r * Cols + y # v.p
      BY <1>1, <1>2, <1>5, <3>1
    <3>3. w.s[r * Cols + y] = v.s[r * Cols + y]
      BY <1>4, <3>2
    <3> QED BY <1>1, <2>1, <3>1, <3>3
  <2>2. CASE m = <<x, ch>>
    BY <1>1, <1>4, <2>2
  <2> QED BY <2>1, <2>2
<1>7. CASE w.p < Cells
  <2>1. Holds(w, r, N, x + 1)
    BY <1>1, <1>4, <1>5, <1>6, <1>7 DEF Holds
  <2> QED BY <1>3, <1>4, <1>7, <2>1
<1>8. CASE w.p >= Cells
  <2>1. put_char(v, ch) = line_feed(w)
    BY <1>2, <1>3, <1>5, <1>8
  <2>2. PICK u : u = line_feed(w)
    OBVIOUS
  <2>3. u \in Views
    BY <1>4, <2>2, Fed
  <2>4. w.p = Cells /\ r >= 1
    BY <1>1, <1>2, <1>4, <1>5, <1>8
  <2>5. /\ u.p = (Rows - 1) * Cols
        /\ \A i \in 0 .. Cells - Cols - 1 : u.s[i] = w.s[i + Cols]
    <3>1. PICK k \in Nat, j \in 0 .. Cols - 1 :
              /\ w.p = k * Cols + j
              /\ k + 1 >= Rows => /\ u.p = (Rows - 1) * Cols
                                  /\ \A i \in 0 .. Cells - Cols - 1 : u.s[i] = w.s[i + Cols]
      BY <1>4, <2>2, Fed
    <3>2. k + 1 >= Rows
      <4>1. ~(k < Rows)
        BY <1>2, <2>4, <3>1, Between
      <4> QED BY <1>2, <4>1
    <3> QED BY <3>1, <3>2
  <2>6. PICK g \in Nat : g = r - 1 /\ r * Cols = g * Cols + Cols
    <3>1. PICK g \in Nat : g = r - 1 /\ r = g + 1
      BY <1>1, <2>4
    <3>2. (g + 1) * Cols = g * Cols + Cols
      BY <1>2
    <3> QED BY <3>1, <3>2
  <2>7. u.p = g * Cols + (x + 1) /\ u.p < Cells
    <3>1. (Rows - 1) * Cols = Cells - Cols
      BY Screen
    <3>2. g * Cols \in Nat
      BY <1>2
    <3> QED BY <1>1, <1>2, <1>5, <2>4, <2>5, <2>6, <3>1, <3>2
  <2>8. ASSUME NEW m \in N
        PROVE  m[1] \in 0 .. (x + 1) - 1 /\ u.s[g * Cols + m[1]] = m[2]
    <3>1. PICK y \in Nat : y = m[1] /\ y <= x
      BY <1>1, <1>6
    <3>2. PICK z \in Nat : z = g * Cols
      BY <1>2
    <3>3. z + y \in 0 .. Cells - Cols - 1 /\ (z + y) + Cols = r * Cols + y
      BY <1>1, <1>2, <1>4, <1>5, <2>4, <2>6, <3>1, <3>2
    <3>4. u.s[z + y] = w.s[(z + y) + Cols]
      BY <2>5, <3>3
    <3>5. y \in 0 .. (x + 1) - 1
      BY <1>1, <3>1
    <3> QED BY <1>6, <3>1, <3>2, <3>3, <3>4, <3>5, Zenon
  <2>9. Holds(u, g, N, x + 1)
    BY <1>5, <2>3, <2>7, <2>8 DEF Holds
  <2> QED BY <2>1, <2>2, <2>3, <2>9, Zenon
<1>9. w.p \in Nat /\ Cells \in Nat
  BY <1>2, <1>4 DEF Views
<1>10. w.p < Cells \/ w.p >= Cells
  BY <1>9
<1> QED BY <1>7, <1>8, <1>10, Zenon

-----------------------------------------------------------------------------
(* Strings and lines. *)

\* The first k symbols of a string that begins at distance x.
Spelled(str, x, k) == {<<x + c - 1, str[c]>> : c \in 1 .. k}

\* A string without a line feed comes out in one piece.
LEMMA HoldsString ==
    ASSUME NEW v, NEW r, NEW M, NEW x, NEW str \in Seq(Symbols), Holds(v, r, M, x),
           x + Len(str) < Cells
    PROVE  /\ put_str(v, str) \in Views
           /\ \E r1 : Holds(put_str(v, str), r1, M \cup Spelled(str, x, Len(str)), x + Len(str))
<1> PICK n \in Nat : n = Len(str)
  OBVIOUS
<1>1. v \in Views /\ x \in Nat /\ Cells \in Nat /\ \A k \in 1 .. n : str[k] \in Symbols
  BY Screen DEF Holds
<1> DEFINE G == [a \in Views \X (1 .. n) |->
                    IF put_char(a[1], str[a[2]]) \in Views THEN put_char(a[1], str[a[2]]) ELSE v]
<1>2. G \in [Views \X (1 .. n) -> Views]
  BY <1>1
<1>3. PICK f : Walked(f, n, Views, v, G)
  <2> HIDE DEF G
  <2>1. n \in Nat /\ v \in Views /\ G \in [Views \X (1 .. n) -> Views]
    BY <1>1, <1>2
  <2> QED BY <2>1, Iterated
<1>3a. f \in [0 .. n -> Views] /\ f[0] = v
  BY <1>3 DEF Walked
<1>4. \A k \in 1 .. n : f[k] = IF put_char(f[k - 1], str[k]) \in Views
                              THEN put_char(f[k - 1], str[k]) ELSE v
  <2> TAKE k \in 1 .. n
  <2>1. f[k - 1] \in Views /\ <<f[k - 1], k>> \in Views \X (1 .. n)
    <3>1. k - 1 \in 0 .. n
      OBVIOUS
    <3> QED BY <1>3a, <3>1
  <2>2. f[k] = G[<<f[k - 1], k>>]
    BY <1>3 DEF Walked
  <2> QED BY <2>1, <2>2
<1> HIDE DEF G
<1> DEFINE Done(k) == \E r1 : Holds(f[k], r1, M \cup Spelled(str, x, k), x + k)
           T == {k \in Nat : k <= n => Done(k) /\ \A i \in 1 .. k : f[i] = put_char(f[i - 1], str[i])}
<1> HIDE DEF Done
<1>5. 0 \in T
  <2>1. Spelled(str, x, 0) = {} /\ x + 0 = x
    BY <1>1 DEF Spelled
  <2>2. M \cup Spelled(str, x, 0) = M
    BY <2>1
  <2>3. Done(0)
    BY <1>3a, <2>1, <2>2, Zenon DEF Done
  <2> QED BY <2>3
<1>6. ASSUME NEW k \in T PROVE k + 1 \in T
  <2> SUFFICES ASSUME k + 1 <= n
               PROVE  Done(k + 1) /\ \A i \in 1 .. k + 1 : f[i] = put_char(f[i - 1], str[i])
    OBVIOUS
  <2>1. k \in Nat /\ Done(k) /\ \A i \in 1 .. k : f[i] = put_char(f[i - 1], str[i])
    OBVIOUS
  <2>2. PICK r1 : Holds(f[k], r1, M \cup Spelled(str, x, k), x + k)
    BY <2>1 DEF Done
  <2>3. (x + k) + 1 < Cells /\ str[k + 1] \in Symbols /\ k + 1 \in 1 .. n /\ (k + 1) - 1 = k
    BY <1>1, <2>1
  <2> PICK w : w = put_char(f[k], str[k + 1])
    OBVIOUS
  <2>4. w \in Views /\ \E r2 : Holds(w, r2, (M \cup Spelled(str, x, k)) \cup {<<x + k, str[k + 1]>>}, (x + k) + 1)
    BY <2>2, <2>3, HoldsPut
  <2>5. f[k + 1] = w
    BY <1>4, <2>3, <2>4
  <2>6. Spelled(str, x, k + 1) = Spelled(str, x, k) \cup {<<x + k, str[k + 1]>>}
    <3>1. 1 .. k + 1 = (1 .. k) \cup {k + 1} /\ x + (k + 1) - 1 = x + k
      BY <1>1, <2>1
    <3> QED BY <3>1 DEF Spelled
  <2>7. (M \cup Spelled(str, x, k)) \cup {<<x + k, str[k + 1]>>} = M \cup Spelled(str, x, k + 1)
    BY <2>6
  <2>8. (x + k) + 1 = x + (k + 1)
    BY <1>1, <2>1
  <2>9. Done(k + 1)
    BY <2>4, <2>5, <2>7, <2>8, Zenon DEF Done
  <2>10. ASSUME NEW i \in 1 .. k + 1 PROVE f[i] = put_char(f[i - 1], str[i])
    <3>1. CASE i = k + 1
      BY <2>3, <2>5, <3>1
    <3>2. CASE i \in 1 .. k
      BY <2>1, <3>2
    <3> QED BY <2>1, <3>1, <3>2
  <2> QED BY <2>9, <2>10
<1>7. T \in SUBSET Nat
  OBVIOUS
<1> HIDE DEF T
<1>8. n \in T
  BY <1>5, <1>6, <1>7, Induction
<1>9. Done(n) /\ \A i \in 1 .. n : f[i] = put_char(f[i - 1], str[i])
  BY <1>8 DEF T
<1>10. put_str(v, str) = f[n]
  <2> DEFINE after == CHOOSE h : h = [k \in 0 .. Len(str) |->
                                        IF k = 0 THEN v ELSE put_char(h[k - 1], str[k])]
  <2>1. f = [k \in 0 .. n |-> f[k]]
    BY <1>3a
  <2>2. \A k \in 0 .. n : f[k] = IF k = 0 THEN v ELSE put_char(f[k - 1], str[k])
    BY <1>3a, <1>9
  <2>3. f = [k \in 0 .. n |-> IF k = 0 THEN v ELSE put_char(f[k - 1], str[k])]
    BY <2>1, <2>2
  <2>4. after = [k \in 0 .. n |-> IF k = 0 THEN v ELSE put_char(after[k - 1], str[k])]
    <3>1. n = Len(str)
      OBVIOUS
    <3> QED BY <2>3, <3>1, Zenon
  <2>5. put_str(v, str) = after[n]
    BY Zenon DEF put_str
  <2> HIDE DEF after
  <2> DEFINE U == {k \in Nat : k <= n => after[k] = f[k]}
  <2>6. 0 \in U
    BY <1>3a, <2>4
  <2>7. ASSUME NEW k \in U PROVE k + 1 \in U
    <3> SUFFICES ASSUME k + 1 <= n PROVE after[k + 1] = f[k + 1]
      OBVIOUS
    <3>1. after[k] = f[k] /\ k + 1 \in 1 .. n /\ k + 1 \in 0 .. n /\ k + 1 # 0 /\ (k + 1) - 1 = k
      OBVIOUS
    <3>2. after[k + 1] = put_char(after[k], str[k + 1])
      BY <2>4, <3>1
    <3> QED BY <1>9, <3>1, <3>2
  <2>8. n \in U
    <3>1. U \in SUBSET Nat
      OBVIOUS
    <3> HIDE DEF U
    <3> QED BY <2>6, <2>7, <3>1, Induction
  <2> QED BY <2>5, <2>8
<1>11. f[n] \in Views
  BY <1>3a
<1> QED BY <1>9, <1>10, <1>11, Zenon DEF Done

\* h tells how many rows the lines before a line take.
Stacked(h) ==
    /\ h \in [0 .. Len(Report) -> 0 .. Rows - 1] /\ h[0] = 0
    /\ \A i \in 1 .. Len(Report) : h[i] = h[i - 1] + (Len(Report[i]) \div Cols) + 1

\* The first i lines.
Stacks(h, i) == UNION {Spelled(Report[j], h[j - 1] * Cols, Len(Report[j])) : j \in 1 .. i}

\* A line comes below those that stand already.
LEMMA HoldsLine ==
    ASSUME NEW h, Stacked(h), NEW i \in 1 .. Len(Report), NEW v, NEW r,
           Holds(v, r, Stacks(h, i - 1), h[i - 1] * Cols)
    PROVE  LET w == put_char(put_str(v, Report[i]), LF)
           IN  w \in Views /\ \E r1 : Holds(w, r1, Stacks(h, i), h[i] * Cols)
<1> PICK str : str = Report[i]
  OBVIOUS
<1> PICK n : n = Len(str)
  OBVIOUS
<1>1. str \in Seq(Symbols) /\ n \in Nat
  BY ReportLines
<1>2. Rows \in Nat \ {0, 1} /\ Cols \in Nat \ {0} /\ Cells = Rows * Cols /\ Cells \in Nat
  BY Screen DEF Cells
<1>3. PICK b \in Nat : b = n \div Cols /\ \E c \in 0 .. Cols - 1 : n = b * Cols + c
  <2>1. n \div Cols \in Nat /\ n % Cols \in 0 .. Cols - 1 /\ n = (n \div Cols) * Cols + (n % Cols)
    BY <1>1, <1>2, DivMod
  <2> QED BY <2>1, Zenon
<1>4. PICK a \in Nat : a = h[i - 1] /\ h[i] = (a + b) + 1 /\ (a + b) + 1 < Rows
  <2>1. i - 1 \in 0 .. Len(Report) /\ i \in 0 .. Len(Report)
    BY ReportLines
  <2>2. h \in [0 .. Len(Report) -> 0 .. Rows - 1] /\ h[i] = h[i - 1] + b + 1
    BY <1>3, Zenon DEF Stacked
  <2>3. PICK a \in Nat : a = h[i - 1]
    BY <2>1, <2>2
  <2>4. h[i] \in 0 .. Rows - 1 /\ h[i] = (a + b) + 1
    BY <2>1, <2>2, <2>3
  <2>5. (a + b) + 1 < Rows
    BY <1>2, <2>4
  <2> QED BY <2>3, <2>4, <2>5
<1>5. PICK c \in 0 .. Cols - 1 : n = b * Cols + c
  BY <1>3
<1>6. (a + b) + 1 < Rows
  BY <1>4
<1>7. PICK x \in Nat : x = a * Cols
  BY <1>2
<1>8. x + n = (a + b) * Cols + c /\ x + n < Cells
  <2>1. x + n = (a + b) * Cols + c
    BY <1>2, <1>5, <1>7
  <2>2. a + b \in Nat /\ a + b < Rows
    BY <1>2, <1>6
  <2>3. (a + b) * Cols + c < Rows * Cols
    BY <1>2, <2>2, Between
  <2> QED BY <1>2, <2>1, <2>3
<1> PICK M : M = Stacks(h, i - 1)
  OBVIOUS
<1> PICK u : u = put_str(v, str)
  OBVIOUS
<1>9. u \in Views /\ \E r1 : Holds(u, r1, M \cup Spelled(str, x, n), x + n)
  <2>1. Holds(v, r, M, x) /\ x + Len(str) < Cells
    BY <1>4, <1>7, <1>8, Zenon
  <2>2. put_str(v, str) \in Views
        /\ \E r1 : Holds(put_str(v, str), r1, M \cup Spelled(str, x, Len(str)), x + Len(str))
    BY <1>1, <2>1, HoldsString
  <2> QED BY <2>2, Zenon
<1>10. PICK r1 : Holds(u, r1, M \cup Spelled(str, x, n), x + n)
  BY <1>9
<1>11. put_char(u, LF) = line_feed(u) /\ line_feed(u) \in Views
  BY <1>9, ReportLines, Fed DEF put_char
<1>12. \E r2 : Holds(line_feed(u), r2, M \cup Spelled(str, x, n), ((a + b) + 1) * Cols)
  <2>1. Holds(u, r1, M \cup Spelled(str, x, n), (a + b) * Cols + c)
    BY <1>8, <1>10, Zenon
  <2>2. a + b \in Nat
    BY <1>4
  <2> QED BY <1>6, <2>1, <2>2, HoldsFed
<1>13. M \cup Spelled(str, x, n) = Stacks(h, i)
  <2>1. 1 .. i = (1 .. i - 1) \cup {i}
    BY ReportLines
  <2>2. Spelled(str, x, n) = Spelled(Report[i], h[i - 1] * Cols, Len(Report[i]))
    BY <1>4, <1>7, Zenon
  <2>3. Stacks(h, i) = Stacks(h, i - 1) \cup Spelled(Report[i], h[i - 1] * Cols, Len(Report[i]))
    BY <2>1 DEF Stacks
  <2> QED BY <2>2, <2>3
<1>14. \E r2 : Holds(line_feed(u), r2, Stacks(h, i), h[i] * Cols)
  BY <1>4, <1>12, <1>13, Zenon
<1>15. put_char(put_str(v, Report[i]), LF) = line_feed(u)
  BY <1>11
<1> QED BY <1>11, <1>14, <1>15, Zenon

\* All lines, one below the other.
LEMMA HoldsLines ==
    ASSUME NEW h, Stacked(h), NEW v, NEW r, Holds(v, r, {}, 0)
    PROVE  \E r1 : Holds(put_lines(v, Report), r1, Stacks(h, Len(Report)), h[Len(Report)] * Cols)
<1> DEFINE Line(w, i) == put_char(put_str(w, Report[i]), LF)
<1>1. PICK n \in Nat : n = Len(Report)
  BY ReportLines
<1>2. v \in Views /\ h[0] = 0
  BY DEF Holds, Stacked
<1> DEFINE G == [a \in Views \X (1 .. n) |->
                    IF Line(a[1], a[2]) \in Views THEN Line(a[1], a[2]) ELSE v]
<1>3. PICK f : Walked(f, n, Views, v, G)
  <2>1. G \in [Views \X (1 .. n) -> Views]
    <3> HIDE DEF Line
    <3> QED BY <1>2
  <2> HIDE DEF G
  <2> QED BY <1>2, <2>1, Iterated
<1> HIDE DEF Line
<1>4. f \in [0 .. n -> Views] /\ f[0] = v
  BY <1>3 DEF Walked
<1>5. \A i \in 1 .. n : f[i] = IF Line(f[i - 1], i) \in Views THEN Line(f[i - 1], i) ELSE v
  <2> TAKE i \in 1 .. n
  <2>1. f[i - 1] \in Views /\ <<f[i - 1], i>> \in Views \X (1 .. n)
    <3>1. i - 1 \in 0 .. n
      OBVIOUS
    <3> QED BY <1>4, <3>1
  <2>2. f[i] = G[<<f[i - 1], i>>]
    BY <1>3 DEF Walked
  <2> QED BY <2>1, <2>2
<1> HIDE DEF G
<1> DEFINE Done(i) == \E r1 : Holds(f[i], r1, Stacks(h, i), h[i] * Cols)
<1> HIDE DEF Done
<1> DEFINE T == {k \in Nat : k <= n => Done(k) /\ \A i \in 1 .. k : f[i] = Line(f[i - 1], i)}
<1>6. 0 \in T
  <2>1. Stacks(h, 0) = {} /\ 0 * Cols = 0
    BY Screen DEF Stacks
  <2>2. Done(0)
    BY <1>2, <1>4, <2>1, Zenon DEF Done
  <2> QED BY <2>2
<1>7. ASSUME NEW k \in T PROVE k + 1 \in T
  <2> SUFFICES ASSUME k + 1 <= n
               PROVE  Done(k + 1) /\ \A i \in 1 .. k + 1 : f[i] = Line(f[i - 1], i)
    OBVIOUS
  <2>1. k \in Nat /\ Done(k) /\ \A i \in 1 .. k : f[i] = Line(f[i - 1], i)
    BY <1>1
  <2>2. PICK r1 : Holds(f[k], r1, Stacks(h, k), h[k] * Cols)
    BY <2>1 DEF Done
  <2>3. k + 1 \in 1 .. n /\ k + 1 \in 1 .. Len(Report) /\ (k + 1) - 1 = k
    BY <1>1, <2>1
  <2>4. Holds(f[k], r1, Stacks(h, (k + 1) - 1), h[(k + 1) - 1] * Cols)
    BY <2>2, <2>3, Zenon
  <2>5. Line(f[k], k + 1) \in Views
        /\ \E r2 : Holds(Line(f[k], k + 1), r2, Stacks(h, k + 1), h[k + 1] * Cols)
    BY <2>3, <2>4, HoldsLine, Zenon DEF Line
  <2>6. f[k + 1] = Line(f[k], k + 1)
    BY <1>5, <2>3, <2>5
  <2>7. Done(k + 1)
    BY <2>5, <2>6, Zenon DEF Done
  <2>8. ASSUME NEW i \in 1 .. k + 1 PROVE f[i] = Line(f[i - 1], i)
    <3>1. CASE i = k + 1
      BY <2>3, <2>6, <3>1
    <3>2. CASE i \in 1 .. k
      BY <2>1, <3>2
    <3> QED BY <2>1, <3>1, <3>2
  <2> QED BY <2>7, <2>8
<1>8. n \in T
  <2>1. T \in SUBSET Nat
    OBVIOUS
  <2> HIDE DEF T
  <2> QED BY <1>6, <1>7, <2>1, Induction
<1>9. Done(n) /\ \A i \in 1 .. n : f[i] = Line(f[i - 1], i)
  BY <1>8
<1> HIDE DEF T
<1>10. put_lines(v, Report) = f[n]
  <2> DEFINE after == CHOOSE g : g = [i \in 0 .. Len(Report) |->
                                        IF i = 0 THEN v ELSE put_char(put_str(g[i - 1], Report[i]), LF)]
  <2>1. f = [i \in 0 .. n |-> f[i]]
    BY <1>4
  <2>2. \A i \in 0 .. n : f[i] = IF i = 0 THEN v ELSE Line(f[i - 1], i)
    BY <1>4, <1>9
  <2>3. f = [i \in 0 .. n |-> IF i = 0 THEN v ELSE Line(f[i - 1], i)]
    BY <2>1, <2>2
  <2>4. after = [i \in 0 .. n |-> IF i = 0 THEN v ELSE Line(after[i - 1], i)]
    BY <1>1, <2>3, Zenon DEF Line
  <2>5. put_lines(v, Report) = after[n]
    BY <1>1, Zenon DEF put_lines
  <2> HIDE DEF after
  <2> DEFINE U == {k \in Nat : k <= n => after[k] = f[k]}
  <2>6. 0 \in U
    BY <1>4, <2>4
  <2>7. ASSUME NEW k \in U PROVE k + 1 \in U
    <3> SUFFICES ASSUME k + 1 <= n PROVE after[k + 1] = f[k + 1]
      OBVIOUS
    <3>1. after[k] = f[k] /\ k + 1 \in 1 .. n /\ k + 1 \in 0 .. n /\ k + 1 # 0 /\ (k + 1) - 1 = k
      OBVIOUS
    <3>2. after[k + 1] = Line(after[k], k + 1)
      BY <2>4, <3>1
    <3> QED BY <1>9, <3>1, <3>2
  <2>8. n \in U
    <3>1. U \in SUBSET Nat
      OBVIOUS
    <3> HIDE DEF U
    <3> QED BY <2>6, <2>7, <3>1, Induction
  <2> QED BY <2>5, <2>8
<1> QED BY <1>1, <1>9, <1>10, Zenon DEF Done

\* Lines further down have more above them.
LEMMA Rising ==
    ASSUME NEW h, Stacked(h), NEW i \in 0 .. Len(Report)
    PROVE  h[i] \in Nat /\ h[Len(Report)] \in Nat /\ h[i] <= h[Len(Report)]
<1>1. PICK n \in Nat : n = Len(Report)
  BY ReportLines
<1>2. h \in [0 .. n -> 0 .. Rows - 1] /\ \A k \in 0 .. n : h[k] \in Nat
  BY <1>1, Screen DEF Stacked
<1>3. ASSUME NEW k \in 1 .. n PROVE h[k - 1] <= h[k]
  <2>1. PICK b : b = Len(Report[k]) \div Cols
    OBVIOUS
  <2>2. b \in Nat
    <3>1. Len(Report[k]) \in Nat /\ Cols \in Nat \ {0}
      BY <1>1, ReportLines, Screen
    <3> QED BY <2>1, <3>1, DivMod
  <2>3. h[k] = h[k - 1] + b + 1
    BY <1>1, <2>1, Zenon DEF Stacked
  <2>4. k - 1 \in 0 .. n
    OBVIOUS
  <2> QED BY <1>2, <2>2, <2>3, <2>4
<1> DEFINE T == {d \in Nat : d <= n => h[n - d] <= h[n]}
<1>4. 0 \in T
  BY <1>2
<1>5. ASSUME NEW d \in T PROVE d + 1 \in T
  <2> SUFFICES ASSUME d + 1 <= n PROVE h[n - (d + 1)] <= h[n]
    OBVIOUS
  <2>1. PICK k \in 1 .. n : k = n - d
    OBVIOUS
  <2>2. h[k] <= h[n] /\ n - (d + 1) = k - 1 /\ k - 1 \in 0 .. n
    BY <2>1
  <2> QED BY <1>2, <1>3, <2>2
<1>6. n - i \in T
  <2>1. n - i \in Nat
    BY <1>1
  <2>2. T \in SUBSET Nat
    OBVIOUS
  <2> HIDE DEF T
  <2> QED BY <1>4, <1>5, <2>1, <2>2, Induction
<1>7. n - (n - i) = i /\ n - i <= n
  BY <1>1
<1>8. h[i] <= h[n]
  BY <1>6, <1>7
<1> QED BY <1>1, <1>2, <1>8

\* The cursor below the last line means that all lines are on the screen.
LEMMA HoldsReadable ==
    ASSUME NEW h, Stacked(h), NEW v, NEW r,
           Holds(v, r, Stacks(h, Len(Report)), h[Len(Report)] * Cols), screen' = v.s
    PROVE  ReportReadable'
<1>1. PICK n \in Nat : n = Len(Report)
  BY ReportLines
<1>2. /\ Rows \in Nat \ {0, 1} /\ Cols \in Nat \ {0} /\ Cells = Rows * Cols /\ Cells \in Nat
  BY Screen DEF Cells
<1>3. r \in Nat /\ h[n] \in Nat /\ r + h[n] < Rows
  <2>1. r \in Nat /\ v.p = r * Cols + h[n] * Cols /\ v.p < Cells
    BY <1>1 DEF Holds
  <2>2. PICK a \in Nat : a = h[n]
    BY <1>1, Rising
  <2>3. (r + a) * Cols + 0 < Rows * Cols
    <3>1. (r + a) * Cols = r * Cols + a * Cols
      BY <1>2, <2>1
    <3> QED BY <1>2, <2>1, <2>2, <3>1
  <2>4. r + a \in Nat /\ 0 \in 0 .. Cols - 1
    BY <1>2, <2>1
  <2>5. r + a < Rows
    BY <1>2, <2>3, <2>4, Between
  <2> QED BY <2>1, <2>2, <2>5
<1> DEFINE rows == [i \in 1 .. n |-> r + h[i - 1]]
<1>4. ASSUME NEW i \in 1 .. n
      PROVE  /\ rows[i] \in 0 .. Rows - 1
             /\ rows[i] * Cols + Len(Report[i]) <= Cells
             /\ rows[i] + (Len(Report[i]) \div Cols) < r + h[i]
  <2>1. PICK m \in Nat : m = Len(Report[i])
    BY <1>1, ReportLines
  <2>2. PICK b \in Nat : b = m \div Cols /\ \E c \in 0 .. Cols - 1 : m = b * Cols + c
    <3>1. m \div Cols \in Nat /\ m % Cols \in 0 .. Cols - 1 /\ m = (m \div Cols) * Cols + (m % Cols)
      BY <1>2, DivMod
    <3> QED BY <3>1, Zenon
  <2>3. i - 1 \in 0 .. n /\ i \in 0 .. n
    OBVIOUS
  <2>4. PICK a \in Nat : a = h[i - 1]
    BY <1>1, <2>3, Rising
  <2>5. h[i] = h[i - 1] + b + 1
    BY <1>1, <2>1, <2>2, Zenon DEF Stacked
  <2>6. h[i] <= h[n] /\ h[i] \in Nat
    BY <1>1, <2>3, Rising
  <2>7. h[i] = (a + b) + 1 /\ rows[i] = r + a
    BY <2>4, <2>5
  <2>8. ((r + a) + b) + 1 < Rows
    BY <1>2, <1>3, <2>6, <2>7
  <2>9. PICK c \in 0 .. Cols - 1 : m = b * Cols + c
    BY <2>2
  <2>10. (r + a) * Cols + m <= Cells
    <3>1. (r + a) + b \in Nat /\ (r + a) + b < Rows
      BY <1>2, <1>3, <2>8
    <3>2. ((r + a) + b) * Cols + c < Rows * Cols
      BY <1>2, <3>1, Between
    <3>3. ((r + a) + b) * Cols = (r + a) * Cols + b * Cols
      BY <1>2, <1>3
    <3> QED BY <1>2, <1>3, <2>9, <3>2, <3>3
  <2>11. r + a \in 0 .. Rows - 1
    BY <1>2, <1>3, <2>8
  <2>12. (r + a) + b < r + h[i]
    BY <1>3, <2>7
  <2> HIDE DEF rows
  <2> QED BY <2>1, <2>2, <2>7, <2>10, <2>11, <2>12, Zenon
<1>5. rows \in [1 .. n -> 0 .. Rows - 1]
  <2>1. rows = [i \in 1 .. n |-> rows[i]]
    OBVIOUS
  <2> HIDE DEF rows
  <2> QED BY <1>4, <2>1
<1>6. ASSUME NEW i \in 1 .. n - 1
      PROVE  rows[i] + (Len(Report[i]) \div Cols) < rows[i + 1]
  <2>1. i \in 1 .. n /\ i + 1 \in 1 .. n /\ (i + 1) - 1 = i
    OBVIOUS
  <2>2. rows[i + 1] = r + h[i]
    BY <2>1
  <2> HIDE DEF rows
  <2> QED BY <1>4, <2>1, <2>2, Zenon
<1>7. ASSUME NEW i \in 1 .. n, NEW c \in 1 .. Len(Report[i])
      PROVE  screen'[rows[i] * Cols + c - 1] = Report[i][c]
  <2>1. PICK a \in Nat : a = h[i - 1]
    <3>1. i - 1 \in 0 .. n
      OBVIOUS
    <3> QED BY <1>1, <3>1, Rising
  <2>2. PICK z \in Nat : z = a * Cols
    BY <1>2
  <2>3. <<z + c - 1, Report[i][c]>> \in Stacks(h, n)
    <3>1. <<z + c - 1, Report[i][c]>> \in Spelled(Report[i], z, Len(Report[i]))
      BY DEF Spelled
    <3>2. <<z + c - 1, Report[i][c]>> \in Spelled(Report[i], h[i - 1] * Cols, Len(Report[i]))
      BY <2>1, <2>2, <3>1, Zenon
    <3> QED BY <3>2 DEF Stacks
  <2>4. v.s[r * Cols + (z + c - 1)] = Report[i][c]
    <3>1. \A m \in Stacks(h, n) : v.s[r * Cols + m[1]] = m[2]
      BY <1>1 DEF Holds
    <3> QED BY <2>3, <3>1
  <2>5. r * Cols + (z + c - 1) = (r + a) * Cols + c - 1
    <3>1. c \in Nat
      BY <1>1, ReportLines
    <3>2. (r + a) * Cols = r * Cols + a * Cols
      BY <1>2, <1>3
    <3>3. PICK y \in Nat : y = r * Cols
      BY <1>2, <1>3
    <3> QED BY <2>2, <3>1, <3>2, <3>3
  <2>6. rows[i] = r + a
    BY <2>1
  <2> HIDE DEF rows
  <2> QED BY <2>4, <2>5, <2>6, Zenon
<1> HIDE DEF rows
<1>8. \E q \in [1 .. n -> 0 .. Rows - 1] :
        /\ \A i \in 1 .. n : q[i] * Cols + Len(Report[i]) <= Cells
        /\ \A i \in 1 .. n - 1 : q[i] + (Len(Report[i]) \div Cols) < q[i + 1]
        /\ \A i \in 1 .. n : \A c \in 1 .. Len(Report[i]) :
              screen'[q[i] * Cols + c - 1] = Report[i][c]
  BY <1>4, <1>5, <1>6, <1>7, Zenon
<1> QED BY <1>1, <1>8, Zenon DEF ReportReadable

\* The first line feed brings the cursor to the beginning of a row, and the lines follow.
LEMMA PanicReadable ==
    ASSUME Working, panic_spin
    PROVE  ReportReadable'
<1> DEFINE found == [s |-> screen, p |-> Base * cursor.hi + cursor.lo]
<1>1. found \in Views /\ found.p = Read
  <2>1. screen \in [0 .. Cells - 1 -> Chars \cup {Blank} \cup Symbols] /\ cursor.hi \in Nat /\ cursor.lo \in Nat
    <3>1. screen \in [0 .. Cells - 1 -> Chars \cup {Blank}]
      BY DEF Working, StateInv
    <3> QED BY <3>1 DEF Working, StateInv
  <2>2. PICK p \in Nat : p = Base * cursor.hi + cursor.lo
    BY <2>1, Screen
  <2>3. [s |-> screen, p |-> p] \in Views
    BY <2>1 DEF Views
  <2> QED BY <2>2, <2>3 DEF Read
<1> HIDE DEF found
<1> PICK w : w = put_char(found, LF)
  OBVIOUS
<1>2. screen' = put_lines(w, Report).s
  BY Zenon DEF panic_spin, found
<1>3. w = line_feed(found)
  BY ReportLines DEF put_char
<1>4. w \in Views
  BY <1>1, <1>3, Fed
<1>5. PICK k \in Nat, j \in 0 .. Cols - 1 :
          /\ k + 1 < Rows => w.p = (k + 1) * Cols
          /\ k + 1 >= Rows => w.p = (Rows - 1) * Cols
  BY <1>1, <1>3, Fed
<1>6. Rows \in Nat \ {0, 1} /\ Cols \in Nat \ {0} /\ Cells = Rows * Cols /\ Cells \in Nat
  BY Screen DEF Cells
<1>7. PICK r \in Nat : r < Rows /\ w.p = r * Cols
  <2>1. CASE k + 1 < Rows
    BY <1>5, <2>1
  <2>2. CASE k + 1 >= Rows
    <3>1. PICK r \in Nat : r = Rows - 1 /\ r < Rows
      BY <1>6
    <3> QED BY <1>5, <2>2, <3>1
  <2> QED BY <1>6, <2>1, <2>2
<1>8. Holds(w, r, {}, 0)
  <2>1. r * Cols + 0 < Rows * Cols
    BY <1>6, <1>7, Between
  <2>2. w.p = r * Cols + 0 /\ w.p < Cells
    BY <1>6, <1>7, <2>1
  <2> QED BY <1>4, <2>2 DEF Holds
<1>9. PICK h : Stacked(h)
  BY ReportAssumption DEF Stacked
<1>10. PICK r1 : Holds(put_lines(w, Report), r1, Stacks(h, Len(Report)), h[Len(Report)] * Cols)
  BY <1>8, <1>9, HoldsLines
<1> QED BY <1>2, <1>9, <1>10, HoldsReadable, Zenon

\* Wherever a panic strikes, between the two halves of the cursor too, the
\* lines of its report stand whole on the screen, one below the other.
THEOREM ReportCorrect == Spec => []ReportReadable
<1>1. Init => IInv /\ ReportReadable
  BY InitWorks DEF IInv, Init, ReportReadable
<1>2. IInv /\ ReportReadable /\ [Next]_vars => IInv' /\ ReportReadable'
  <2> SUFFICES ASSUME IInv, ReportReadable, [Next]_vars PROVE ReportReadable'
    BY NextWorks
  <2>1. CASE UNCHANGED vars
    BY <2>1 DEF vars, ReportReadable
  <2>2. CASE panic_spin
    BY <2>2, PanicReadable DEF panic_spin, IInv
  <2>3. ASSUME NEW t \in Threads, PutChar(t) \/ console_release(t) \/ \E s \in Texts : Call(t, s)
        PROVE  ReportReadable'
    BY <2>3 DEF PutChar, Select, In, Draw, Out, console_release, Call, At, ReportReadable
  <2> QED BY <2>1, <2>2, <2>3 DEF Next
<1> QED BY <1>1, <1>2, PTL DEF Spec
=============================================================================
