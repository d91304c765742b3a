------------------------------ MODULE BitmapOps ------------------------------
(***************************************************************************)
(* lib/kernel/bitmap.c.  A bitmap is the set of the indices of its 1 bits; *)
(* bits from ByteBits * len on belong to whatever lies in memory behind a  *)
(* map of len bytes.                                                       *)
(***************************************************************************)
EXTENDS Integers, FiniteSetsExt

CONSTANT ByteBits               \* 8

ASSUME ByteBitsAssumption == ByteBits \in Nat \ {0}

None == -1                      \* what bitmap_scan answers when it fails
Halts == -2                     \* not an answer: an ASSERT of the scan failed

\* bits[a] == 0xff
ByteFull(bits, a) == \A j \in 0 .. ByteBits - 1 : a * ByteBits + j \in bits

\* Where the first loop stops.
FirstOpenByte(bits, len) == Min({a \in 0 .. len : a = len \/ ~ByteFull(bits, a)})

\* The second loop.
FirstClear(bits, a) == Min({i \in a * ByteBits .. (a + 1) * ByteBits - 1 : i \notin bits})

\* Mutant: the count goes on over a bit that is set.
CountOverSet(bits, start, n) ==
    Cardinality({start} \cup ((start .. n) \ bits))

\* The third loop's count when it has tested bit n: it is reset at a bit that
\* is set.  The loop tests as many bits behind start as there are from start
\* on, so the last is the bit size, behind the map.
Count(bits, start, n) ==
    n - Max({start - 1} \cup {i \in start + 1 .. n : i \in bits})

bitmap_scan(bits, len, cnt) ==
    LET a == FirstOpenByte(bits, len)
        start == FirstClear(bits, a)
        size == len * ByteBits
        hits == {n \in start + 1 .. size : Count(bits, start, n) = cnt}
    IN  IF a = len THEN Halts
        ELSE IF cnt = 1 THEN start
        ELSE IF hits = {} THEN None
        ELSE Min(hits) - cnt + 1

\* Storing 0 masks with the complement of 0: it leaves every bit as it is.
bitmap_set(bits, i, value) == IF value = 1 THEN bits \cup {i} ELSE bits

\* The callers' loop over cnt bits from start on; no step undoes another's.
SetRun(bits, start, cnt, value) ==
    bits \cup UNION {bitmap_set(bits, i, value) : i \in start .. start + cnt - 1}

-----------------------------------------------------------------------------
(* What callers rely on *)

\* How many bits a scan regards as its map: one more than there are, when it
\* looks for more than one.
Seen(len, cnt) == IF cnt = 1 THEN len * ByteBits ELSE len * ByteBits + 1

\* Where a clear run begins.
ClearRuns(bits, len, cnt) ==
    {s \in 0 .. len * ByteBits - 1 :
        s + cnt <= Seen(len, cnt) /\ (s .. s + cnt - 1) \cap bits = {}}

\* bitmap_scan answers the lowest clear run there is among the bits it looks
\* at, fails only if there is none, and halts only on a full map; and the
\* callers' loop then sets that run and no other bit.
ScanRight(bits, len, cnt) ==
    LET answer == bitmap_scan(bits, len, cnt)
        fits == ClearRuns(bits, len, cnt)
    IN  IF 0 .. len * ByteBits - 1 \subseteq bits THEN answer = Halts
        ELSE IF fits = {} THEN answer = None
        ELSE /\ answer \in fits /\ \A s \in fits : answer <= s
             /\ SetRun(bits, answer, cnt, 1) = bits \cup (answer .. answer + cnt - 1)
=============================================================================
