--------------------------------- MODULE Text --------------------------------
(***************************************************************************)
(* lib/string.c, lib/stdio.c and put_int of lib/kernel/print.S as          *)
(* functions.  A C string is a sequence whose last element is its 0; a     *)
(* char is signed, the character a search is given is not.                 *)
(***************************************************************************)
EXTENDS Integers, Sequences

CONSTANTS Chars,        \* the non-zero chars strings are made of, as bytes
          MaxLen,       \* bound: characters of a string
          HexDigits     \* width of an int in hexadecimal digits: 8

ASSUME TextAssumption ==
    Chars \subseteq 1 .. 255 /\ MaxLen \in Nat /\ HexDigits \in Nat \ {0}

signed(byte) == IF byte < 128 THEN byte ELSE byte - 256

\* Where a loop that steps i as long as it is in Go leaves it.
While(Go, i) ==
    LET after[k \in Nat] == IF k \in Go THEN after[k + 1] ELSE k IN after[i]

-----------------------------------------------------------------------------
(* lib/string.c; NULL is 0 where the code returns a pointer into str. *)

strlen(str) == While({k \in DOMAIN str : str[k] # 0}, 1) - 1

\* What dst holds after the call, up to the 0 that strcpy stores.
strcpy(dst, src) ==
    [k \in 1 .. Len(dst) |-> IF k <= strlen(src) + 1 THEN src[k] ELSE dst[k]]

strcat(dst, src) ==
    LET end == strlen(dst) IN [k \in 1 .. end + strlen(src) + 1 |->
                                  IF k <= end THEN dst[k] ELSE src[k - end]]

memset(dst, value, size) == [k \in 1 .. Len(dst) |-> IF k <= size THEN value ELSE dst[k]]
memcpy(dst, src, size) == [k \in 1 .. Len(dst) |-> IF k <= size THEN src[k] ELSE dst[k]]

Difference(x, y) == IF signed(x) > signed(y) THEN 1 ELSE IF signed(x) < signed(y) THEN -1 ELSE 0

memcmp(a, b, size) ==
    LET k == While({j \in (1 .. size) \cap DOMAIN a \cap DOMAIN b : a[j] = b[j]}, 1)
    IN  IF k > size THEN 0 ELSE Difference(a[k], b[k])

\* Mutant: the loop stops at the end of b only, and leaves a's unnoticed.
strcmpPrefix(a, b) ==
    LET k == While({j \in DOMAIN a \cap DOMAIN b : b[j] # 0 /\ a[j] = b[j]}, 1)
    IN  IF b[k] = 0 THEN 0 ELSE Difference(a[k], b[k])

strcmp(a, b) ==
    LET k == While({j \in DOMAIN a \cap DOMAIN b : a[j] # 0 /\ a[j] = b[j]}, 1)
    IN  Difference(a[k], b[k])

strch(str, ch) ==
    LET k == While({j \in DOMAIN str : str[j] # 0 /\ signed(str[j]) # ch}, 1)
    IN  IF str[k] = 0 THEN 0 ELSE k

strrch(str, ch) ==
    LET last[k \in 0 .. strlen(str)] ==
            IF k = 0 THEN 0 ELSE IF signed(str[k]) = ch THEN k ELSE last[k - 1]
    IN  last[strlen(str)]

strchrs(str, ch) ==
    LET count[k \in 0 .. strlen(str)] ==
            IF k = 0 THEN 0 ELSE IF signed(str[k]) = ch THEN count[k - 1] + 1 ELSE count[k - 1]
    IN  count[strlen(str)]

-----------------------------------------------------------------------------
(* lib/stdio.c: digits are numbers, a minus sign is "-". *)

itoa(value, base) ==
    LET digits[v \in Nat] == IF v \div base = 0 THEN <<v % base>>
                             ELSE Append(digits[v \div base], v % base)
    IN  digits[value]

\* put_int: every 4 bits one digit, from the right, then the leading zeros
\* are skipped.
put_int(value) ==
    LET rest[k \in Nat] == IF k = 0 THEN value ELSE rest[k - 1] \div 16
        buffer == [k \in 1 .. HexDigits |-> rest[HexDigits - k] % 16]
        first  == While({k \in 1 .. HexDigits : buffer[k] = 0}, 1)
    IN  IF first > HexDigits THEN <<0>> ELSE SubSeq(buffer, first, HexDigits)

\* How many values an int of n hexadecimal digits has.
Values[n \in Nat] == IF n = 0 THEN 1 ELSE 16 * Values[n - 1]

Words == Values[HexDigits]
Smallest == -(Words \div 2)

\* 0 - arg_int in an int, and what itoa makes of an int.
Negated(i) == IF i = Smallest THEN i ELSE 0 - i
Unsigned(i) == i % Words

\* Mutant: the digits of a negative number are taken before it is negated.
DecimalSigned(i) == IF i < 0 THEN <<"-">> \o itoa(Unsigned(i), 10)
                    ELSE itoa(Unsigned(i), 10)

Decimal(i) == IF i < 0 THEN <<"-">> \o itoa(Unsigned(Negated(i)), 10)
              ELSE itoa(Unsigned(i), 10)

Converted(spec, arg) ==
    CASE spec = "s" -> SubSeq(arg, 1, strlen(arg))
      [] spec = "x" -> itoa(Unsigned(arg), 16)
      [] spec = "d" -> Decimal(arg)
      [] spec = "c" -> <<arg>>

\* vsprintf over the characters of format, from character at[1] and argument at[2]
\* on.  After a "%" the next character is tested for a conversion; one that is none is
\* printed by the next turn, or starts another conversion when it is a "%" itself.
vsprintf(format, args) ==
    LET turn[at \in Nat \X Nat] ==
            LET i == at[1] n == at[2] IN
            IF i > Len(format) THEN <<>>
            ELSE IF format[i] # "%" THEN <<format[i]>> \o turn[<<i + 1, n>>]
            ELSE IF i + 1 > Len(format) THEN <<>>
            ELSE IF format[i + 1] \notin {"s", "x", "d", "c"} THEN turn[<<i + 1, n>>]
            ELSE Converted(format[i + 1], args[n]) \o turn[<<i + 2, n + 1>>]
    IN  turn[<<1, 1>>]

-----------------------------------------------------------------------------
(* Correctness *)

Strings == {s \o <<0>> : s \in UNION {[1 .. n -> Chars] : n \in 0 .. MaxLen}}
Numbers == Smallest .. Words - 1

OrderRight(a, b) ==
    /\ strcmp(a, b) = 0 <=> a = b
    /\ strcmp(a, b) = -strcmp(b, a)
    /\ strcmp(a, b) = memcmp(a, b, strlen(a) + 1)
    /\ strlen(strcat(a, b)) = strlen(a) + strlen(b)
    /\ strcpy(strcat(a, b), b) = memcpy(strcat(a, b), b, Len(b))
    /\ \A c \in Strings :
        /\ strcmp(strcat(c, a), strcat(c, b)) = strcmp(a, b)
        /\ strcmp(a, b) <= 0 /\ strcmp(b, c) <= 0 => strcmp(a, c) <= 0

SearchRight(a, b, ch) ==
    LET ab == strcat(a, b) IN
    /\ strchrs(ab, ch) = strchrs(a, ch) + strchrs(b, ch)
    /\ strch(ab, ch) = 0 <=> strchrs(ab, ch) = 0
    /\ strchrs(ab, ch) = 1 => strch(ab, ch) = strrch(ab, ch)
    /\ strrch(ab, ch) # 0 => strchrs(SubSeq(ab, strrch(ab, ch) + 1, Len(ab)), ch) = 0
    /\ strch(ab, ch) # 0 => strchrs(SubSeq(ab, 1, strch(ab, ch) - 1) \o <<0>>, ch) = 0
    /\ ch > 127 => strchrs(ab, ch) = 0

ValueOf(digits, base) ==
    LET v[k \in 0 .. Len(digits)] == IF k = 0 THEN 0 ELSE base * v[k - 1] + digits[k]
    IN  v[Len(digits)]

Numeral(digits, base, v) ==
    /\ ValueOf(digits, base) = v
    /\ \A k \in 1 .. Len(digits) : digits[k] \in 0 .. base - 1
    /\ Len(digits) > 1 => digits[1] # 0

\* An int below 0 is printed with its sign, the smallest one included.
NumberRight(v) ==
    IF v < 0 THEN Head(Decimal(v)) = "-" /\ Numeral(Tail(Decimal(v)), 10, -v)
    ELSE /\ \A base \in {10, 16} : Numeral(itoa(v, base), base, v)
         /\ put_int(v) = itoa(v, 16)

\* The pieces of a format, and the arguments each of them takes.
Pieces == {<<"%", "s">>, <<"%", "d">>, <<"%", "x">>, <<"%", "c">>, <<"a">>}
Args(p, n) == IF p = <<"a">> THEN <<>>
              ELSE IF p = <<"%", "s">> THEN << <<n, n, 0>> >> ELSE <<n>>

\* A format of three pieces, each with its own arguments, is printed piece by
\* piece.
FormatRight(v) ==
    \A p, q, r \in Pieces :
        vsprintf(p \o q \o r, Args(p, 7) \o Args(q, v) \o Args(r, 9)) =
        vsprintf(p, Args(p, 7)) \o vsprintf(q, Args(q, v)) \o vsprintf(r, Args(r, 9))
=============================================================================
