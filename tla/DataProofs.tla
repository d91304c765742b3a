----------------------------- MODULE DataProofs -----------------------------
(***************************************************************************)
(* What the functions of lib compute, for inputs of every size: the bitmap *)
(* scan, the string functions, the printed numbers and formats, and the    *)
(* partition scan of the disk driver.  Induction and recursion over the    *)
(* naturals come from the least element of a set of them, so that they can *)
(* be cited without an operator as a parameter.                            *)
(***************************************************************************)
EXTENDS Data, FiniteSetTheorems, SequenceTheorems, TLAPS

-----------------------------------------------------------------------------
(* What the functions are asked about. *)

InputInv ==
    /\ asked = "map" => input \in Contents
    /\ asked = "strings" => input \in Strings \X Strings
    /\ asked = "number" => input \in Numbers
    /\ asked = "disk" => input \in Layouts

\* Each function is asked about an input of its own.
LEMMA InputsCorrect == DataSpec => []InputInv
<1>1. DataInit => InputInv
  BY DEF DataInit, InputInv
<1>2. InputInv /\ [DataNext]_dataVars => InputInv'
  BY DEF DataNext, dataVars, InputInv
<1>. QED  BY <1>1, <1>2, PTL DEF DataSpec

-----------------------------------------------------------------------------
(* The least and the greatest element of a set of numbers. *)

\* A set of naturals has a least element: of the intervals that end in it, the
\* smallest by inclusion ends there.
LEMMA Least ==
    ASSUME NEW S \in SUBSET Nat, S # {}
    PROVE  Min(S) \in S /\ \A x \in S : Min(S) <= x
<1>. DEFINE T == {0 .. n : n \in S}
<1>1. T \subseteq FiniteSubsetsOf(Nat)
  <2>1. \A n \in S : IsFiniteSet(0 .. n)
    BY FS_Interval
  <2>. QED  BY <2>1 DEF FiniteSubsetsOf
<1>2. PICK i \in T : \A y \in T : ~(<<y, i>> \in StrictSubsetOrdering(Nat))
  <2>1. T # {}
    OBVIOUS
  <2>. HIDE DEF T
  <2>. QED  BY <1>1, <2>1, FS_StrictSubsetOrderingWellFounded, WFMin
<1>3. PICK m \in S : i = 0 .. m
  OBVIOUS
<1>4. ASSUME NEW x \in S, x < m
      PROVE  FALSE
  <2>1. 0 .. x \in T /\ 0 .. x \subseteq Nat /\ i \subseteq Nat
    BY <1>3
  <2>2. 0 .. x \subseteq i /\ m \in i /\ m \notin 0 .. x
    BY <1>3, <1>4
  <2>3. <<0 .. x, i>> \in StrictSubsetOrdering(Nat)
    BY <2>1, <2>2 DEF StrictSubsetOrdering
  <2>. QED  BY <1>2, <2>1, <2>3
<1>5. \A x \in S : m <= x
  BY <1>4
<1>. QED  BY <1>5, Zenon DEF Min

\* A set of integers with an upper bound has a greatest element.
LEMMA Greatest ==
    ASSUME NEW S \in SUBSET Int, NEW b \in Int, \A x \in S : x <= b, S # {}
    PROVE  Max(S) \in S /\ \A x \in S : Max(S) >= x
<1>. DEFINE T == {n \in Nat : b - n \in S}
<1>1. T # {} /\ T \in SUBSET Nat
  <2>1. PICK x \in S : TRUE
    OBVIOUS
  <2>2. b - x \in T
    OBVIOUS
  <2>. QED  BY <2>2
<1>2. Min(T) \in T /\ \A x \in T : Min(T) <= x
  <2>. HIDE DEF T
  <2>. QED  BY <1>1, Least
<1>3. b - Min(T) \in S
  BY <1>2
<1>4. \A x \in S : b - x \in T
  OBVIOUS
<1>5. \A x \in S : b - Min(T) >= x
  BY <1>2, <1>4
<1>6. \E x \in S : \A y \in S : x >= y
  BY <1>3, <1>5
<1>. QED  BY <1>6, Zenon DEF Max

\* Induction over a set of naturals: a number outside would have a least one.
LEMMA Induction ==
    ASSUME NEW T \in SUBSET Nat, 0 \in T, \A n \in T : n + 1 \in T
    PROVE  \A n \in Nat : n \in T
<1>. DEFINE S == Nat \ T
<1>. SUFFICES ASSUME S # {}
              PROVE  FALSE
  OBVIOUS
<1>1. Min(S) \in S /\ \A x \in S : Min(S) <= x
  <2>. HIDE DEF S
  <2>1. S \in SUBSET Nat
    BY DEF S
  <2>. QED  BY <2>1, Least
<1>. DEFINE m == Min(S)
<1>2. m \in Nat /\ m # 0 /\ m \notin T
  BY <1>1
<1>. HIDE DEF m
<1>3. m - 1 \in Nat /\ m - 1 \notin S
  <2>1. \A x \in S : m <= x
    BY <1>1 DEF m
  <2>. HIDE DEF S
  <2>. QED  BY <1>2, <2>1
<1>4. (m - 1) + 1 \in T
  BY <1>3
<1>. QED  BY <1>2, <1>4

\* A recursive definition has a solution if the value at x only depends on the
\* values at places of smaller rank.
WellRanked(D, S, rank, G) ==
    \A x \in D : \A f, g \in [D -> S] :
        (\A y \in D : rank[y] < rank[x] => f[y] = g[y]) => G[<<x, f>>] = G[<<x, g>>]

Solvable(D, S, G) == \E f \in [D -> S] : \A x \in D : f[x] = G[<<x, f>>]

\* A function that is its own definition exists, if what it says of x only depends on
\* values of lower rank.
LEMMA Recursion ==
    ASSUME NEW D, NEW S, S # {}, NEW rank \in [D -> Nat], NEW G \in [D \X [D -> S] -> S],
           WellRanked(D, S, rank, G)
    PROVE  Solvable(D, S, G)
<1>. USE DEF WellRanked, Solvable
<1>. DEFINE Solves(f, n) == \A x \in D : rank[x] < n => f[x] = G[<<x, f>>]
            T == {n \in Nat : \E f \in [D -> S] : Solves(f, n)}
            U == {n \in Nat : \A f, g \in [D -> S] : Solves(f, n) /\ Solves(g, n) =>
                                 \A x \in D : rank[x] < n => f[x] = g[x]}
<1>1. \A x \in D : rank[x] \in Nat
  OBVIOUS
<1>2. \A n \in Nat : n \in U
  <2>1. 0 \in U
    BY <1>1
  <2>2. ASSUME NEW n \in U
        PROVE  n + 1 \in U
    <3>1. ASSUME NEW f \in [D -> S], NEW g \in [D -> S], Solves(f, n + 1), Solves(g, n + 1),
                 NEW x \in D, rank[x] < n + 1
          PROVE  f[x] = g[x]
      <4>1. Solves(f, n) /\ Solves(g, n)
        BY <1>1, <3>1
      <4>2. \A y \in D : rank[y] < n => f[y] = g[y]
        BY <4>1
      <4>3. \A y \in D : rank[y] < rank[x] => rank[y] < n
        BY <1>1, <3>1
      <4>4. G[<<x, f>>] = G[<<x, g>>]
        BY <4>2, <4>3
      <4>. QED  BY <3>1, <4>4
    <3>. HIDE DEF Solves
    <3>. QED  BY <3>1
  <2>. HIDE DEF U
  <2>3. U \in SUBSET Nat
    BY DEF U
  <2>. QED  BY <2>1, <2>2, <2>3, Induction
<1>3. \A n \in Nat : n \in T
  <2>1. 0 \in T
    <3>1. PICK s \in S : TRUE
      OBVIOUS
    <3>2. [x \in D |-> s] \in [D -> S] /\ Solves([x \in D |-> s], 0)
      BY <1>1
    <3>. QED  BY <3>2
  <2>2. ASSUME NEW n \in T
        PROVE  n + 1 \in T
    <3>1. PICK f \in [D -> S] : Solves(f, n)
      OBVIOUS
    <3>. DEFINE g == [x \in D |-> G[<<x, f>>]]
    <3>2. g \in [D -> S]
      OBVIOUS
    <3>3. \A y \in D : rank[y] < n => g[y] = f[y]
      BY <3>1
    <3>4. ASSUME NEW x \in D, rank[x] < n + 1
          PROVE  g[x] = G[<<x, g>>]
      <4>1. \A y \in D : rank[y] < rank[x] => g[y] = f[y]
        BY <1>1, <3>3, <3>4
      <4>2. G[<<x, g>>] = G[<<x, f>>]
        <5>. HIDE DEF g
        <5>. QED  BY <4>1, <3>2
      <4>. QED  BY <4>2
    <3>5. Solves(g, n + 1)
      BY <3>4
    <3>. HIDE DEF Solves, g
    <3>. QED  BY <3>2, <3>5
  <2>. HIDE DEF T
  <2>3. T \in SUBSET Nat
    BY DEF T
  <2>. QED  BY <2>1, <2>2, <2>3, Induction
<1>. DEFINE upto(n) == CHOOSE f \in [D -> S] : Solves(f, n)
            F == [x \in D |-> upto(rank[x] + 1)[x]]
<1>4. \A n \in Nat : upto(n) \in [D -> S] /\ Solves(upto(n), n)
  <2>1. \A n \in Nat : \E f \in [D -> S] : Solves(f, n)
    BY <1>3
  <2>. HIDE DEF Solves
  <2>. QED  BY <2>1
<1>5. F \in [D -> S]
  <2>1. \A x \in D : upto(rank[x] + 1) \in [D -> S]
    <3>. HIDE DEF upto
    <3>. QED  BY <1>1, <1>4
  <2>. HIDE DEF upto
  <2>. QED  BY <2>1
<1>6. ASSUME NEW x \in D
      PROVE  F[x] = G[<<x, F>>]
  <2>. DEFINE n == rank[x] + 1
  <2>1. n \in Nat /\ rank[x] < n
    BY <1>1
  <2>2. ASSUME NEW y \in D, rank[y] < rank[x]
        PROVE  upto(n)[y] = F[y]
    <3>1. /\ rank[y] + 1 \in Nat
          /\ Solves(upto(rank[y] + 1), rank[y] + 1)
          /\ upto(rank[y] + 1) \in [D -> S] /\ upto(n) \in [D -> S]
      <4>1. rank[y] + 1 \in Nat
        BY <1>1
      <4>. HIDE DEF upto, Solves
      <4>. QED  BY <4>1, <1>4, <2>1
    <3>2. Solves(upto(n), rank[y] + 1)
      <4>1. Solves(upto(n), n)
        <5>. HIDE DEF upto, Solves
        <5>. QED  BY <1>4, <2>1
      <4>2. \A z \in D : rank[z] < rank[y] + 1 => rank[z] < n
        BY <1>1, <2>2
      <4>. HIDE DEF upto
      <4>. QED  BY <4>1, <4>2
    <3>3. upto(n)[y] = upto(rank[y] + 1)[y]
      <4>1. rank[y] + 1 \in U /\ rank[y] < rank[y] + 1
        <5>. HIDE DEF U
        <5>. QED  BY <3>1, <1>1, <1>2
      <4>. HIDE DEF upto, Solves
      <4>. QED  BY <3>1, <3>2, <4>1
    <3>. QED  BY <3>3
  <2>3. upto(n)[x] = G[<<x, upto(n)>>] /\ upto(n) \in [D -> S]
    <3>1. Solves(upto(n), n) /\ upto(n) \in [D -> S]
      BY <1>4, <2>1
    <3>. HIDE DEF upto
    <3>. QED  BY <3>1, <2>1
  <2>4. G[<<x, upto(n)>>] = G[<<x, F>>]
    <3>. HIDE DEF upto, F
    <3>. QED  BY <1>5, <2>2, <2>3
  <2>5. F[x] = upto(n)[x]
    OBVIOUS
  <2>. HIDE DEF F, upto
  <2>. QED  BY <2>3, <2>4, <2>5
<1>. QED  BY <1>5, <1>6

-----------------------------------------------------------------------------
(* Bytes and bits. *)

\* The bits of a byte of the map lie in the map.
LEMMA ByteInside ==
    ASSUME NEW len \in Nat, NEW a \in 0 .. len - 1
    PROVE  /\ a * ByteBits \in Nat
           /\ (a + 1) * ByteBits = a * ByteBits + ByteBits
           /\ (a + 1) * ByteBits <= len * ByteBits
           /\ len * ByteBits \in Nat
<1>. ByteBits \in Nat \ {0}
  BY ByteBitsAssumption
<1>1. a \in Nat /\ a * ByteBits \in Nat
  OBVIOUS
<1>2. (a + 1) * ByteBits = a * ByteBits + ByteBits
  OBVIOUS
<1>3. PICK d \in Nat : len = a + 1 + d
  <2>1. len - a - 1 \in Nat /\ len = a + 1 + (len - a - 1)
    OBVIOUS
  <2>. QED  BY <2>1
<1>4. len * ByteBits = (a + 1) * ByteBits + d * ByteBits /\ d * ByteBits \in Nat
  BY <1>1, <1>3
<1>. QED  BY <1>1, <1>2, <1>4

\* The first loop stops at a byte with a clear bit, or behind the map.
LEMMA OpenByte ==
    ASSUME NEW bits, NEW len \in Nat
    PROVE  /\ FirstOpenByte(bits, len) \in 0 .. len
           /\ \/ FirstOpenByte(bits, len) = len
              \/ ~ByteFull(bits, FirstOpenByte(bits, len))
<1>. DEFINE S == {a \in 0 .. len : a = len \/ ~ByteFull(bits, a)}
<1>1. S \in SUBSET Nat /\ len \in S
  OBVIOUS
<1>2. Min(S) \in S
  <2>. HIDE DEF S
  <2>. QED  BY <1>1, Least
<1>. QED  BY <1>2 DEF FirstOpenByte

\* The second loop stops at a clear bit of that byte.
LEMMA ClearBit ==
    ASSUME NEW bits, NEW len \in Nat, NEW a \in 0 .. len - 1, ~ByteFull(bits, a)
    PROVE  /\ FirstClear(bits, a) \in 0 .. len * ByteBits - 1
           /\ FirstClear(bits, a) \notin bits
<1>. DEFINE S == {i \in a * ByteBits .. (a + 1) * ByteBits - 1 : i \notin bits}
<1>1. /\ a * ByteBits \in Nat /\ ByteBits \in Nat
      /\ (a + 1) * ByteBits = a * ByteBits + ByteBits
      /\ (a + 1) * ByteBits <= len * ByteBits
      /\ len * ByteBits \in Nat
  BY ByteInside, ByteBitsAssumption
<1>2. PICK j \in 0 .. ByteBits - 1 : a * ByteBits + j \notin bits
  BY DEF ByteFull
<1>3. a * ByteBits + j \in S /\ S \in SUBSET Nat
  BY <1>1, <1>2
<1>4. Min(S) \in S
  <2>. HIDE DEF S
  <2>. QED  BY <1>3, Least
<1>. QED  BY <1>1, <1>4 DEF FirstClear

-----------------------------------------------------------------------------
(* What bitmap_scan answers. *)

\* A scan for one bit answers a clear bit of the map, unless it halts.
LEMMA ScanOne ==
    ASSUME NEW bits, NEW len \in Nat, bitmap_scan(bits, len, 1) # Halts
    PROVE  /\ bitmap_scan(bits, len, 1) \in 0 .. len * ByteBits - 1
           /\ bitmap_scan(bits, len, 1) \notin bits
<1>. DEFINE a == FirstOpenByte(bits, len)
<1>1. a # len /\ bitmap_scan(bits, len, 1) = FirstClear(bits, a)
  BY DEF bitmap_scan
<1>2. a \in 0 .. len - 1 /\ ~ByteFull(bits, a)
  BY <1>1, OpenByte
<1>. QED  BY <1>1, <1>2, ClearBit

\* The count is that of the clear bits up to n since start or since the last
\* bit that is set.
LEMMA CountClear ==
    ASSUME NEW bits, NEW start \in Nat, NEW n \in Nat, start < n, start \notin bits
    PROVE  /\ Count(bits, start, n) \in 0 .. n - start + 1
           /\ \A i \in n - Count(bits, start, n) + 1 .. n : i \notin bits
<1>. DEFINE S == {start - 1} \cup {i \in start + 1 .. n : i \in bits}
<1>1. S \in SUBSET Int /\ start - 1 \in S /\ \A x \in S : x <= n
  OBVIOUS
<1>2. Max(S) \in S /\ \A x \in S : Max(S) >= x
  <2>. HIDE DEF S
  <2>. QED  BY <1>1, Greatest
<1>3. Max(S) \in start - 1 .. n /\ Count(bits, start, n) = n - Max(S)
  BY <1>1, <1>2 DEF Count
<1>4. ASSUME NEW i \in Max(S) + 1 .. n
      PROVE  i \notin bits
  <2>1. CASE i = start
    BY <2>1
  <2>2. CASE i # start
    <3>1. i \in start + 1 .. n
      BY <1>3, <2>2
    <3>2. i \notin S
      BY <1>2, <1>3
    <3>. QED  BY <3>1, <3>2
  <2>. QED  BY <2>1, <2>2
<1>5. n - Count(bits, start, n) + 1 = Max(S) + 1 /\ Count(bits, start, n) \in 0 .. n - start + 1
  <2>. HIDE DEF S
  <2>. QED  BY <1>3
<1>. QED  BY <1>4, <1>5

\* A scan for cnt bits answers the first of cnt clear ones, the last of which
\* may be the one behind the map, unless it fails or halts.
LEMMA ScanRun ==
    ASSUME NEW bits, NEW len \in Nat, NEW cnt \in Nat \ {0},
           bitmap_scan(bits, len, cnt) \notin {Halts, None}
    PROVE  /\ bitmap_scan(bits, len, cnt) \in Nat
           /\ bitmap_scan(bits, len, cnt) + cnt - 1 \in 0 .. len * ByteBits
           /\ \A i \in bitmap_scan(bits, len, cnt) .. bitmap_scan(bits, len, cnt) + cnt - 1 :
                 i \notin bits
<1>1. CASE cnt = 1
  <2>1. /\ bitmap_scan(bits, len, cnt) \in 0 .. len * ByteBits - 1
        /\ bitmap_scan(bits, len, cnt) \notin bits
    BY <1>1, ScanOne
  <2>2. len * ByteBits \in Int
    BY ByteBitsAssumption
  <2>. QED  BY <1>1, <2>1, <2>2
<1>2. CASE cnt # 1
  <2>. DEFINE a == FirstOpenByte(bits, len)
              start == FirstClear(bits, a)
              size == len * ByteBits
              hits == {n \in start + 1 .. size : Count(bits, start, n) = cnt}
  <2>1. a # len /\ hits # {} /\ bitmap_scan(bits, len, cnt) = Min(hits) - cnt + 1
    BY <1>2 DEF bitmap_scan
  <2>2. a \in 0 .. len - 1 /\ ~ByteFull(bits, a)
    BY <2>1, OpenByte
  <2>3. start \in 0 .. size - 1 /\ start \notin bits /\ size \in Int
    BY <2>2, ClearBit, ByteBitsAssumption
  <2>4. hits \in SUBSET Nat
    BY <2>3
  <2>5. Min(hits) \in hits
    <3>. HIDE DEF hits
    <3>. QED  BY <2>1, <2>4, Least
  <2>. HIDE DEF a, start
  <2>6. PICK n \in hits : n = Min(hits)
    BY <2>5
  <2>7. n \in Nat /\ start \in Nat /\ start < n /\ n <= size /\ Count(bits, start, n) = cnt
    BY <2>3, <2>6
  <2>8. /\ Count(bits, start, n) \in 0 .. n - start + 1
        /\ \A i \in n - Count(bits, start, n) + 1 .. n : i \notin bits
    BY <2>3, <2>7, CountClear
  <2>9. bitmap_scan(bits, len, cnt) = n - cnt + 1
    BY <2>1, <2>6
  <2>. QED  BY <2>3, <2>7, <2>8, <2>9
<1>. QED  BY <1>1, <1>2

-----------------------------------------------------------------------------
(* What the callers' loop over bitmap_set does. *)

\* Setting a run adds it to the map.
LEMMA SetRunOnes ==
    ASSUME NEW bits, NEW start \in Int, NEW cnt \in Int
    PROVE  SetRun(bits, start, cnt, 1) = bits \cup (start .. start + cnt - 1)
BY DEF SetRun, bitmap_set

\* Clearing one leaves the map as it is.
LEMMA SetRunZeros ==
    ASSUME NEW bits, NEW start, NEW cnt
    PROVE  SetRun(bits, start, cnt, 0) = bits
BY DEF SetRun, bitmap_set

\* The first n bytes are full.
FullUpTo(bits, n) == \A c \in 0 .. n - 1 : ByteFull(bits, c)

\* Bytes that are full hold every bit before the first that is not.
LEMMA FullBytes ==
    ASSUME NEW bits, NEW n \in Nat, FullUpTo(bits, n),
           NEW i \in Nat, i < n * ByteBits
    PROVE  i \in bits
<1>. DEFINE c == i \div ByteBits
<1>1. ByteBits \in Nat \ {0}
  BY ByteBitsAssumption
<1>2. c \in Nat /\ i % ByteBits \in 0 .. ByteBits - 1 /\ i = ByteBits * c + (i % ByteBits)
  BY <1>1
<1>. HIDE DEF c
<1>3. ByteBits * c = c * ByteBits /\ c * ByteBits \in Nat /\ n * ByteBits \in Nat
  BY <1>1, <1>2
<1>4. c < n
  <2>1. SUFFICES ASSUME n <= c PROVE FALSE
    BY <1>2
  <2>2. PICK k \in Nat : c = n + k
    <3>. c - n \in Nat /\ c = n + (c - n)
      BY <1>2, <2>1
    <3>. QED  OBVIOUS
  <2>3. c * ByteBits = n * ByteBits + k * ByteBits /\ k * ByteBits \in Nat
    BY <1>1, <2>2
  <2>. QED  BY <1>2, <1>3, <2>3
<1>5. ByteFull(bits, c)
  BY <1>2, <1>4 DEF FullUpTo
<1>6. c * ByteBits + (i % ByteBits) \in bits
  BY <1>2, <1>5 DEF ByteFull
<1>. QED  BY <1>2, <1>3, <1>6

\* Every byte before the one where the first loop stops is full.
LEMMA BeforeOpenByte ==
    ASSUME NEW bits, NEW len \in Nat
    PROVE  FullUpTo(bits, FirstOpenByte(bits, len))
<1>. DEFINE S == {c \in 0 .. len : c = len \/ ~ByteFull(bits, c)}
<1>1. S \in SUBSET Nat /\ len \in S
  OBVIOUS
<1>2. \A c \in S : FirstOpenByte(bits, len) <= c
  <2>. HIDE DEF S
  <2>1. \A c \in S : Min(S) <= c
    BY <1>1, Least
  <2>. QED  BY <2>1 DEF FirstOpenByte, S
<1>3. FirstOpenByte(bits, len) \in 0 .. len
  BY OpenByte
<1>. QED  BY <1>2, <1>3 DEF FullUpTo

\* The scan halts only over a map whose bits are all set.
LEMMA FullMap ==
    ASSUME NEW bits, NEW len \in Nat, NEW cnt \in Nat, bitmap_scan(bits, len, cnt) = Halts
    PROVE  0 .. len * ByteBits - 1 \subseteq bits
<1>. DEFINE a == FirstOpenByte(bits, len)
            S == {c \in 0 .. len : c = len \/ ~ByteFull(bits, c)}
<1>1. a = len
  <2>1. SUFFICES ASSUME a # len PROVE FALSE
    OBVIOUS
  <2>2. a \in 0 .. len - 1 /\ ~ByteFull(bits, a)
    BY <2>1, OpenByte
  <2>. DEFINE start == FirstClear(bits, a)
              size == len * ByteBits
              hits == {n \in start + 1 .. size : Count(bits, start, n) = cnt}
  <2>3. start \in 0 .. size - 1 /\ start \notin bits /\ size \in Nat
    BY <2>2, ClearBit, ByteInside
  <2>4. \/ cnt = 1 /\ start = Halts
        \/ hits # {} /\ Min(hits) - cnt + 1 = Halts
    BY <2>1 DEF bitmap_scan, None, Halts
  <2>5. ~(cnt = 1 /\ start = Halts)
    BY <2>3 DEF Halts
  <2>6. hits # {} /\ hits \in SUBSET Nat
    BY <2>3, <2>4, <2>5
  <2>. HIDE DEF start, size
  <2>7. Min(hits) \in hits
    BY <2>6, Least
  <2>. DEFINE n == Min(hits)
  <2>8. n \in Nat /\ start < n /\ Count(bits, start, n) = cnt
    BY <2>3, <2>7
  <2>. HIDE DEF n, hits
  <2>9. Count(bits, start, n) \in 0 .. n - start + 1
    BY <2>3, <2>8, CountClear
  <2>10. n - cnt + 1 = Halts
    BY <2>4, <2>5 DEF n
  <2>. QED  BY <2>3, <2>8, <2>9, <2>10 DEF Halts
<1>2. FullUpTo(bits, len)
  BY <1>1, BeforeOpenByte
<1>3. len * ByteBits \in Nat
  BY ByteBitsAssumption
<1>. QED  BY <1>2, <1>3, FullBytes

\* The second loop stops at the lowest clear bit of the map.
LEMMA LowestClear ==
    ASSUME NEW bits, NEW len \in Nat, NEW a, a = FirstOpenByte(bits, len), a # len
    PROVE  /\ FirstClear(bits, a) \in 0 .. len * ByteBits - 1 /\ FirstClear(bits, a) \notin bits
           /\ \A i \in Nat : i \notin bits => FirstClear(bits, a) <= i
<1>1. a \in 0 .. len - 1 /\ ~ByteFull(bits, a)
  BY OpenByte
<1>2. /\ a * ByteBits \in Nat /\ ByteBits \in Nat
      /\ (a + 1) * ByteBits = a * ByteBits + ByteBits
  BY <1>1, ByteInside, ByteBitsAssumption
<1>3. FirstClear(bits, a) \in 0 .. len * ByteBits - 1 /\ FirstClear(bits, a) \notin bits
  BY <1>1, ClearBit
<1>. DEFINE S == {i \in a * ByteBits .. (a + 1) * ByteBits - 1 : i \notin bits}
<1>4. S \in SUBSET Nat /\ S # {}
  <2>1. PICK j \in 0 .. ByteBits - 1 : a * ByteBits + j \notin bits
    BY <1>1 DEF ByteFull
  <2>2. a * ByteBits + j \in S
    BY <1>2, <2>1
  <2>. QED  BY <1>2, <2>2
<1>5. \A i \in S : FirstClear(bits, a) <= i
  <2>1. FirstClear(bits, a) = Min(S)
    BY DEF FirstClear
  <2>. HIDE DEF S
  <2>. QED  BY <1>4, <2>1, Least
<1>6. FirstClear(bits, a) \in S
  <2>1. FirstClear(bits, a) = Min(S)
    BY DEF FirstClear
  <2>. HIDE DEF S
  <2>. QED  BY <1>4, <2>1, Least
<1>7. ASSUME NEW i \in Nat, i \notin bits
      PROVE  FirstClear(bits, a) <= i
  <2>1. a \in Nat /\ FullUpTo(bits, a)
    BY <1>1, BeforeOpenByte
  <2>2. a * ByteBits <= i
    BY <1>2, <1>7, <2>1, FullBytes
  <2>3. CASE i \in S
    BY <1>5, <2>3
  <2>4. CASE i > (a + 1) * ByteBits - 1
    BY <1>2, <1>6, <2>4
  <2>. QED  BY <1>2, <1>7, <2>2, <2>3, <2>4
<1>. QED  BY <1>3, <1>7

\* The count of the third loop at the end of a run that a set bit, or the
\* first clear one, precedes.
LEMMA CountWhole ==
    ASSUME NEW bits, NEW start \in Nat, NEW s \in Nat, NEW n \in Nat, start <= s, start < n, s <= n,
           s = start \/ s - 1 \in bits, s - 1 # start,
           \A i \in s .. n : i \notin bits
    PROVE  Count(bits, start, n) = n - s + 1
<1>. DEFINE S == {start - 1} \cup {i \in start + 1 .. n : i \in bits}
<1>1. S \in SUBSET Int /\ start - 1 \in S /\ \A x \in S : x <= n
  OBVIOUS
<1>2. s - 1 \in S /\ \A x \in S : x <= s - 1
  <2>1. s - 1 \in S
    OBVIOUS
  <2>2. ASSUME NEW x \in S PROVE x <= s - 1
    OBVIOUS
  <2>. QED  BY <2>1, <2>2
<1>3. Max(S) = s - 1
  <2>. HIDE DEF S
  <2>2. S # {} /\ n \in Int /\ S \in SUBSET Int
    BY <1>1
  <2>3. Max(S) \in S /\ \A x \in S : Max(S) >= x
    BY <1>1, <2>2, Greatest
  <2>4. PICK m \in Int : m = Max(S)
    BY <2>2, <2>3
  <2>5. m <= s - 1 /\ m >= s - 1
    BY <1>2, <2>3, <2>4
  <2>. QED  BY <2>4, <2>5
<1>4. Count(bits, start, n) = n - Max(S)
  BY DEF Count
<1>. HIDE DEF S
<1>. QED  BY <1>3, <1>4

\* bitmap_scan answers the lowest clear run there is, for every map and every
\* run asked for: it may reach one bit behind the map, fails only when there is
\* none, and halts only on a full map.
THEOREM ScanCorrect ==
    ASSUME NEW bits, NEW len \in Nat, NEW cnt \in Nat \ {0}
    PROVE  ScanRight(bits, len, cnt)
<1>1. PICK a : a = FirstOpenByte(bits, len)
  OBVIOUS
<1>2. PICK size \in Nat : size = len * ByteBits
  BY ByteBitsAssumption
<1>3. CASE 0 .. size - 1 \subseteq bits
  <2>1. a = len
    BY <1>1, <1>2, <1>3, LowestClear
  <2>. QED  BY <1>1, <1>2, <1>3, <2>1 DEF ScanRight, bitmap_scan
<1>4. CASE ~(0 .. size - 1 \subseteq bits)
  <2>1. a # len
    <3>1. SUFFICES ASSUME a = len PROVE 0 .. size - 1 \subseteq bits
      BY <1>4
    <3>2. FullUpTo(bits, len)
      BY <1>1, <3>1, BeforeOpenByte
    <3>. QED  BY <1>2, <3>2, FullBytes
  <2>2. PICK start : start = FirstClear(bits, a)
    OBVIOUS
  <2>3. /\ start \in 0 .. size - 1 /\ start \notin bits
        /\ \A i \in Nat : i \notin bits => start <= i
    BY <1>1, <1>2, <2>1, <2>2, LowestClear
  <2>4. PICK fits : fits = ClearRuns(bits, len, cnt)
    OBVIOUS
  <2>5. PICK answer : answer = bitmap_scan(bits, len, cnt)
    OBVIOUS
  <2>6. SUFFICES /\ fits = {} => answer = None
                 /\ fits # {} => answer \in fits /\ \A s \in fits : answer <= s
    <3>1. fits # {} /\ answer \in fits => answer \in Int
      BY <1>2, <2>4 DEF ClearRuns
    <3>. QED  BY <1>2, <1>4, <2>4, <2>5, <3>1, SetRunOnes DEF ScanRight
  <2>7. CASE cnt = 1
    <3>1. answer = start
      BY <1>1, <2>1, <2>2, <2>5, <2>7 DEF bitmap_scan
    <3>2. fits = {s \in 0 .. size - 1 : s \notin bits}
      <4>1. \A s \in 0 .. size - 1 : s + 1 <= size /\ s .. s + 1 - 1 = {s}
        BY <1>2
      <4>. QED  BY <1>2, <2>4, <2>7, <4>1 DEF ClearRuns, Seen
    <3>. QED  BY <1>2, <2>3, <3>1, <3>2
  <2>8. CASE cnt # 1
    <3>1. PICK hits : hits = {n \in start + 1 .. size : Count(bits, start, n) = cnt}
      OBVIOUS
    <3>2. answer = IF hits = {} THEN None ELSE Min(hits) - cnt + 1
      BY <1>1, <1>2, <2>1, <2>2, <2>5, <2>8, <3>1 DEF bitmap_scan
    <3>3. fits = {s \in 0 .. size - 1 : s + cnt <= size + 1 /\ \A i \in s .. s + cnt - 1 : i \notin bits}
      BY <1>2, <2>4, <2>8 DEF ClearRuns, Seen
    <3>4. ASSUME NEW n \in hits
          PROVE  n \in Nat /\ n - cnt + 1 \in fits
      <4>1. n \in start + 1 .. size /\ Count(bits, start, n) = cnt
        BY <3>1
      <4>2. n \in Nat /\ start \in Nat /\ start < n
        BY <1>2, <2>3, <4>1
      <4>3. cnt \in 0 .. n - start + 1 /\ \A i \in n - cnt + 1 .. n : i \notin bits
        BY <2>3, <4>1, <4>2, CountClear
      <4>4. n - cnt + 1 \in 0 .. size - 1 /\ (n - cnt + 1) + cnt <= size + 1 /\ (n - cnt + 1) + cnt - 1 = n
        BY <1>2, <2>3, <2>8, <4>1, <4>2, <4>3
      <4>. QED  BY <3>3, <4>2, <4>3, <4>4
    <3>5. CASE fits = {}
      BY <3>2, <3>4, <3>5
    <3>6. CASE fits # {}
      <4>1. fits \in SUBSET Nat
        BY <1>2, <3>3
      <4>2. PICK s \in fits : \A t \in fits : s <= t
        BY <3>6, <4>1, Least
      <4>3. /\ s \in 0 .. size - 1 /\ s + cnt <= size + 1
            /\ \A i \in s .. s + cnt - 1 : i \notin bits
        BY <3>3, <4>2
      <4>4. start <= s
        BY <1>2, <2>3, <4>3
      <4>5. s = start \/ (s - 1 \in bits /\ s - 1 # start)
        <5>1. SUFFICES ASSUME s # start, s - 1 \notin bits PROVE FALSE
          BY <2>3
        <5>2. s - 1 \in 0 .. size - 1 /\ (s - 1) + cnt <= size + 1
          BY <1>2, <2>3, <4>3, <4>4, <5>1
        <5>3. \A i \in s - 1 .. (s - 1) + cnt - 1 : i = s - 1 \/ i \in s .. s + cnt - 1
          BY <1>2, <4>3
        <5>4. s - 1 \in fits
          BY <3>3, <4>3, <5>1, <5>2, <5>3
        <5>. QED  BY <1>2, <4>2, <4>3, <5>4
      <4>6. PICK n \in Nat : n = s + cnt - 1
        BY <1>2, <4>3
      <4>7. n \in hits
        <5>1. s \in Nat /\ start \in Nat /\ start < n /\ s <= n /\ n \in start + 1 .. size /\ n - s + 1 = cnt
          BY <1>2, <2>3, <2>8, <4>3, <4>4, <4>6
        <5>2. Count(bits, start, n) = n - s + 1
          BY <4>3, <4>4, <4>5, <4>6, <5>1, CountWhole
        <5>. QED  BY <3>1, <5>1, <5>2
      <4>8. hits \in SUBSET Nat /\ hits # {}
        BY <3>4, <4>7
      <4>9. PICK h \in hits : h = Min(hits) /\ h <= n
        BY <4>7, <4>8, Least
      <4>10. answer = h - cnt + 1 /\ answer \in fits
        BY <3>2, <3>4, <4>8, <4>9
      <4>11. answer <= s
        BY <1>2, <3>4, <4>3, <4>6, <4>9, <4>10
      <4>12. answer = s
        BY <4>1, <4>2, <4>10, <4>11
      <4>. QED  BY <3>6, <4>2, <4>12
    <3>. QED  BY <3>5, <3>6
  <2>. QED  BY <2>7, <2>8
<1>. QED  BY <1>2, <1>3, <1>4

\* LowestClearRun for maps of every length and runs of every length: bitmap_scan
\* (bitmap.c:19) answers the lowest clear run, and fails only if there is none.
THEOREM BitmapsCorrect == DataSpec => []LowestClearRun
<1>1. InputInv => LowestClearRun
  BY ScanCorrect, DataAssumption DEF InputInv, LowestClearRun
<1>. QED  BY <1>1, InputsCorrect, PTL

-----------------------------------------------------------------------------
(* Where loops end, and strings. *)

\* A loop ends where it first leaves its set.
LEMMA WhileStops ==
    ASSUME NEW Go, NEW i \in Nat, NEW n \in Nat, i <= n, n \notin Go,
           \A k \in i .. n - 1 : k \in Go
    PROVE  While(Go, i) = n
<1>. DEFINE Stops(k) == {m \in Nat : k <= m /\ m \notin Go}
            Loops(f) == f = [k \in Nat |-> IF k \in Go THEN f[k + 1] ELSE k]
            W == [k \in Nat |-> IF Stops(k) = {} THEN 0 ELSE Min(Stops(k))]
            A == CHOOSE f : Loops(f)
<1>1. Loops(W)
  <2>1. ASSUME NEW k \in Nat, k \in Go
        PROVE  W[k] = W[k + 1]
    <3>1. Stops(k) = Stops(k + 1)
      BY <2>1
    <3>. HIDE DEF Stops
    <3>. QED  BY <3>1
  <2>2. ASSUME NEW k \in Nat, k \notin Go
        PROVE  W[k] = k
    <3>1. k \in Stops(k) /\ Stops(k) \in SUBSET Nat /\ \A m \in Stops(k) : k <= m
      BY <2>2
    <3>2. Min(Stops(k)) \in Stops(k) /\ Min(Stops(k)) <= k
      <4>. HIDE DEF Stops
      <4>. QED  BY <3>1, Least
    <3>3. Min(Stops(k)) = k
      BY <3>1, <3>2
    <3>. QED  BY <3>1, <3>3
  <2>. HIDE DEF Stops
  <2>3. W = [k \in Nat |-> W[k]]
    OBVIOUS
  <2>. HIDE DEF W
  <2>. QED  BY <2>1, <2>2, <2>3
<1>2. Loops(A)
  <2>. HIDE DEF Loops
  <2>. QED  BY <1>1
<1>3. \A k \in Nat : A[k] = IF k \in Go THEN A[k + 1] ELSE k
  <2>. HIDE DEF A
  <2>. QED  BY <1>2
<1>. DEFINE T == {d \in Nat : d <= n - i => A[n - d] = n}
<1>4. \A d \in Nat : d \in T
  <2>. HIDE DEF A
  <2>1. 0 \in T
    BY <1>3
  <2>2. ASSUME NEW d \in T
        PROVE  d + 1 \in T
    <3>1. CASE d + 1 <= n - i
      <4>1. n - (d + 1) \in Nat /\ n - (d + 1) \in Go /\ (n - (d + 1)) + 1 = n - d
        BY <3>1
      <4>2. A[n - (d + 1)] = A[n - d]
        BY <1>3, <4>1
      <4>. QED  BY <3>1, <4>2
    <3>. QED  BY <3>1
  <2>. HIDE DEF T
  <2>3. T \in SUBSET Nat
    BY DEF T
  <2>. QED  BY <2>1, <2>2, <2>3, Induction
<1>5. A[i] = n
  <2>1. n - i \in T /\ n - (n - i) = i
    BY <1>4
  <2>. HIDE DEF A
  <2>. QED  BY <2>1
<1>. QED  BY <1>5 DEF While

\* A C string of n characters: bytes, and the 0 after them.
Ends(s, n) ==
    /\ s = [k \in 1 .. n + 1 |-> s[k]] /\ Len(s) = n + 1
    /\ \A k \in 1 .. n : s[k] \in 1 .. 255
    /\ s[n + 1] = 0

\* A function over 1 .. n is a sequence of n elements.
LEMMA SequenceOf ==
    ASSUME NEW S, NEW n \in Nat, NEW f \in [1 .. n -> S]
    PROVE  f \in Seq(S) /\ Len(f) = n
<1>1. f \in Seq(S)
  BY SeqDef
<1>2. Len(f) \in Nat /\ DOMAIN f = 1 .. Len(f) /\ DOMAIN f = 1 .. n
  BY <1>1, LenProperties
<1>. QED  BY <1>1, <1>2

\* A sequence of n elements is a function over 1 .. n.
LEMMA SequenceIs ==
    ASSUME NEW S, NEW s \in Seq(S), NEW n, Len(s) = n
    PROVE  n \in Nat /\ s \in [1 .. n -> S] /\ DOMAIN s = 1 .. n
BY LenProperties

\* What ends in its first 0 is a C string.
LEMMA EndsWhere ==
    ASSUME NEW n \in Nat, NEW s \in [1 .. n + 1 -> 0 .. 255],
           \A k \in 1 .. n : s[k] # 0, s[n + 1] = 0
    PROVE  Ends(s, n)
<1>1. n + 1 \in Nat
  OBVIOUS
<1>2. Len(s) = n + 1
  BY <1>1, SequenceOf
<1>3. \A k \in 1 .. n : s[k] \in 1 .. 255
  <2>. TAKE k \in 1 .. n
  <2>1. k \in 1 .. n + 1
    OBVIOUS
  <2>2. s[k] \in 0 .. 255 /\ s[k] # 0
    BY <2>1
  <2>. QED  BY <2>2
<1>. QED  BY <1>2, <1>3 DEF Ends

\* All a C string holds are bytes, and its only 0 is its last.
LEMMA EndsBytes ==
    ASSUME NEW n \in Nat, NEW s, Ends(s, n)
    PROVE  /\ DOMAIN s = 1 .. n + 1
           /\ \A k \in 1 .. n + 1 : s[k] \in 0 .. 255 /\ (s[k] = 0 <=> k = n + 1)
<1>1. DOMAIN s = 1 .. n + 1
  BY DEF Ends
<1>2. ASSUME NEW k \in 1 .. n + 1
      PROVE  s[k] \in 0 .. 255 /\ (s[k] = 0 <=> k = n + 1)
  <2>1. CASE k = n + 1
    BY <2>1 DEF Ends
  <2>2. CASE k # n + 1
    <3>1. k \in 1 .. n
      BY <2>2
    <3>2. s[k] \in 1 .. 255
      BY <3>1 DEF Ends
    <3>. QED  BY <2>2, <3>2
  <2>. QED  BY <2>1, <2>2
<1>. QED  BY <1>1, <1>2

\* The strings of the model are C strings.
LEMMA StringsAre ==
    ASSUME NEW s \in Strings
    PROVE  \E n \in Nat : Ends(s, n)
<1>1. Chars \subseteq 1 .. 255 /\ MaxLen \in Nat
  BY TextAssumption
<1>2. PICK n \in 0 .. MaxLen : \E t \in [1 .. n -> Chars] : s = t \o <<0>>
  BY DEF Strings
<1>3. PICK t \in [1 .. n -> Chars] : s = t \o <<0>>
  BY <1>2
<1>4. n \in Nat
  BY <1>1
<1>5. \A i \in 1 .. n : t[i] \in 1 .. 255 /\ t[i] \in 0 .. 255 /\ t[i] # 0
  <2>1. ASSUME NEW x \in Chars
        PROVE  x \in 1 .. 255 /\ x \in 0 .. 255 /\ x # 0
    <3>1. x \in 1 .. 255
      BY <1>1
    <3>. QED  BY <3>1
  <2>. QED  BY <2>1
<1>6. t \in [1 .. n -> 0 .. 255]
  BY <1>5
<1>7. t \in Seq(0 .. 255) /\ Len(t) = n
  BY <1>4, <1>6, SequenceOf
<1>8. <<0>> \in Seq(0 .. 255) /\ Len(<<0>>) = 1 /\ <<0>>[1] = 0
  OBVIOUS
<1>9. /\ s \in Seq(0 .. 255) /\ Len(s) = n + 1
      /\ \A i \in 1 .. n + 1 : s[i] = IF i <= n THEN t[i] ELSE <<0>>[i - n]
  BY <1>3, <1>7, <1>8, ConcatProperties
<1>10. s[n + 1] = 0
  BY <1>4, <1>8, <1>9
<1>11. \A i \in 1 .. n : s[i] # 0
  <2>. TAKE i \in 1 .. n
  <2>1. i \in 1 .. n + 1 /\ i <= n
    BY <1>4
  <2>2. s[i] = t[i]
    BY <1>9, <2>1
  <2>. QED  BY <1>5, <2>2
<1>12. s \in [1 .. n + 1 -> 0 .. 255]
  BY <1>9, LenProperties, ZenonT(40)
<1>. QED  BY <1>4, <1>10, <1>11, <1>12, EndsWhere

\* strlen does not count the 0.
LEMMA Length ==
    ASSUME NEW n \in Nat, NEW s, Ends(s, n)
    PROVE  strlen(s) = n
<1>. DEFINE Go == {k \in DOMAIN s : s[k] # 0}
<1>1. n + 1 \notin Go /\ \A k \in 1 .. (n + 1) - 1 : k \in Go
  BY EndsBytes
<1>2. While(Go, 1) = n + 1
  <2>. HIDE DEF Go
  <2>. QED  BY <1>1, WhileStops
<1>. QED  BY <1>2 DEF strlen

\* c holds the characters of a and then all of b.
Continues(c, a, n, b, m) ==
    /\ Ends(c, n + m)
    /\ \A k \in 1 .. n : c[k] = a[k]
    /\ \A k \in 1 .. m + 1 : c[n + k] = b[k]

\* strcat takes the first 0 away.
LEMMA Cat ==
    ASSUME NEW n \in Nat, NEW a, Ends(a, n), NEW m \in Nat, NEW b, Ends(b, m)
    PROVE  Continues(strcat(a, b), a, n, b, m)
<1>. DEFINE c == [k \in 1 .. (n + m) + 1 |-> IF k <= n THEN a[k] ELSE b[k - n]]
<1>1. strlen(a) = n /\ strlen(b) = m
  BY Length
<1>2. strcat(a, b) = c
  BY <1>1 DEF strcat
<1>3. /\ \A k \in 1 .. n : c[k] = a[k]
      /\ \A k \in 1 .. m + 1 : c[n + k] = b[k]
  OBVIOUS
<1>4. \A k \in 1 .. (n + m) + 1 : k \in 1 .. n \/ (k - n \in 1 .. m + 1 /\ k = n + (k - n))
  OBVIOUS
<1>5. \A k \in 1 .. (n + m) + 1 : c[k] \in 0 .. 255 /\ (c[k] = 0 <=> k = (n + m) + 1)
  <2>. TAKE k \in 1 .. (n + m) + 1
  <2>1. CASE k \in 1 .. n
    <3>1. a[k] \in 0 .. 255 /\ a[k] # 0
      BY <2>1, EndsBytes
    <3>. QED  BY <2>1, <3>1
  <2>2. CASE k \notin 1 .. n
    <3>1. k - n \in 1 .. m + 1 /\ (k - n = m + 1 <=> k = (n + m) + 1)
      BY <2>2
    <3>2. b[k - n] \in 0 .. 255 /\ (b[k - n] = 0 <=> k - n = m + 1)
      BY <3>1, EndsBytes
    <3>3. c[k] = b[k - n]
      BY <2>2
    <3>. QED  BY <3>1, <3>2, <3>3
  <2>. QED  BY <2>1, <2>2
<1>6. c \in [1 .. (n + m) + 1 -> 0 .. 255]
  BY <1>5
<1>. HIDE DEF c
<1>7. n + m \in Nat /\ c[(n + m) + 1] = 0 /\ \A k \in 1 .. n + m : c[k] # 0
  BY <1>5
<1>8. Ends(c, n + m)
  BY <1>6, <1>7, EndsWhere
<1>. QED  BY <1>2, <1>3, <1>8 DEF Continues

\* Where a comparison ends.
Parts(a, n, b, m, k) ==
    /\ k \in 1 .. n + 1 /\ k \in 1 .. m + 1
    /\ \A j \in 1 .. k - 1 : a[j] # 0 /\ b[j] # 0 /\ a[j] = b[j]
    /\ a[k] = 0 \/ a[k] # b[k]

\* Two C strings part somewhere, at the end of the shorter one at the latest.
LEMMA SomewhereParts ==
    ASSUME NEW n \in Nat, NEW a, Ends(a, n), NEW m \in Nat, NEW b, Ends(b, m)
    PROVE  \E k \in Nat : Parts(a, n, b, m, k)
<1>. DEFINE S == {k \in Nat : 1 <= k /\ k <= n + 1 /\ k <= m + 1 /\ (a[k] = 0 \/ a[k] # b[k])}
<1>1. S # {}
  <2>1. CASE n <= m
    <3>1. a[n + 1] = 0
      BY EndsBytes
    <3>2. n + 1 \in S
      BY <2>1, <3>1
    <3>. QED  BY <3>2
  <2>2. CASE m < n
    <3>1. m + 1 \in 1 .. n + 1 /\ m + 1 # n + 1
      BY <2>2
    <3>2. b[m + 1] = 0 /\ a[m + 1] # 0
      BY <3>1, EndsBytes
    <3>3. m + 1 \in S
      BY <2>2, <3>2
    <3>. QED  BY <3>3
  <2>. QED  BY <2>1, <2>2
<1>2. PICK k \in S : \A i \in S : k <= i
  <2>1. S \in SUBSET Nat
    OBVIOUS
  <2>. HIDE DEF S
  <2>. QED  BY <1>1, <2>1, Least
<1>3. \A j \in 1 .. k - 1 : a[j] # 0 /\ b[j] # 0 /\ a[j] = b[j]
  <2>. TAKE j \in 1 .. k - 1
  <2>1. j \notin S /\ j \in Nat
    BY <1>2
  <2>2. a[j] # 0 /\ a[j] = b[j]
    BY <1>2, <2>1
  <2>. QED  BY <2>2
<1>4. Parts(a, n, b, m, k)
  BY <1>2, <1>3 DEF Parts
<1>. QED  BY <1>4

\* strcmp (string.c:60) is decided by the characters at which two strings part.
LEMMA Compare ==
    ASSUME NEW n \in Nat, NEW a, Ends(a, n), NEW m \in Nat, NEW b, Ends(b, m),
           NEW k \in Nat, Parts(a, n, b, m, k)
    PROVE  strcmp(a, b) = Difference(a[k], b[k])
<1>. DEFINE Go == {j \in DOMAIN a \cap DOMAIN b : a[j] # 0 /\ a[j] = b[j]}
<1>1. DOMAIN a = 1 .. n + 1 /\ DOMAIN b = 1 .. m + 1
  BY EndsBytes
<1>2. 1 <= k /\ k \notin Go /\ \A j \in 1 .. k - 1 : j \in Go
  BY <1>1 DEF Parts
<1>3. While(Go, 1) = k
  <2>. HIDE DEF Go
  <2>. QED  BY <1>2, WhileStops
<1>. QED  BY <1>3 DEF strcmp

\* Bytes differ as signed chars do.
LEMMA Differences ==
    ASSUME NEW x \in 0 .. 255, NEW y \in 0 .. 255
    PROVE  /\ signed(x) \in Int /\ Difference(x, y) \in {-1, 0, 1}
           /\ Difference(x, y) = 0 <=> x = y
           /\ Difference(x, y) = -Difference(y, x)
           /\ signed(x) = signed(y) <=> x = y
BY DEF Difference, signed

\* The order of two chars is that of their signed values.
LEMMA NoGreater ==
    ASSUME NEW x \in 0 .. 255, NEW y \in 0 .. 255
    PROVE  Difference(x, y) <= 0 <=> signed(x) <= signed(y)
BY DEF Difference, signed

\* Strings that agree where they part are the same.
LEMMA PartEqual ==
    ASSUME NEW n \in Nat, NEW a, Ends(a, n), NEW m \in Nat, NEW b, Ends(b, m),
           NEW k \in Nat, Parts(a, n, b, m, k), a[k] = b[k]
    PROVE  a = b /\ n = m /\ k = n + 1
<1>1. a[k] = 0 /\ b[k] = 0 /\ k \in 1 .. n + 1 /\ k \in 1 .. m + 1
  BY DEF Parts
<1>2. k = n + 1 /\ k = m + 1
  BY <1>1, EndsBytes
<1>3. n = m /\ \A j \in 1 .. n + 1 : a[j] = b[j]
  BY <1>2 DEF Parts
<1>4. a = [j \in 1 .. n + 1 |-> a[j]] /\ b = [j \in 1 .. n + 1 |-> b[j]]
  BY <1>3 DEF Ends
<1>5. [j \in 1 .. n + 1 |-> a[j]] = [j \in 1 .. n + 1 |-> b[j]]
  BY <1>3
<1>. QED  BY <1>2, <1>3, <1>4, <1>5

\* strcmp is an order: equal strings are the same, exchanged they compare the
\* other way round, and it is transitive.
LEMMA CompareOrder ==
    ASSUME NEW n \in Nat, NEW a, Ends(a, n), NEW m \in Nat, NEW b, Ends(b, m)
    PROVE  /\ strcmp(a, b) = 0 <=> a = b
           /\ strcmp(a, b) = -strcmp(b, a)
<1>1. PICK k \in Nat : Parts(a, n, b, m, k)
  BY SomewhereParts
<1>2. Parts(b, m, a, n, k)
  BY <1>1 DEF Parts
<1>3. k \in 1 .. n + 1 /\ k \in 1 .. m + 1
  BY <1>1 DEF Parts
<1>4. a[k] \in 0 .. 255 /\ b[k] \in 0 .. 255
  BY <1>3, EndsBytes
<1>5. strcmp(a, b) = Difference(a[k], b[k])
  BY <1>1, Compare
<1>6. strcmp(b, a) = Difference(b[k], a[k])
  BY <1>2, Compare
<1>7. a[k] = b[k] => a = b
  BY <1>1, PartEqual
<1>8. /\ Difference(a[k], b[k]) = 0 <=> a[k] = b[k]
      /\ Difference(a[k], b[k]) = -Difference(b[k], a[k])
  BY <1>4, Differences
<1>. QED  BY <1>5, <1>6, <1>7, <1>8

\* Being no greater is transitive, whichever two of three strings part first.
LEMMA CompareTransitive ==
    ASSUME NEW n \in Nat, NEW a, Ends(a, n), NEW m \in Nat, NEW b, Ends(b, m),
           NEW l \in Nat, NEW c, Ends(c, l),
           strcmp(a, b) <= 0, strcmp(b, c) <= 0
    PROVE  strcmp(a, c) <= 0
<1>1. PICK i \in Nat : Parts(a, n, b, m, i)
  BY SomewhereParts
<1>2. PICK j \in Nat : Parts(b, m, c, l, j)
  BY SomewhereParts
<1>3. i \in 1 .. n + 1 /\ i \in 1 .. m + 1 /\ j \in 1 .. m + 1 /\ j \in 1 .. l + 1
  BY <1>1, <1>2 DEF Parts
<1>4. a[i] \in 0 .. 255 /\ b[i] \in 0 .. 255 /\ b[j] \in 0 .. 255 /\ c[j] \in 0 .. 255
  BY <1>3, EndsBytes
<1>5. strcmp(a, b) = Difference(a[i], b[i]) /\ strcmp(b, c) = Difference(b[j], c[j])
  <2>1. strcmp(a, b) = Difference(a[i], b[i])
    BY <1>1, Compare
  <2>2. strcmp(b, c) = Difference(b[j], c[j])
    BY <1>2, Compare
  <2>. QED  BY <2>1, <2>2
<1>6. signed(a[i]) <= signed(b[i]) /\ signed(b[j]) <= signed(c[j])
  <2>1. Difference(a[i], b[i]) <= 0 /\ Difference(b[j], c[j]) <= 0
    BY <1>5
  <2>2. signed(a[i]) <= signed(b[i])
    BY <1>4, <2>1, NoGreater
  <2>3. signed(b[j]) <= signed(c[j])
    BY <1>4, <2>1, NoGreater
  <2>. QED  BY <2>2, <2>3
<1>7. CASE a = b \/ b = c
  BY <1>7
<1>8. CASE a # b /\ b # c
  <2>1. a[i] # b[i]
    BY <1>1, <1>8, PartEqual
  <2>2. b[j] # c[j]
    BY <1>2, <1>8, PartEqual
  <2>. DEFINE p == IF i < j THEN i ELSE j
  <2>3. p \in Nat /\ p \in 1 .. n + 1 /\ p \in 1 .. l + 1 /\ \A q \in 1 .. p - 1 : q \in 1 .. i - 1 /\ q \in 1 .. j - 1
    BY <1>3
  <2>4. \A q \in 1 .. p - 1 : a[q] # 0 /\ c[q] # 0 /\ a[q] = c[q]
    <3>. HIDE DEF p
    <3>. QED  BY <1>1, <1>2, <2>3 DEF Parts
  <2>5. a[p] \in 0 .. 255 /\ c[p] \in 0 .. 255
    <3>. HIDE DEF p
    <3>. QED  BY <2>3, EndsBytes
  <2>6. a[p] # c[p] /\ signed(a[p]) <= signed(c[p])
    <3>1. CASE i < j
      <4>1. b[i] = c[i] /\ p = i
        BY <1>2, <1>3, <3>1 DEF Parts
      <4>. QED  BY <1>6, <2>1, <4>1
    <3>2. CASE j < i
      <4>1. a[j] = b[j] /\ p = j
        BY <1>1, <1>3, <3>2 DEF Parts
      <4>. QED  BY <1>6, <2>2, <4>1
    <3>3. CASE i = j
      <4>1. p = i
        BY <3>3
      <4>2. signed(a[i]) # signed(b[i])
        BY <1>4, <2>1, Differences
      <4>3. signed(a[i]) \in Int /\ signed(b[i]) \in Int /\ signed(c[i]) \in Int
        BY <1>4, <3>3, Differences
      <4>4. signed(a[i]) < signed(c[i])
        BY <1>6, <3>3, <4>2, <4>3
      <4>5. signed(a[i]) # signed(c[i]) /\ signed(a[i]) <= signed(c[i])
        BY <4>3, <4>4
      <4>. QED  BY <4>1, <4>5
    <3>. QED  BY <1>3, <3>1, <3>2, <3>3
  <2>. HIDE DEF p
  <2>7. Parts(a, n, c, l, p)
    BY <2>3, <2>4, <2>6 DEF Parts
  <2>8. strcmp(a, c) = Difference(a[p], c[p])
    BY <2>3, <2>7, Compare
  <2>9. Difference(a[p], c[p]) <= 0
    BY <2>5, <2>6, NoGreater
  <2>. QED  BY <2>8, <2>9
<1>. QED  BY <1>7, <1>8

\* A prefix of both does not change the order.
LEMMA ComparePrefix ==
    ASSUME NEW n \in Nat, NEW a, Ends(a, n), NEW m \in Nat, NEW b, Ends(b, m),
           NEW l \in Nat, NEW c, Ends(c, l)
    PROVE  strcmp(strcat(c, a), strcat(c, b)) = strcmp(a, b)
<1>. DEFINE ca == strcat(c, a)
            cb == strcat(c, b)
<1>1. PICK k \in Nat : Parts(a, n, b, m, k)
  BY SomewhereParts
<1>2. /\ Ends(ca, l + n)
      /\ \A j \in 1 .. l : ca[j] = c[j]
      /\ \A j \in 1 .. n + 1 : ca[l + j] = a[j]
  <2>1. Continues(ca, c, l, a, n)
    BY Cat
  <2>. QED  BY <2>1 DEF Continues
<1>3. /\ Ends(cb, l + m)
      /\ \A j \in 1 .. l : cb[j] = c[j]
      /\ \A j \in 1 .. m + 1 : cb[l + j] = b[j]
  <2>1. Continues(cb, c, l, b, m)
    BY Cat
  <2>. QED  BY <2>1 DEF Continues
<1>. HIDE DEF ca, cb
<1>4. k \in 1 .. n + 1 /\ k \in 1 .. m + 1
  BY <1>1 DEF Parts
<1>5. ca[l + k] = a[k] /\ cb[l + k] = b[k]
  BY <1>2, <1>3, <1>4
<1>6. \A j \in 1 .. (l + k) - 1 : ca[j] # 0 /\ cb[j] # 0 /\ ca[j] = cb[j]
  <2>. TAKE j \in 1 .. (l + k) - 1
  <2>1. CASE j \in 1 .. l
    <3>1. c[j] # 0
      BY <2>1, EndsBytes
    <3>. QED  BY <1>2, <1>3, <2>1, <3>1
  <2>2. CASE j \notin 1 .. l
    <3>1. j - l \in 1 .. k - 1 /\ j = l + (j - l) /\ j - l \in 1 .. n + 1 /\ j - l \in 1 .. m + 1
      BY <1>4, <2>2
    <3>2. ca[l + (j - l)] = a[j - l] /\ cb[l + (j - l)] = b[j - l]
      BY <1>2, <1>3, <3>1
    <3>3. a[j - l] # 0 /\ b[j - l] # 0 /\ a[j - l] = b[j - l]
      BY <1>1, <3>1 DEF Parts
    <3>. QED  BY <3>1, <3>2, <3>3
  <2>. QED  BY <2>1, <2>2
<1>7. l + n \in Nat /\ l + m \in Nat /\ l + k \in Nat /\ l + k \in 1 .. (l + n) + 1 /\ l + k \in 1 .. (l + m) + 1
  BY <1>4
<1>8. Parts(ca, l + n, cb, l + m, l + k)
  BY <1>1, <1>5, <1>6, <1>7 DEF Parts
<1>9. strcmp(ca, cb) = Difference(ca[l + k], cb[l + k])
  BY <1>2, <1>3, <1>7, <1>8, Compare
<1>10. strcmp(a, b) = Difference(a[k], b[k])
  BY <1>1, Compare
<1>. QED  BY <1>5, <1>9, <1>10 DEF ca, cb

\* memcmp over the whole of a compares as strcmp does.
LEMMA CompareWhole ==
    ASSUME NEW n \in Nat, NEW a, Ends(a, n), NEW m \in Nat, NEW b, Ends(b, m)
    PROVE  strcmp(a, b) = memcmp(a, b, n + 1)
<1>. DEFINE Go == {j \in (1 .. n + 1) \cap DOMAIN a \cap DOMAIN b : a[j] = b[j]}
            w == While(Go, 1)
<1>1. PICK k \in Nat : Parts(a, n, b, m, k)
  BY SomewhereParts
<1>2. strcmp(a, b) = Difference(a[k], b[k])
  BY <1>1, Compare
<1>3. memcmp(a, b, n + 1) = IF w > n + 1 THEN 0 ELSE Difference(a[w], b[w])
  BY DEF memcmp
<1>4. k \in 1 .. n + 1 /\ k \in 1 .. m + 1 /\ DOMAIN a = 1 .. n + 1 /\ DOMAIN b = 1 .. m + 1
  BY <1>1, EndsBytes DEF Parts
<1>5. \A j \in 1 .. k - 1 : j \in Go
  BY <1>1, <1>4 DEF Parts
<1>6. CASE a[k] # b[k]
  <2>1. k \notin Go /\ 1 <= k
    BY <1>4, <1>6
  <2>2. w = k
    <3>. HIDE DEF Go
    <3>. QED  BY <1>5, <2>1, WhileStops
  <2>. HIDE DEF w
  <2>. QED  BY <1>2, <1>3, <1>4, <2>2
<1>7. CASE a[k] = b[k]
  <2>1. k = n + 1
    BY <1>1, <1>7, PartEqual
  <2>2. \A j \in 1 .. (n + 2) - 1 : j \in Go
    BY <1>4, <1>5, <1>7, <2>1
  <2>3. n + 2 \notin Go
    OBVIOUS
  <2>4. w = n + 2
    <3>. HIDE DEF Go
    <3>. QED  BY <2>2, <2>3, WhileStops
  <2>5. a[k] \in 0 .. 255 /\ b[k] \in 0 .. 255
    BY <1>4, EndsBytes
  <2>6. Difference(a[k], b[k]) = 0
    BY <1>7, <2>5 DEF Difference, signed
  <2>. HIDE DEF w
  <2>. QED  BY <1>2, <1>3, <2>4, <2>6
<1>. QED  BY <1>6, <1>7

\* OrderRight for all strings.
LEMMA OrderCorrect ==
    ASSUME NEW a \in Strings, NEW b \in Strings
    PROVE  OrderRight(a, b)
<1>1. PICK n \in Nat : Ends(a, n)
  BY StringsAre
<1>2. PICK m \in Nat : Ends(b, m)
  BY StringsAre
<1>3. strlen(a) = n /\ strlen(b) = m
  BY <1>1, <1>2, Length
<1>4. strlen(strcat(a, b)) = strlen(a) + strlen(b)
  <2>1. Ends(strcat(a, b), n + m) /\ n + m \in Nat
    BY <1>1, <1>2, Cat DEF Continues
  <2>. QED  BY <1>3, <2>1, Length
<1>5. strcpy(strcat(a, b), b) = memcpy(strcat(a, b), b, Len(b))
  <2>1. strlen(b) + 1 = Len(b)
    BY <1>2, <1>3 DEF Ends
  <2>. QED  BY <2>1 DEF strcpy, memcpy
<1>6. strcmp(a, b) = memcmp(a, b, strlen(a) + 1)
  BY <1>1, <1>2, <1>3, CompareWhole
<1>7. (strcmp(a, b) = 0 <=> a = b) /\ strcmp(a, b) = -strcmp(b, a)
  BY <1>1, <1>2, CompareOrder
<1>8. ASSUME NEW c \in Strings
      PROVE  /\ strcmp(strcat(c, a), strcat(c, b)) = strcmp(a, b)
             /\ strcmp(a, b) <= 0 /\ strcmp(b, c) <= 0 => strcmp(a, c) <= 0
  <2>1. PICK l \in Nat : Ends(c, l)
    BY StringsAre
  <2>2. strcmp(strcat(c, a), strcat(c, b)) = strcmp(a, b)
    BY <1>1, <1>2, <2>1, ComparePrefix
  <2>3. ASSUME strcmp(a, b) <= 0, strcmp(b, c) <= 0
        PROVE  strcmp(a, c) <= 0
    BY <1>1, <1>2, <2>1, <2>3, CompareTransitive
  <2>. QED  BY <2>2, <2>3
<1>. QED  BY <1>4, <1>5, <1>6, <1>7, <1>8 DEF OrderRight

\* Where a character stands among the first n of a string.
Hits(s, n, ch) == {k \in 1 .. n : signed(s[k]) = ch}

\* There are finitely many hits, and none if they are counted as 0.
LEMMA HitsFinite ==
    ASSUME NEW s, NEW n \in Nat, NEW ch
    PROVE  /\ IsFiniteSet(Hits(s, n, ch)) /\ Cardinality(Hits(s, n, ch)) \in Nat
           /\ Cardinality(Hits(s, n, ch)) = 0 <=> Hits(s, n, ch) = {}
<1>1. IsFiniteSet(1 .. n)
  BY FS_Interval
<1>2. Hits(s, n, ch) \in SUBSET (1 .. n)
  BY DEF Hits
<1>3. IsFiniteSet(Hits(s, n, ch))
  BY <1>1, <1>2, FS_Subset
<1>. QED  BY <1>3, FS_CardinalityType, FS_EmptySet

\* One more character is one more hit at most.
LEMMA HitsGrow ==
    ASSUME NEW s, NEW n \in Nat \ {0}, NEW ch
    PROVE  Hits(s, n, ch) = IF signed(s[n]) = ch THEN Hits(s, n - 1, ch) \cup {n}
                            ELSE Hits(s, n - 1, ch)
<1>1. 1 .. n = (1 .. n - 1) \cup {n}
  OBVIOUS
<1>. QED  BY <1>1 DEF Hits

\* strchrs counts them.
LEMMA CountHits ==
    ASSUME NEW n \in Nat, NEW s, Ends(s, n), NEW ch
    PROVE  strchrs(s, ch) = Cardinality(Hits(s, n, ch))
<1>. DEFINE IsCount(f) == f = [k \in 0 .. n |->
                IF k = 0 THEN 0 ELSE IF signed(s[k]) = ch THEN f[k - 1] + 1 ELSE f[k - 1]]
            C == [k \in 0 .. n |-> Cardinality(Hits(s, k, ch))]
            A == CHOOSE f : IsCount(f)
<1>1. strlen(s) = n
  BY Length
<1>2. strchrs(s, ch) = A[n]
  BY <1>1 DEF strchrs
<1>3. Hits(s, 0, ch) = {}
  BY DEF Hits
<1>4. ASSUME NEW k \in 1 .. n
      PROVE  Cardinality(Hits(s, k, ch)) =
                IF signed(s[k]) = ch THEN Cardinality(Hits(s, k - 1, ch)) + 1
                ELSE Cardinality(Hits(s, k - 1, ch))
  <2>1. k - 1 \in Nat /\ k \in Nat \ {0}
    OBVIOUS
  <2>2. IsFiniteSet(Hits(s, k - 1, ch))
    BY <2>1, HitsFinite
  <2>3. k \notin Hits(s, k - 1, ch)
    BY DEF Hits
  <2>4. Cardinality(Hits(s, k - 1, ch) \cup {k}) = Cardinality(Hits(s, k - 1, ch)) + 1
    BY <2>2, <2>3, FS_AddElement
  <2>. QED  BY <2>1, <2>4, HitsGrow
<1>5. \A k \in 0 .. n : C[k] = IF k = 0 THEN 0 ELSE IF signed(s[k]) = ch THEN C[k - 1] + 1 ELSE C[k - 1]
  <2>. TAKE k \in 0 .. n
  <2>1. CASE k = 0
    BY <1>3, <2>1, FS_EmptySet
  <2>2. CASE k # 0
    <3>1. k \in 1 .. n /\ k - 1 \in 0 .. n
      BY <2>2
    <3>. QED  BY <1>4, <2>2, <3>1
  <2>. QED  BY <2>1, <2>2
<1>6. IsCount(C)
  <2>1. C = [k \in 0 .. n |-> C[k]]
    OBVIOUS
  <2>. HIDE DEF C
  <2>. QED  BY <1>5, <2>1
<1>7. IsCount(A)
  <2>. HIDE DEF IsCount
  <2>. QED  BY <1>6
<1>8. \A k \in 0 .. n : A[k] = IF k = 0 THEN 0 ELSE IF signed(s[k]) = ch THEN A[k - 1] + 1 ELSE A[k - 1]
  <2>. HIDE DEF A
  <2>. QED  BY <1>7
<1>. DEFINE T == {k \in Nat : k <= n => A[k] = C[k]}
<1>9. \A k \in Nat : k \in T
  <2>. HIDE DEF A, C
  <2>1. 0 \in T
    BY <1>5, <1>8
  <2>2. ASSUME NEW k \in T
        PROVE  k + 1 \in T
    <3>1. CASE k + 1 <= n
      <4>1. k + 1 \in 0 .. n /\ k + 1 # 0 /\ (k + 1) - 1 = k /\ A[k] = C[k]
        BY <3>1
      <4>2. A[k + 1] = IF signed(s[k + 1]) = ch THEN A[k] + 1 ELSE A[k]
        BY <1>8, <4>1
      <4>3. C[k + 1] = IF signed(s[k + 1]) = ch THEN C[k] + 1 ELSE C[k]
        BY <1>5, <4>1
      <4>. QED  BY <4>1, <4>2, <4>3
    <3>. QED  BY <3>1
  <2>3. T \in SUBSET Nat
    OBVIOUS
  <2>. HIDE DEF T
  <2>. QED  BY <2>1, <2>2, <2>3, Induction
<1>10. A[n] = C[n]
  <2>1. n \in T
    BY <1>9
  <2>. HIDE DEF A, C
  <2>. QED  BY <2>1
<1>. QED  BY <1>2, <1>10

\* strch finds the first of them.
LEMMA FirstHit ==
    ASSUME NEW n \in Nat, NEW s, Ends(s, n), NEW ch
    PROVE  \/ strch(s, ch) = 0 /\ Hits(s, n, ch) = {}
           \/ strch(s, ch) \in Hits(s, n, ch) /\ \A j \in Hits(s, n, ch) : strch(s, ch) <= j
<1>. DEFINE S == {k \in Nat : k \in 1 .. n + 1 /\ (s[k] = 0 \/ signed(s[k]) = ch)}
            Go == {j \in DOMAIN s : s[j] # 0 /\ signed(s[j]) # ch}
<1>1. /\ DOMAIN s = 1 .. n + 1
      /\ \A k \in 1 .. n + 1 : s[k] = 0 <=> k = n + 1
  BY EndsBytes
<1>2. PICK k \in S : \A j \in S : k <= j
  <2>1. n + 1 \in S
    BY <1>1
  <2>2. S \in SUBSET Nat
    OBVIOUS
  <2>. HIDE DEF S
  <2>. QED  BY <2>1, <2>2, Least
<1>3. \A j \in 1 .. k - 1 : j \notin S /\ j \in 1 .. n + 1
  BY <1>2
<1>4. 1 <= k /\ k \in Nat /\ k \notin Go /\ \A j \in 1 .. k - 1 : j \in Go
  BY <1>1, <1>2, <1>3
<1>5. While(Go, 1) = k
  <2>. HIDE DEF Go
  <2>. QED  BY <1>4, WhileStops
<1>6. strch(s, ch) = IF s[k] = 0 THEN 0 ELSE k
  BY <1>5 DEF strch
<1>7. \A j \in Hits(s, n, ch) : j \in S /\ j \in 1 .. n
  BY DEF Hits
<1>8. CASE s[k] = 0
  <2>1. k = n + 1
    BY <1>1, <1>2, <1>8
  <2>2. \A j \in 1 .. n : signed(s[j]) # ch
    BY <1>4, <2>1
  <2>3. Hits(s, n, ch) = {}
    BY <2>2 DEF Hits
  <2>. QED  BY <1>6, <1>8, <2>3
<1>9. CASE s[k] # 0
  <2>1. k \in 1 .. n /\ signed(s[k]) = ch
    BY <1>1, <1>2, <1>9
  <2>2. k \in Hits(s, n, ch)
    BY <2>1 DEF Hits
  <2>3. \A j \in Hits(s, n, ch) : k <= j
    BY <1>2, <1>7
  <2>. QED  BY <1>6, <1>9, <2>2, <2>3
<1>. QED  BY <1>8, <1>9

\* strrch finds the last of them.
LEMMA LastHit ==
    ASSUME NEW n \in Nat, NEW s, Ends(s, n), NEW ch
    PROVE  \/ strrch(s, ch) = 0 /\ Hits(s, n, ch) = {}
           \/ strrch(s, ch) \in Hits(s, n, ch) /\ \A j \in Hits(s, n, ch) : j <= strrch(s, ch)
<1>. DEFINE IsLast(f) == f = [k \in 0 .. n |->
                IF k = 0 THEN 0 ELSE IF signed(s[k]) = ch THEN k ELSE f[k - 1]]
            H(k) == Hits(s, k, ch)
            M == [k \in 0 .. n |-> IF H(k) = {} THEN 0 ELSE Max(H(k))]
            A == CHOOSE f : IsLast(f)
            R(k, v) == (v = 0 /\ H(k) = {}) \/ (v \in H(k) /\ \A j \in H(k) : j <= v)
<1>1. strlen(s) = n
  BY Length
<1>2. strrch(s, ch) = A[n]
  BY <1>1 DEF strrch
<1>3. H(0) = {}
  BY DEF Hits
<1>4. ASSUME NEW k \in 1 .. n
      PROVE  IF signed(s[k]) = ch THEN k \in H(k) /\ \A j \in H(k) : j <= k ELSE H(k) = H(k - 1)
  <2>1. k \in Nat \ {0} /\ \A j \in H(k) : j \in 1 .. k
    BY DEF Hits
  <2>2. signed(s[k]) = ch => k \in H(k)
    BY DEF Hits
  <2>. QED  BY <2>1, <2>2, HitsGrow
<1>5. \A k \in 0 .. n : H(k) # {} => Max(H(k)) \in H(k) /\ \A j \in H(k) : Max(H(k)) >= j
  <2>. TAKE k \in 0 .. n
  <2>1. H(k) \in SUBSET Int /\ k \in Int /\ \A x \in H(k) : x <= k
    BY DEF Hits
  <2>. HIDE DEF H
  <2>. QED  BY <2>1, Greatest
<1>6. \A k \in 0 .. n : M[k] = IF k = 0 THEN 0 ELSE IF signed(s[k]) = ch THEN k ELSE M[k - 1]
  <2>. TAKE k \in 0 .. n
  <2>1. CASE k = 0
    BY <1>3, <2>1
  <2>2. CASE k # 0 /\ signed(s[k]) = ch
    <3>1. k \in 1 .. n
      BY <2>2
    <3>2. k \in H(k) /\ \A j \in H(k) : j <= k
      BY <1>4, <2>2, <3>1
    <3>3. Max(H(k)) \in H(k) /\ Max(H(k)) >= k
      <4>. HIDE DEF H
      <4>. QED  BY <1>5, <3>2
    <3>4. Max(H(k)) <= k /\ Max(H(k)) \in Int
      <4>1. Max(H(k)) \in 1 .. k
        BY <3>3 DEF Hits
      <4>. HIDE DEF H
      <4>. QED  BY <4>1
    <3>5. M[k] = Max(H(k))
      <4>. HIDE DEF H
      <4>. QED  BY <3>2
    <3>. HIDE DEF M, H
    <3>. QED  BY <2>2, <3>3, <3>4, <3>5
  <2>3. CASE k # 0 /\ signed(s[k]) # ch
    <3>1. k \in 1 .. n /\ k - 1 \in 0 .. n
      BY <2>3
    <3>2. H(k) = H(k - 1)
      BY <1>4, <2>3, <3>1
    <3>3. M[k] = M[k - 1]
      <4>. HIDE DEF H
      <4>. QED  BY <3>1, <3>2
    <3>. HIDE DEF M, H
    <3>. QED  BY <2>3, <3>3
  <2>. HIDE DEF M, H
  <2>. QED  BY <2>1, <2>2, <2>3
<1>7. IsLast(M)
  <2>1. M = [k \in 0 .. n |-> M[k]]
    OBVIOUS
  <2>. HIDE DEF M
  <2>. QED  BY <1>6, <2>1
<1>8. IsLast(A)
  <2>. HIDE DEF IsLast
  <2>. QED  BY <1>7
<1>9. \A k \in 0 .. n : A[k] = IF k = 0 THEN 0 ELSE IF signed(s[k]) = ch THEN k ELSE A[k - 1]
  <2>. HIDE DEF A
  <2>. QED  BY <1>8
<1>. DEFINE T == {k \in Nat : k <= n => R(k, A[k])}
<1>. HIDE DEF A
<1>10. \A k \in Nat : k \in T
  <2>1. 0 \in T
    BY <1>3, <1>9
  <2>2. ASSUME NEW k \in T
        PROVE  k + 1 \in T
    <3>. SUFFICES ASSUME k + 1 <= n
                  PROVE  R(k + 1, A[k + 1])
      BY DEF T
    <3>1. k + 1 \in 0 .. n /\ k + 1 \in 1 .. n /\ k + 1 # 0 /\ (k + 1) - 1 = k /\ R(k, A[k])
      OBVIOUS
    <3>2. A[k + 1] = IF signed(s[k + 1]) = ch THEN k + 1 ELSE A[k]
      BY <1>9, <3>1
    <3>3. IF signed(s[k + 1]) = ch THEN k + 1 \in H(k + 1) /\ \A j \in H(k + 1) : j <= k + 1
          ELSE H(k + 1) = H(k)
      BY <1>4, <3>1
    <3>. HIDE DEF H
    <3>4. CASE signed(s[k + 1]) = ch
      BY <3>2, <3>3, <3>4
    <3>5. CASE signed(s[k + 1]) # ch
      <4>1. A[k + 1] = A[k] /\ H(k + 1) = H(k)
        BY <3>2, <3>3, <3>5
      <4>. QED  BY <3>1, <4>1
    <3>. QED  BY <3>4, <3>5
  <2>3. T \in SUBSET Nat
    OBVIOUS
  <2>. HIDE DEF T
  <2>. QED  BY <2>1, <2>2, <2>3, Induction
<1>11. R(n, A[n])
  <2>1. n \in T
    BY <1>10
  <2>. HIDE DEF R
  <2>. QED  BY <2>1
<1>. QED  BY <1>2, <1>11

\* A character that is nowhere is counted 0 times.
LEMMA NoHits ==
    ASSUME NEW n \in Nat, NEW s, Ends(s, n), NEW ch, Hits(s, n, ch) = {}
    PROVE  strchrs(s, ch) = 0
<1>1. strchrs(s, ch) = Cardinality(Hits(s, n, ch))
  BY CountHits
<1>. QED  BY <1>1, FS_EmptySet

\* Joined strings have the hits of both.
LEMMA HitsJoined ==
    ASSUME NEW n \in Nat, NEW a, Ends(a, n), NEW m \in Nat, NEW b, Ends(b, m), NEW ch
    PROVE  /\ Ends(strcat(a, b), n + m)
           /\ strchrs(strcat(a, b), ch) = strchrs(a, ch) + strchrs(b, ch)
<1>. DEFINE ab == strcat(a, b)
            X == Hits(a, n, ch)
            Y == Hits(b, m, ch)
            Z == {k \in n + 1 .. n + m : k - n \in Y}
<1>1. /\ Ends(ab, n + m)
      /\ \A k \in 1 .. n : ab[k] = a[k]
      /\ \A k \in 1 .. m + 1 : ab[n + k] = b[k]
  <2>1. Continues(ab, a, n, b, m)
    BY Cat
  <2>. QED  BY <2>1 DEF Continues
<1>. HIDE DEF ab
<1>2. IsFiniteSet(X) /\ IsFiniteSet(Y) /\ Cardinality(X) \in Nat /\ Cardinality(Y) \in Nat
  BY HitsFinite
<1>3. IsFiniteSet(Z) /\ Cardinality(Z) = Cardinality(Y)
  <2>. DEFINE f == [j \in Y |-> n + j]
  <2>1. Y \subseteq 1 .. m
    BY DEF Hits
  <2>. HIDE DEF Y
  <2>2. f \in [Y -> Z]
    BY <2>1
  <2>3. \A i, j \in Y : f[i] = f[j] => i = j
    BY <2>1
  <2>4. \A k \in Z : \E j \in Y : f[j] = k
    <3>. TAKE k \in Z
    <3>1. k - n \in Y /\ f[k - n] = k
      BY <2>1
    <3>. QED  BY <3>1
  <2>. HIDE DEF f, Z
  <2>5. f \in Bijection(Y, Z)
    BY <2>2, <2>3, <2>4 DEF Bijection, Injection, Surjection, IsInjective
  <2>6. ExistsBijection(Y, Z)
    BY <2>5 DEF ExistsBijection
  <2>. QED  BY <1>2, <2>6, FS_Bijection
<1>4. Hits(ab, n + m, ch) = X \cup Z
  <2>1. ASSUME NEW k \in 1 .. n
        PROVE  k \in Hits(ab, n + m, ch) <=> k \in X \cup Z
    BY <1>1, <2>1 DEF Hits
  <2>2. ASSUME NEW k \in n + 1 .. n + m
        PROVE  k \in Hits(ab, n + m, ch) <=> k \in X \cup Z
    <3>1. k - n \in 1 .. m + 1 /\ k - n \in 1 .. m /\ k = n + (k - n) /\ k \notin 1 .. n /\ k \in 1 .. n + m
      OBVIOUS
    <3>2. ab[k] = b[k - n]
      BY <1>1, <3>1
    <3>3. k \in Hits(ab, n + m, ch) <=> signed(ab[k]) = ch
      BY <3>1 DEF Hits
    <3>4. k \in Z <=> signed(b[k - n]) = ch
      BY <3>1 DEF Hits
    <3>5. k \notin X
      BY <3>1 DEF Hits
    <3>. HIDE DEF X, Z
    <3>. QED  BY <3>2, <3>3, <3>4, <3>5
  <2>3. /\ \A k \in Hits(ab, n + m, ch) : k \in 1 .. n \/ k \in n + 1 .. n + m
        /\ \A k \in X \cup Z : k \in 1 .. n \/ k \in n + 1 .. n + m
    BY DEF Hits
  <2>. HIDE DEF X, Z
  <2>. QED  BY <2>1, <2>2, <2>3
<1>5. X \cap Z = {}
  BY DEF Hits
<1>6. Cardinality(X \cup Z) = Cardinality(X) + Cardinality(Z)
  <2>. HIDE DEF X, Z
  <2>1. Cardinality(X \cup Z) = Cardinality(X) + Cardinality(Z) - Cardinality(X \cap Z)
    BY <1>2, <1>3, FS_Union
  <2>2. Cardinality(X \cap Z) = 0
    BY <1>5, FS_EmptySet
  <2>. QED  BY <1>2, <1>3, <2>1, <2>2
<1>7. strchrs(ab, ch) = Cardinality(Hits(ab, n + m, ch))
  <2>1. n + m \in Nat
    OBVIOUS
  <2>. QED  BY <1>1, <2>1, CountHits
<1>8. strchrs(a, ch) = Cardinality(X) /\ strchrs(b, ch) = Cardinality(Y)
  BY CountHits
<1>. HIDE DEF X, Y, Z
<1>. QED  BY <1>1, <1>3, <1>4, <1>6, <1>7, <1>8 DEF ab

\* What a searched string promises about the first and the last hit.
LEMMA Searched ==
    ASSUME NEW n \in Nat, NEW s, Ends(s, n), NEW ch
    PROVE  /\ strch(s, ch) = 0 <=> strchrs(s, ch) = 0
           /\ strchrs(s, ch) = 1 => strch(s, ch) = strrch(s, ch)
<1>. DEFINE H == Hits(s, n, ch)
<1>1. strchrs(s, ch) = Cardinality(H) /\ IsFiniteSet(H)
  BY CountHits, HitsFinite
<1>2. Cardinality(H) = 0 <=> H = {}
  BY HitsFinite
<1>3. 0 \notin H
  BY DEF Hits
<1>4. \/ strch(s, ch) = 0 /\ H = {}
      \/ strch(s, ch) \in H
  BY FirstHit
<1>5. \/ strrch(s, ch) = 0 /\ H = {}
      \/ strrch(s, ch) \in H
  BY LastHit
<1>. HIDE DEF H
<1>6. Cardinality(H) = 1 => \E x : H = {x}
  BY <1>1, FS_Singleton
<1>. QED  BY <1>1, <1>2, <1>3, <1>4, <1>5, <1>6

\* Behind the last hit there is none.
LEMMA BehindLast ==
    ASSUME NEW n \in Nat, NEW s, Ends(s, n), NEW ch, strrch(s, ch) # 0
    PROVE  strchrs(SubSeq(s, strrch(s, ch) + 1, Len(s)), ch) = 0
<1>. DEFINE v == strrch(s, ch)
            H == Hits(s, n, ch)
            t == SubSeq(s, v + 1, n + 1)
<1>1. v \in H /\ \A j \in H : j <= v
  BY LastHit
<1>2. v \in 1 .. n
  BY <1>1 DEF Hits
<1>. HIDE DEF v
<1>3. Len(s) = n + 1 /\ \A k \in 1 .. n + 1 : s[k] \in 0 .. 255 /\ (s[k] = 0 <=> k = n + 1)
  <2>1. Len(s) = n + 1
    BY DEF Ends
  <2>. QED  BY <2>1, EndsBytes, ZenonT(40)
<1>4. v + 1 \in Int /\ n + 1 \in Int /\ \A k \in v + 1 .. n + 1 : s[k] \in 0 .. 255
  BY <1>2, <1>3
<1>5. /\ t \in Seq(0 .. 255) /\ Len(t) = (n - v) + 1
      /\ \A i \in 1 .. (n - v) + 1 : t[i] = s[v + i]
  <2>1. /\ t \in Seq(0 .. 255) /\ Len(t) = IF v + 1 <= n + 1 THEN (n + 1) - (v + 1) + 1 ELSE 0
        /\ \A i \in 1 .. (n + 1) - (v + 1) + 1 : t[i] = s[(v + 1) + i - 1]
    BY <1>4, SubSeqProperties
  <2>2. \A i \in 1 .. (n - v) + 1 : i \in 1 .. (n + 1) - (v + 1) + 1 /\ (v + 1) + i - 1 = v + i
    BY <1>2
  <2>3. \A i \in 1 .. (n - v) + 1 : t[i] = s[v + i]
    <3>. HIDE DEF t
    <3>. TAKE i \in 1 .. (n - v) + 1
    <3>1. t[i] = s[(v + 1) + i - 1] /\ (v + 1) + i - 1 = v + i
      BY <2>1, <2>2
    <3>. QED  BY <3>1
  <2>. HIDE DEF t
  <2>. QED  BY <1>2, <2>1, <2>3
<1>. HIDE DEF t
<1>6. n - v \in Nat /\ t \in [1 .. (n - v) + 1 -> 0 .. 255]
  <2>1. t \in [1 .. (n - v) + 1 -> 0 .. 255]
    BY <1>5, SequenceIs, ZenonT(40)
  <2>. QED  BY <1>2, <2>1
<1>7. t[(n - v) + 1] = 0 /\ \A k \in 1 .. n - v : t[k] # 0
  <2>1. v + ((n - v) + 1) = n + 1 /\ (n - v) + 1 \in 1 .. (n - v) + 1
    BY <1>2
  <2>2. t[(n - v) + 1] = 0
    BY <1>3, <1>5, <2>1
  <2>3. ASSUME NEW k \in 1 .. n - v
        PROVE  t[k] # 0
    <3>1. k \in 1 .. (n - v) + 1 /\ v + k \in 1 .. n + 1 /\ v + k # n + 1
      BY <1>2
    <3>. QED  BY <1>3, <1>5, <3>1
  <2>. QED  BY <2>2, <2>3
<1>8. Ends(t, n - v)
  BY <1>6, <1>7, EndsWhere
<1>9. Hits(t, n - v, ch) = {}
  <2>. SUFFICES ASSUME NEW k \in 1 .. n - v, signed(t[k]) = ch
                PROVE  FALSE
    BY DEF Hits
  <2>1. k \in 1 .. (n - v) + 1 /\ v + k \in 1 .. n /\ v + k > v
    BY <1>2
  <2>2. v + k \in H
    BY <1>5, <2>1 DEF Hits
  <2>. HIDE DEF H
  <2>. QED  BY <1>1, <1>2, <2>1, <2>2
<1>10. strchrs(t, ch) = 0
  BY <1>6, <1>8, <1>9, NoHits
<1>. QED  BY <1>3, <1>10 DEF t, v

\* Before the first hit there is none.
LEMMA BeforeFirst ==
    ASSUME NEW n \in Nat, NEW s, Ends(s, n), NEW ch, strch(s, ch) # 0
    PROVE  strchrs(SubSeq(s, 1, strch(s, ch) - 1) \o <<0>>, ch) = 0
<1>. DEFINE v == strch(s, ch)
            H == Hits(s, n, ch)
            u == SubSeq(s, 1, v - 1)
            t == u \o <<0>>
<1>1. v \in H /\ \A j \in H : v <= j
  BY FirstHit
<1>2. v \in 1 .. n
  BY <1>1 DEF Hits
<1>. HIDE DEF v
<1>3. \A k \in 1 .. n + 1 : s[k] \in 0 .. 255 /\ (s[k] = 0 <=> k = n + 1)
  BY EndsBytes
<1>4. 1 \in Int /\ v - 1 \in Int /\ \A k \in 1 .. v - 1 : s[k] \in 0 .. 255
  BY <1>2, <1>3
<1>5. /\ u \in Seq(0 .. 255) /\ Len(u) = v - 1
      /\ \A i \in 1 .. v - 1 : u[i] = s[i]
  <2>1. /\ u \in Seq(0 .. 255) /\ Len(u) = IF 1 <= v - 1 THEN (v - 1) - 1 + 1 ELSE 0
        /\ \A i \in 1 .. (v - 1) - 1 + 1 : u[i] = s[1 + i - 1]
    BY <1>4, SubSeqProperties
  <2>2. \A i \in 1 .. v - 1 : i \in 1 .. (v - 1) - 1 + 1 /\ 1 + i - 1 = i
    BY <1>2
  <2>3. \A i \in 1 .. v - 1 : u[i] = s[i]
    <3>. HIDE DEF u
    <3>. TAKE i \in 1 .. v - 1
    <3>1. u[i] = s[1 + i - 1] /\ 1 + i - 1 = i
      BY <2>1, <2>2
    <3>. QED  BY <3>1
  <2>. HIDE DEF u
  <2>. QED  BY <1>2, <2>1, <2>3
<1>. HIDE DEF u
<1>6. <<0>> \in Seq(0 .. 255) /\ Len(<<0>>) = 1 /\ <<0>>[1] = 0
  OBVIOUS
<1>7. /\ t \in Seq(0 .. 255) /\ Len(t) = (v - 1) + 1
      /\ \A i \in 1 .. (v - 1) + 1 : t[i] = IF i <= v - 1 THEN u[i] ELSE <<0>>[i - (v - 1)]
  BY <1>5, <1>6, ConcatProperties
<1>. HIDE DEF t
<1>8. v - 1 \in Nat /\ t \in [1 .. (v - 1) + 1 -> 0 .. 255]
  <2>1. t \in [1 .. (v - 1) + 1 -> 0 .. 255]
    BY <1>7, SequenceIs, ZenonT(40)
  <2>. QED  BY <1>2, <2>1
<1>9. t[(v - 1) + 1] = 0
  BY <1>2, <1>6, <1>7
<1>10. \A k \in 1 .. v - 1 : t[k] = s[k]
  <2>. TAKE k \in 1 .. v - 1
  <2>1. k \in 1 .. (v - 1) + 1 /\ k <= v - 1
    BY <1>2
  <2>. QED  BY <1>5, <1>7, <2>1
<1>11. \A k \in 1 .. v - 1 : t[k] # 0
  <2>. TAKE k \in 1 .. v - 1
  <2>1. k \in 1 .. n + 1 /\ k # n + 1
    BY <1>2
  <2>. QED  BY <1>3, <1>10, <2>1
<1>12. Ends(t, v - 1)
  BY <1>8, <1>9, <1>11, EndsWhere
<1>13. Hits(t, v - 1, ch) = {}
  <2>. SUFFICES ASSUME NEW k \in 1 .. v - 1, signed(t[k]) = ch
                PROVE  FALSE
    BY DEF Hits
  <2>1. k \in 1 .. n /\ k < v
    BY <1>2
  <2>2. k \in H
    BY <1>10, <2>1 DEF Hits
  <2>. HIDE DEF H
  <2>. QED  BY <1>1, <1>2, <2>1, <2>2
<1>14. strchrs(t, ch) = 0
  BY <1>8, <1>12, <1>13, NoHits
<1>. QED  BY <1>14 DEF t, u, v

\* No signed char is above 127.
LEMMA NeverFound ==
    ASSUME NEW n \in Nat, NEW s, Ends(s, n), NEW ch \in Int, ch > 127
    PROVE  strchrs(s, ch) = 0
<1>1. \A k \in 1 .. n : signed(s[k]) # ch
  <2>. TAKE k \in 1 .. n
  <2>1. s[k] \in 1 .. 255
    BY DEF Ends
  <2>. QED  BY <2>1 DEF signed
<1>2. Hits(s, n, ch) = {}
  BY <1>1 DEF Hits
<1>. QED  BY <1>2, NoHits

\* SearchRight for all strings and characters.
LEMMA SearchCorrect ==
    ASSUME NEW a \in Strings, NEW b \in Strings, NEW ch \in Chars
    PROVE  SearchRight(a, b, ch)
<1>1. PICK n \in Nat : Ends(a, n)
  BY StringsAre
<1>2. PICK m \in Nat : Ends(b, m)
  BY StringsAre
<1>. DEFINE ab == strcat(a, b)
<1>3. Ends(ab, n + m) /\ n + m \in Nat /\ strchrs(ab, ch) = strchrs(a, ch) + strchrs(b, ch)
  BY <1>1, <1>2, HitsJoined
<1>4. ch \in Int
  BY TextAssumption
<1>. HIDE DEF ab
<1>5. /\ strch(ab, ch) = 0 <=> strchrs(ab, ch) = 0
      /\ strchrs(ab, ch) = 1 => strch(ab, ch) = strrch(ab, ch)
  BY <1>3, Searched
<1>6. strrch(ab, ch) # 0 => strchrs(SubSeq(ab, strrch(ab, ch) + 1, Len(ab)), ch) = 0
  BY <1>3, BehindLast
<1>7. strch(ab, ch) # 0 => strchrs(SubSeq(ab, 1, strch(ab, ch) - 1) \o <<0>>, ch) = 0
  BY <1>3, BeforeFirst
<1>8. ch > 127 => strchrs(ab, ch) = 0
  BY <1>3, <1>4, NeverFound
<1>. QED  BY <1>3, <1>5, <1>6, <1>7, <1>8 DEF SearchRight, ab

\* StringsRight: the string functions agree about every pair of strings over
\* every set of characters, and about every character searched for.
THEOREM StringsCorrect == DataSpec => []StringsRight
<1>1. InputInv => StringsRight
  BY OrderCorrect, SearchCorrect DEF InputInv, StringsRight
<1>. QED  BY <1>1, InputsCorrect, PTL

-----------------------------------------------------------------------------
(* Numbers and their digits. *)

\* The two bases that numbers are printed in.
LEMMA Division ==
    ASSUME NEW base \in {10, 16}, NEW v \in Nat
    PROVE  /\ v \div base \in Nat /\ v % base \in 0 .. base - 1
           /\ v = base * (v \div base) + (v % base)
           /\ v \div base = 0 <=> v < base
           /\ v < base => v % base = v
           /\ v # 0 => v \div base < v
<1>1. CASE base = 10
  BY <1>1
<1>2. CASE base = 16
  BY <1>2
<1>. QED  BY <1>1, <1>2

\* itoa's digits are those of the quotient and the remainder behind them.
LEMMA ItoaStep ==
    ASSUME NEW base \in {10, 16}, NEW v \in Nat
    PROVE  /\ itoa(v, base) \in Seq(Nat)
           /\ v < base => itoa(v, base) = <<v>>
           /\ v >= base => itoa(v, base) = Append(itoa(v \div base, base), v % base)
<1>. DEFINE Digits(f) == f = [w \in Nat |-> IF w \div base = 0 THEN <<w % base>>
                                            ELSE Append(f[w \div base], w % base)]
            A == CHOOSE f : Digits(f)
<1>1. PICK N, S : N = Nat /\ S = Seq(Nat)
  OBVIOUS
<1>2. \A w \in N : w \div base \in N /\ w % base \in N /\ (w \div base = 0 <=> w < base)
                   /\ (w < base => w % base = w) /\ (w # 0 => w \div base < w)
  BY <1>1, Division
<1>3. (\A x \in N : <<x>> \in S) /\ (\A q \in S, x \in N : Append(q, x) \in S)
  <2>1. \A x \in N : <<x>> \in S
    BY <1>1
  <2>2. \A q \in S, x \in N : Append(q, x) \in S
    BY <1>1, AppendProperties
  <2>. QED  BY <2>1, <2>2
<1>. DEFINE rank == [w \in N |-> w]
            G == [z \in N \X [N -> S] |-> IF z[1] \div base = 0 THEN <<z[1] % base>>
                                          ELSE Append(z[2][z[1] \div base], z[1] % base)]
<1>4. rank \in [N -> Nat]
  BY <1>1
<1>5. G \in [N \X [N -> S] -> S]
  <2>1. ASSUME NEW z \in N \X [N -> S]
        PROVE  (IF z[1] \div base = 0 THEN <<z[1] % base>> ELSE Append(z[2][z[1] \div base], z[1] % base)) \in S
    <3>1. z[1] \in N /\ z[2] \in [N -> S]
      OBVIOUS
    <3>2. z[1] \div base \in N /\ z[1] % base \in N
      BY <1>2, <3>1
    <3>3. z[2][z[1] \div base] \in S
      BY <3>1, <3>2
    <3>. QED  BY <1>3, <3>2, <3>3
  <2>. QED  BY <2>1
<1>6. \A w \in N, f \in [N -> S] : G[<<w, f>>] = IF w \div base = 0 THEN <<w % base>>
                                                 ELSE Append(f[w \div base], w % base)
  OBVIOUS
<1>7. WellRanked(N, S, rank, G)
  <2>. USE DEF WellRanked
  <2>. TAKE w \in N
  <2>. TAKE f, g \in [N -> S]
  <2>. HAVE \A y \in N : rank[y] < rank[w] => f[y] = g[y]
  <2>. HIDE DEF G
  <2>1. PICK d : d = w \div base
    OBVIOUS
  <2>2. d \in N /\ (d = 0 \/ d < w)
    <3>1. w = 0 => w < base
      OBVIOUS
    <3>. QED  BY <1>2, <2>1, <3>1
  <2>3. d = 0 \/ f[d] = g[d]
    BY <2>2
  <2>4. \A h \in [N -> S] : G[<<w, h>>] = IF d = 0 THEN <<w % base>> ELSE Append(h[d], w % base)
    BY <1>6, <2>1, Zenon
  <2>. QED  BY <2>3, <2>4, ZenonT(40)
<1>8. Solvable(N, S, G)
  <2>1. 0 \in N
    BY <1>1
  <2>2. S # {}
    BY <1>3, <2>1
  <2>. HIDE DEF G, rank
  <2>. QED  BY <1>4, <1>5, <1>7, <2>2, Recursion, Zenon
<1>. HIDE DEF G
<1>9. PICK f \in [N -> S] : \A w \in N : f[w] = IF w \div base = 0 THEN <<w % base>>
                                                ELSE Append(f[w \div base], w % base)
  BY <1>6, <1>8 DEF Solvable
<1>10. Digits(f)
  <2>1. f = [w \in N |-> f[w]]
    OBVIOUS
  <2>. QED  BY <1>1, <1>9, <2>1
<1>11. Digits(A)
  <2>. HIDE DEF Digits
  <2>. QED  BY <1>10
<1>12. \A w \in N : itoa(w, base) = A[w]
  BY <1>1 DEF itoa
<1>13. \A w \in N : A[w] = IF w \div base = 0 THEN <<w % base>> ELSE Append(A[w \div base], w % base)
  <2>. HIDE DEF A
  <2>. QED  BY <1>1, <1>11
<1>. HIDE DEF A, Digits
<1>14. \A w \in N : A[w] \in S
  <2>. DEFINE T == {n \in Nat : \A w \in N : w <= n => A[w] \in S}
  <2>1. 0 \in T
    <3>1. ASSUME NEW w \in N, w <= 0
          PROVE  A[w] \in S
      <4>1. w \div base = 0 /\ w % base \in N
        BY <1>1, <1>2, <3>1
      <4>. QED  BY <1>3, <1>13, <4>1
    <3>. QED  BY <3>1
  <2>2. ASSUME NEW n \in T
        PROVE  n + 1 \in T
    <3>1. ASSUME NEW w \in N, w <= n + 1
          PROVE  A[w] \in S
      <4>1. w \div base \in N /\ w % base \in N
        BY <1>2
      <4>2. CASE w \div base = 0
        BY <1>3, <1>13, <4>1, <4>2
      <4>3. CASE w \div base # 0
        <5>1. w # 0
          BY <1>1, <1>2, <4>3
        <5>2. w \div base <= n
          BY <1>1, <1>2, <3>1, <4>1, <5>1
        <5>3. A[w \div base] \in S
          BY <4>1, <5>2
        <5>. QED  BY <1>3, <1>13, <4>1, <4>3, <5>3
      <4>. QED  BY <4>2, <4>3
    <3>. QED  BY <3>1
  <2>3. \A n \in Nat : n \in T
    <3>1. T \in SUBSET Nat
      OBVIOUS
    <3>. HIDE DEF T
    <3>. QED  BY <2>1, <2>2, <3>1, Induction
  <2>4. ASSUME NEW w \in N
        PROVE  A[w] \in S
    <3>1. w \in T
      <4>. HIDE DEF T
      <4>. QED  BY <1>1, <2>3
    <3>. QED  BY <1>1, <3>1
  <2>. QED  BY <2>4
<1>15. v \in N /\ v \div base \in N
  BY <1>1, <1>2
<1>16. v >= base => ~(v < base)
  OBVIOUS
<1>17. itoa(v, base) \in Seq(Nat)
  BY <1>1, <1>12, <1>14, <1>15
<1>18. v < base => itoa(v, base) = <<v>>
  BY <1>2, <1>12, <1>13, <1>15
<1>19. v >= base => itoa(v, base) = Append(itoa(v \div base, base), v % base)
  BY <1>2, <1>12, <1>13, <1>15, <1>16
<1>. QED  BY <1>17, <1>18, <1>19

\* v holds the values of the digits read so far.
Reads(q, n, base, v) == v = [k \in 0 .. n |-> IF k = 0 THEN 0 ELSE base * v[k - 1] + q[k]]

\* Each digit makes base times what the digits before it make, and itself.
LEMMA ReadsStep ==
    ASSUME NEW q, NEW n \in Nat, NEW base, NEW v, Reads(q, n, base, v)
    PROVE  v[0] = 0 /\ \A k \in 1 .. n : v[k] = base * v[k - 1] + q[k]
<1>1. \A k \in 0 .. n : v[k] = IF k = 0 THEN 0 ELSE base * v[k - 1] + q[k]
  BY DEF Reads
<1>2. 0 \in 0 .. n /\ \A k \in 1 .. n : k \in 0 .. n /\ k # 0
  OBVIOUS
<1>. QED  BY <1>1, <1>2

\* Digits can be read, and what they make are naturals.
LEMMA ReadsExist ==
    ASSUME NEW q, NEW n \in Nat, NEW base \in Nat, \A k \in 1 .. n : q[k] \in Nat
    PROVE  \E v : Reads(q, n, base, v) /\ \A k \in 0 .. n : v[k] \in Nat
<1>. DEFINE T == {m \in Nat : m <= n => \E v : Reads(q, m, base, v) /\ \A k \in 0 .. m : v[k] \in Nat}
<1>1. 0 \in T
  <2>. DEFINE v == [k \in 0 .. 0 |-> 0]
  <2>1. (\A k \in 0 .. 0 : v[k] \in Nat) /\ v = [k \in 0 .. 0 |-> IF k = 0 THEN 0 ELSE base * v[k - 1] + q[k]]
    OBVIOUS
  <2>2. (\A k \in 0 .. 0 : v[k] \in Nat) /\ Reads(q, 0, base, v)
    <3>. HIDE DEF v
    <3>. QED  BY <2>1 DEF Reads
  <2>. HIDE DEF v
  <2>. QED  BY <2>2
<1>2. ASSUME NEW m \in T
      PROVE  m + 1 \in T
  <2>. SUFFICES ASSUME m + 1 <= n
                PROVE  \E v : Reads(q, m + 1, base, v) /\ \A k \in 0 .. m + 1 : v[k] \in Nat
    OBVIOUS
  <2>1. PICK v : Reads(q, m, base, v) /\ \A k \in 0 .. m : v[k] \in Nat
    OBVIOUS
  <2>. DEFINE w == [k \in 0 .. m + 1 |-> IF k = m + 1 THEN base * v[m] + q[m + 1] ELSE v[k]]
  <2>2. m \in Nat /\ q[m + 1] \in Nat
    OBVIOUS
  <2>3. w[m + 1] = base * v[m] + q[m + 1] /\ \A k \in 0 .. m : w[k] = v[k]
    BY <2>2
  <2>4. v[m] \in Nat /\ base * v[m] + q[m + 1] \in Nat
    <3>1. PICK x \in Nat : x = v[m]
      BY <2>1, <2>2
    <3>2. base * x \in Nat
      OBVIOUS
    <3>. QED  BY <2>2, <3>1, <3>2
  <2>5. \A k \in 0 .. m + 1 : w[k] \in Nat
    <3>1. \A k \in 0 .. m + 1 : k = m + 1 \/ k \in 0 .. m
      BY <2>2
    <3>. HIDE DEF w
    <3>. QED  BY <2>1, <2>3, <2>4, <3>1
  <2>6. w = [k \in 0 .. m + 1 |-> w[k]]
    OBVIOUS
  <2>. HIDE DEF w
  <2>7. \A k \in 0 .. m + 1 : w[k] = IF k = 0 THEN 0 ELSE base * w[k - 1] + q[k]
    <3>. TAKE k \in 0 .. m + 1
    <3>0. v[0] = 0 /\ \A j \in 1 .. m : v[j] = base * v[j - 1] + q[j]
      BY <2>1, <2>2, ReadsStep
    <3>1. CASE k = 0
      BY <2>2, <2>3, <3>0, <3>1
    <3>2. CASE k \in 1 .. m
      <4>1. k - 1 \in 0 .. m /\ k \in 0 .. m /\ k # 0
        BY <2>2, <3>2
      <4>2. w[k] = v[k] /\ w[k - 1] = v[k - 1] /\ v[k] = base * v[k - 1] + q[k]
        BY <2>3, <3>0, <3>2, <4>1
      <4>. QED  BY <4>1, <4>2
    <3>3. CASE k = m + 1
      <4>1. k - 1 = m /\ m \in 0 .. m /\ k # 0
        BY <2>2, <3>3
      <4>2. w[m] = v[m]
        BY <2>3, <4>1
      <4>. QED  BY <2>3, <3>3, <4>1, <4>2
    <3>. QED  BY <2>2, <3>1, <3>2, <3>3
  <2>8. Reads(q, m + 1, base, w)
    BY <2>6, <2>7 DEF Reads
  <2>. QED  BY <2>5, <2>8
<1>3. \A m \in Nat : m \in T
  <2>1. T \in SUBSET Nat
    OBVIOUS
  <2>. HIDE DEF T
  <2>. QED  BY <1>1, <1>2, <2>1, Induction
<1>4. n \in T
  <2>. HIDE DEF T
  <2>. QED  BY <1>3
<1>. QED  BY <1>4

\* What the first m digits make does not depend on the digits behind them.
LEMMA ReadsAgree ==
    ASSUME NEW q, NEW r, NEW m \in Nat, NEW n \in Nat, m <= n, \A k \in 1 .. m : q[k] = r[k],
           NEW base, NEW v, NEW w, Reads(q, m, base, v), Reads(r, n, base, w)
    PROVE  v[m] = w[m]
<1>1. v[0] = 0 /\ \A k \in 1 .. m : v[k] = base * v[k - 1] + q[k]
  BY ReadsStep
<1>2. w[0] = 0 /\ \A k \in 1 .. n : w[k] = base * w[k - 1] + r[k]
  BY ReadsStep
<1>. DEFINE T == {j \in Nat : j <= m => v[j] = w[j]}
<1>3. 0 \in T
  BY <1>1, <1>2
<1>4. ASSUME NEW j \in T
      PROVE  j + 1 \in T
  <2>. SUFFICES ASSUME j + 1 <= m PROVE v[j + 1] = w[j + 1]
    OBVIOUS
  <2>1. PICK k : k = j + 1
    OBVIOUS
  <2>2. k \in 1 .. m /\ k \in 1 .. n /\ k - 1 = j
    BY <2>1
  <2>3. v[j] = w[j]
    OBVIOUS
  <2>4. v[k] = base * v[j] + q[k] /\ w[k] = base * w[j] + r[k] /\ q[k] = r[k]
    BY <1>1, <1>2, <2>2
  <2>. QED  BY <2>1, <2>3, <2>4
<1>5. \A j \in Nat : j \in T
  <2>1. T \in SUBSET Nat
    OBVIOUS
  <2>. HIDE DEF T
  <2>. QED  BY <1>3, <1>4, <2>1, Induction
<1>6. m \in T
  <2>. HIDE DEF T
  <2>. QED  BY <1>5
<1>. QED  BY <1>6

\* The first n elements are numbers.
AllNumbers(q, n) == \A k \in 1 .. n : q[k] \in Nat
Same(q, r, n) == \A k \in 1 .. n : q[k] = r[k]

\* The value of a numeral and of one more digit behind it.
Readable(q, n, base) == \E v : Reads(q, n, base, v) /\ v[n] \in Nat /\ ValueOf(q, base) = v[n]

\* ValueOf reads its digits.
LEMMA ValueIs ==
    ASSUME NEW q, NEW n \in Nat, Len(q) = n, NEW base \in Nat, AllNumbers(q, n)
    PROVE  Readable(q, n, base)
<1>. DEFINE A == CHOOSE v : Reads(q, Len(q), base, v)
<1>1. ValueOf(q, base) = A[n]
  BY DEF ValueOf, Reads
<1>2. PICK v : Reads(q, n, base, v) /\ \A k \in 0 .. n : v[k] \in Nat
  BY ReadsExist DEF AllNumbers
<1>3. Reads(q, n, base, A)
  BY <1>2
<1>. HIDE DEF A
<1>4. v[n] \in Nat
  BY <1>2
<1>5. v[n] = A[n]
  BY <1>2, <1>3, ReadsAgree
<1>. QED  BY <1>1, <1>2, <1>4, <1>5 DEF Readable

DigitMore(q, r, n, base) ==
    /\ ValueOf(q, base) \in Nat
    /\ ValueOf(r, base) = base * ValueOf(q, base) + r[n + 1]

\* Of two sequences, the longer by one digit is worth base times the other and the digit.
LEMMA ValueOneMore ==
    ASSUME NEW q, NEW r, NEW n \in Nat, Len(q) = n, Len(r) = n + 1, Same(q, r, n),
           AllNumbers(r, n + 1), NEW base \in Nat
    PROVE  DigitMore(q, r, n, base)
<1>1. PICK m \in Nat : m = n + 1
  OBVIOUS
<1>2. n <= m /\ m \in 1 .. m /\ m - 1 = n
  BY <1>1
<1>3. PICK v : Reads(q, n, base, v) /\ v[n] \in Nat /\ ValueOf(q, base) = v[n]
  <2>1. AllNumbers(q, n)
    BY <1>1 DEF AllNumbers, Same
  <2>2. Readable(q, n, base)
    BY <2>1, ValueIs
  <2>. QED  BY <2>2 DEF Readable
<1>4. PICK w : Reads(r, m, base, w) /\ ValueOf(r, base) = w[m]
  <2>1. Readable(r, m, base)
    BY <1>1, ValueIs
  <2>. QED  BY <2>1 DEF Readable
<1>5. v[n] = w[n]
  <2>1. \A k \in 1 .. n : q[k] = r[k]
    BY DEF Same
  <2>. QED  BY <1>2, <1>3, <1>4, <2>1, ReadsAgree, SMTT(30)
<1>6. w[m] = base * w[m - 1] + r[m]
  <2>1. \A k \in 1 .. m : w[k] = base * w[k - 1] + r[k]
    BY <1>4, ReadsStep
  <2>. QED  BY <1>2, <2>1
<1>. QED  BY <1>1, <1>2, <1>3, <1>4, <1>5, <1>6 DEF DigitMore

\* The same of a sequence and the digit appended to it.
LEMMA ValueOfAppend ==
    ASSUME NEW q \in Seq(Nat), NEW x \in Nat, NEW base \in Nat
    PROVE  /\ ValueOf(q, base) \in Nat
           /\ ValueOf(Append(q, x), base) = base * ValueOf(q, base) + x
<1>1. PICK n, r : n = Len(q) /\ r = Append(q, x)
  OBVIOUS
<1>2. n \in Nat /\ r \in Seq(Nat) /\ Len(r) = n + 1 /\ (\A k \in 1 .. n : q[k] = r[k]) /\ r[n + 1] = x
  BY <1>1, LenProperties, AppendProperties
<1>3. \A k \in 1 .. n + 1 : r[k] \in Nat
  BY <1>2, ElementOfSeq
<1>4. Same(q, r, n) /\ AllNumbers(r, n + 1)
  BY <1>2, <1>3 DEF Same, AllNumbers
<1>5. /\ ValueOf(q, base) \in Nat
      /\ ValueOf(r, base) = base * ValueOf(q, base) + r[n + 1]
  <2>1. DigitMore(q, r, n, base)
    BY <1>1, <1>2, <1>4, ValueOneMore
  <2>. QED  BY <2>1 DEF DigitMore
<1>. QED  BY <1>1, <1>2, <1>5

\* q is how v is printed: a numeral that only starts with a 0 if it is 0.
Prints(q, base, v) ==
    /\ q \in Seq(Nat) /\ Len(q) >= 1
    /\ Numeral(q, base, v)
    /\ v # 0 => q[1] # 0

\* A digit prints itself.
LEMMA PrintsOne ==
    ASSUME NEW base \in {10, 16}, NEW v \in Nat, v < base
    PROVE  Prints(<<v>>, base, v)
<1>1. PICK q : q = <<v>>
  OBVIOUS
<1>2. q \in Seq(Nat) /\ Len(q) = 1 /\ q[1] = v
  BY <1>1
<1>3. ValueOf(q, base) = v
  <2>1. AllNumbers(q, 1) /\ base \in Nat
    BY <1>2 DEF AllNumbers
  <2>2. PICK w : Reads(q, 1, base, w) /\ ValueOf(q, base) = w[1]
    <3>1. Readable(q, 1, base)
      BY <1>2, <2>1, ValueIs
    <3>. QED  BY <3>1 DEF Readable
  <2>3. w[0] = 0 /\ w[1] = base * w[1 - 1] + q[1]
    BY <2>2, ReadsStep
  <2>4. 1 - 1 = 0 /\ base * 0 + v = v
    BY <2>1
  <2>. QED  BY <1>2, <2>2, <2>3, <2>4
<1>4. \A k \in 1 .. Len(q) : q[k] \in 0 .. base - 1
  BY <1>2
<1>5. Numeral(q, base, v)
  BY <1>2, <1>3, <1>4 DEF Numeral
<1>. QED  BY <1>1, <1>2, <1>5 DEF Prints

\* The quotient's digits and the remainder behind them print the number.
LEMMA PrintsMore ==
    ASSUME NEW base \in {10, 16}, NEW v \in Nat, v >= base, NEW q, Prints(q, base, v \div base)
    PROVE  Prints(Append(q, v % base), base, v)
<1>1. PICK u \in Nat, x \in Nat : u = v \div base /\ x = v % base
  BY Division
<1>2. x \in 0 .. base - 1 /\ v = base * u + x /\ u # 0 /\ base \in Nat
  BY <1>1, Division
<1>3. /\ q \in Seq(Nat) /\ Len(q) >= 1 /\ q[1] # 0
      /\ ValueOf(q, base) = u
      /\ \A k \in 1 .. Len(q) : q[k] \in 0 .. base - 1
  BY <1>1, <1>2 DEF Prints, Numeral
<1>4. PICK n, r : n = Len(q) /\ r = Append(q, x)
  OBVIOUS
<1>5. n \in Nat /\ r \in Seq(Nat) /\ Len(r) = n + 1 /\ (\A k \in 1 .. n : r[k] = q[k]) /\ r[n + 1] = x
  BY <1>1, <1>3, <1>4, LenProperties, AppendProperties
<1>6. ValueOf(r, base) = v
  BY <1>2, <1>3, <1>4, ValueOfAppend
<1>7. \A k \in 1 .. n + 1 : r[k] \in 0 .. base - 1
  BY <1>2, <1>3, <1>4, <1>5
<1>8. r[1] # 0 /\ Len(r) >= 1
  BY <1>3, <1>4, <1>5
<1>9. Numeral(r, base, v)
  BY <1>5, <1>6, <1>7, <1>8 DEF Numeral
<1>. QED  BY <1>1, <1>4, <1>5, <1>8, <1>9 DEF Prints

\* itoa (stdio.c:7) prints every number in both bases.
LEMMA ItoaPrints ==
    ASSUME NEW base \in {10, 16}
    PROVE  \A v \in Nat : Prints(itoa(v, base), base, v)
<1>. DEFINE T == {n \in Nat : \A v \in Nat : v <= n => Prints(itoa(v, base), base, v)}
<1>1. ASSUME NEW v \in Nat, v >= base => Prints(itoa(v \div base, base), base, v \div base)
      PROVE  Prints(itoa(v, base), base, v)
  <2>1. CASE v < base
    BY <2>1, ItoaStep, PrintsOne
  <2>2. CASE v >= base
    <3>1. itoa(v, base) = Append(itoa(v \div base, base), v % base)
      BY <2>2, ItoaStep
    <3>. QED  BY <1>1, <2>2, <3>1, PrintsMore
  <2>. QED  BY <2>1, <2>2
<1>2. 0 \in T
  <2>1. ASSUME NEW v \in Nat, v <= 0 PROVE Prints(itoa(v, base), base, v)
    <3>1. ~(v >= base)
      BY <2>1
    <3>. QED  BY <1>1, <3>1
  <2>. QED  BY <2>1
<1>3. ASSUME NEW n \in T
      PROVE  n + 1 \in T
  <2>1. ASSUME NEW v \in Nat, v <= n + 1
        PROVE  Prints(itoa(v, base), base, v)
    <3>1. v >= base => v \div base \in Nat /\ v \div base <= n
      <4>1. v >= base => v # 0
        OBVIOUS
      <4>2. PICK u \in Nat : u = v \div base /\ (v # 0 => u < v)
        BY Division
      <4>. QED  BY <2>1, <4>1, <4>2
    <3>. QED  BY <1>1, <3>1
  <2>. QED  BY <2>1
<1>4. \A n \in Nat : n \in T
  <2>1. T \in SUBSET Nat
    OBVIOUS
  <2>. HIDE DEF T
  <2>. QED  BY <1>2, <1>3, <2>1, Induction
<1>5. ASSUME NEW v \in Nat PROVE Prints(itoa(v, base), base, v)
  <2>1. v \in T
    <3>. HIDE DEF T
    <3>. QED  BY <1>4
  <2>. QED  BY <2>1
<1>. QED  BY <1>5

\* A function of the naturals that starts with x and goes on with what step makes
\* of each value, exists.
Iterates(f, x, step) == f = [n \in Nat |-> IF n = 0 THEN x ELSE step[f[n - 1]]]

\* A step can be iterated as often as there are naturals.
LEMMA IteratesExist ==
    ASSUME NEW x \in Nat, NEW step \in [Nat -> Nat]
    PROVE  \E f \in [Nat -> Nat] : Iterates(f, x, step)
<1>. DEFINE rank == [n \in Nat |-> n]
            G == [z \in Nat \X [Nat -> Nat] |-> IF z[1] = 0 THEN x ELSE step[z[2][z[1] - 1]]]
<1>1. rank \in [Nat -> Nat]
  OBVIOUS
<1>2. G \in [Nat \X [Nat -> Nat] -> Nat]
  <2>1. ASSUME NEW z \in Nat \X [Nat -> Nat]
        PROVE  (IF z[1] = 0 THEN x ELSE step[z[2][z[1] - 1]]) \in Nat
    <3>1. z[1] \in Nat /\ z[2] \in [Nat -> Nat]
      OBVIOUS
    <3>2. z[1] # 0 => z[1] - 1 \in Nat
      BY <3>1
    <3>. QED  BY <3>1, <3>2
  <2>. QED  BY <2>1
<1>3. \A n \in Nat, f \in [Nat -> Nat] : G[<<n, f>>] = IF n = 0 THEN x ELSE step[f[n - 1]]
  OBVIOUS
<1>4. WellRanked(Nat, Nat, rank, G)
  <2>. SUFFICES ASSUME NEW n \in Nat, NEW f \in [Nat -> Nat], NEW g \in [Nat -> Nat],
                       \A y \in Nat : rank[y] < rank[n] => f[y] = g[y]
                PROVE  G[<<n, f>>] = G[<<n, g>>]
    BY DEF WellRanked
  <2>1. PICK d : d = n - 1
    OBVIOUS
  <2>2. n # 0 => d \in Nat /\ d < n
    BY <2>1
  <2>3. n = 0 \/ f[d] = g[d]
    BY <2>2
  <2>. HIDE DEF G
  <2>4. \A h \in [Nat -> Nat] : G[<<n, h>>] = IF n = 0 THEN x ELSE step[h[d]]
    BY <1>3, <2>1, Zenon
  <2>. QED  BY <2>3, <2>4, Zenon
<1>5. Solvable(Nat, Nat, G)
  <2>. HIDE DEF G, rank
  <2>1. Nat # {}
    OBVIOUS
  <2>. QED  BY <1>1, <1>2, <1>4, <2>1, Recursion
<1>. HIDE DEF G
<1>6. PICK f \in [Nat -> Nat] : \A n \in Nat : f[n] = G[<<n, f>>]
  BY <1>5 DEF Solvable
<1>7. \A n \in Nat : f[n] = IF n = 0 THEN x ELSE step[f[n - 1]]
  BY <1>3, <1>6
<1>8. f = [n \in Nat |-> f[n]]
  OBVIOUS
<1>9. Iterates(f, x, step)
  BY <1>7, <1>8 DEF Iterates
<1>. QED  BY <1>9

\* r holds what is left of v after so many digits.
Shifts(r, v) == r = [k \in Nat |-> IF k = 0 THEN v ELSE r[k - 1] \div 16]

\* A number can be shifted as often as there are naturals.
LEMMA ShiftsExist ==
    ASSUME NEW v \in Nat
    PROVE  \E r : Shifts(r, v)
<1>. DEFINE step == [u \in Nat |-> u \div 16]
<1>1. step \in [Nat -> Nat]
  OBVIOUS
<1>2. PICK r \in [Nat -> Nat] : Iterates(r, v, step)
  <2>. HIDE DEF step
  <2>. QED  BY <1>1, IteratesExist
<1>3. r = [k \in Nat |-> r[k]]
  OBVIOUS
<1>4. \A k \in Nat : r[k] = IF k = 0 THEN v ELSE r[k - 1] \div 16
  <2>. TAKE k \in Nat
  <2>1. r[k] = IF k = 0 THEN v ELSE step[r[k - 1]]
    <3>. HIDE DEF step
    <3>. QED  BY <1>2 DEF Iterates
  <2>2. k # 0 => r[k - 1] \in Nat
    <3>1. k # 0 => k - 1 \in Nat
      OBVIOUS
    <3>. QED  BY <3>1
  <2>. QED  BY <2>1, <2>2
<1>5. Shifts(r, v)
  <2>. HIDE DEF step
  <2>. QED  BY <1>3, <1>4 DEF Shifts
<1>. QED  BY <1>5

\* Each shift divides what is left by 16.
LEMMA ShiftSteps ==
    ASSUME NEW v \in Nat, NEW r, Shifts(r, v)
    PROVE  r[0] = v /\ \A k \in Nat : r[k] \in Nat /\ r[k + 1] = r[k] \div 16
<1>1. \A k \in Nat : r[k] = IF k = 0 THEN v ELSE r[k - 1] \div 16
  BY DEF Shifts
<1>2. r[0] = v
  BY <1>1
<1>3. \A k \in Nat : r[k + 1] = r[k] \div 16
  <2>. TAKE k \in Nat
  <2>1. PICK j \in Nat : j = k + 1
    OBVIOUS
  <2>2. j # 0 /\ j - 1 = k
    BY <2>1
  <2>. QED  BY <1>1, <2>1, <2>2
<1>. DEFINE T == {k \in Nat : r[k] \in Nat}
<1>4. 0 \in T
  BY <1>2
<1>5. ASSUME NEW k \in T PROVE k + 1 \in T
  <2>1. PICK x \in Nat : x = r[k]
    OBVIOUS
  <2>2. x \div 16 \in Nat
    OBVIOUS
  <2>. QED  BY <1>3, <2>1, <2>2
<1>6. \A k \in Nat : k \in T
  <2>1. T \in SUBSET Nat
    OBVIOUS
  <2>. HIDE DEF T
  <2>. QED  BY <1>4, <1>5, <2>1, Induction
<1>. QED  BY <1>2, <1>3, <1>6

\* Shifting v once leaves what the shifts of v \div 16 begin with.
LEMMA ShiftNext ==
    ASSUME NEW v \in Nat, NEW u \in Nat, u = v \div 16, NEW r, Shifts(r, v), NEW s, Shifts(s, u)
    PROVE  \A k \in Nat : r[k + 1] = s[k]
<1>1. r[0] = v /\ \A k \in Nat : r[k + 1] = r[k] \div 16
  BY ShiftSteps
<1>2. s[0] = u /\ \A k \in Nat : s[k + 1] = s[k] \div 16
  BY ShiftSteps
<1>. DEFINE T == {k \in Nat : r[k + 1] = s[k]}
<1>3. 0 \in T
  <2>1. r[0 + 1] = r[0] \div 16
    BY <1>1
  <2>. QED  BY <1>1, <1>2, <2>1
<1>4. ASSUME NEW k \in T PROVE k + 1 \in T
  <2>1. PICK j \in Nat : j = k + 1
    OBVIOUS
  <2>2. r[j + 1] = r[j] \div 16 /\ s[j] = s[k] \div 16 /\ r[j] = s[k]
    BY <1>1, <1>2, <2>1
  <2>. QED  BY <2>1, <2>2
<1>5. \A k \in Nat : k \in T
  <2>1. T \in SUBSET Nat
    OBVIOUS
  <2>. HIDE DEF T
  <2>. QED  BY <1>3, <1>4, <2>1, Induction
<1>. QED  BY <1>5

\* The digits of q are the last ones of what the shifts leave, and nothing is left
\* after them.
Placed(q, r) ==
    /\ \A j \in 1 .. Len(q) : q[j] = r[Len(q) - j] % 16
    /\ \A k \in Nat : k >= Len(q) => r[k] = 0

\* Of 0 nothing is left.
LEMMA ShiftZero ==
    ASSUME NEW r, Shifts(r, 0)
    PROVE  \A k \in Nat : r[k] = 0
<1>1. r[0] = 0 /\ \A k \in Nat : r[k + 1] = r[k] \div 16
  BY ShiftSteps
<1>. DEFINE T == {k \in Nat : r[k] = 0}
<1>2. 0 \in T
  BY <1>1
<1>3. ASSUME NEW k \in T PROVE k + 1 \in T
  BY <1>1
<1>4. \A k \in Nat : k \in T
  <2>1. T \in SUBSET Nat
    OBVIOUS
  <2>. HIDE DEF T
  <2>. QED  BY <1>2, <1>3, <2>1, Induction
<1>. QED  BY <1>4

\* A single digit stands where put_int's shifts have it.
LEMMA PlacedOne ==
    ASSUME NEW v \in Nat, v < 16, NEW r, Shifts(r, v)
    PROVE  Placed(<<v>>, r)
<1>1. PICK q : q = <<v>>
  OBVIOUS
<1>2. Len(q) = 1 /\ q[1] = v
  BY <1>1
<1>3. v \div 16 = 0 /\ v % 16 = v
  OBVIOUS
<1>4. PICK s : Shifts(s, 0)
  BY ShiftsExist
<1>5. \A k \in Nat : s[k] = 0 /\ r[k + 1] = s[k]
  BY <1>3, <1>4, ShiftZero, ShiftNext
<1>6. r[0] = v
  BY ShiftSteps
<1>7. ASSUME NEW k \in Nat, k >= 1
      PROVE  r[k] = 0
  <2>1. PICK j \in Nat : k = j + 1
    <3>1. k - 1 \in Nat /\ k = (k - 1) + 1
      BY <1>7
    <3>. QED  BY <3>1
  <2>. QED  BY <1>5, <2>1
<1>8. \A j \in 1 .. 1 : q[j] = r[1 - j] % 16
  BY <1>2, <1>3, <1>6
<1>9. Placed(q, r)
  BY <1>2, <1>7, <1>8 DEF Placed
<1>. QED  BY <1>1, <1>9

\* The last digit stands behind those of the quotient.
LEMMA PlacedMore ==
    ASSUME NEW v \in Nat, v >= 16, NEW r, Shifts(r, v), NEW s, Shifts(s, v \div 16),
           NEW q, q \in Seq(Nat), Placed(q, s)
    PROVE  Placed(Append(q, v % 16), r)
<1>1. PICK n, x, t : n = Len(q) /\ x = v % 16 /\ t = Append(q, x)
  OBVIOUS
<1>2. x \in Nat /\ v \div 16 \in Nat
  BY <1>1
<1>3. n \in Nat /\ Len(t) = n + 1 /\ (\A k \in 1 .. n : t[k] = q[k]) /\ t[n + 1] = x
  BY <1>1, <1>2, LenProperties, AppendProperties
<1>4. \A k \in Nat : r[k + 1] = s[k]
  BY <1>2, ShiftNext
<1>5. r[0] = v
  BY ShiftSteps
<1>6. /\ \A j \in 1 .. n : q[j] = s[n - j] % 16
      /\ \A k \in Nat : k >= n => s[k] = 0
  BY <1>1 DEF Placed
<1>7. ASSUME NEW j \in 1 .. n + 1
      PROVE  t[j] = r[n + 1 - j] % 16
  <2>1. CASE j = n + 1
    <3>1. n + 1 - j = 0
      BY <1>3, <2>1
    <3>. QED  BY <1>1, <1>3, <1>5, <2>1, <3>1
  <2>2. CASE j \in 1 .. n
    <3>1. PICK k \in Nat : k = n - j
      BY <1>3, <2>2
    <3>2. n + 1 - j = k + 1
      BY <1>3, <2>2, <3>1
    <3>3. t[j] = s[k] % 16 /\ r[k + 1] = s[k]
      BY <1>3, <1>4, <1>6, <2>2, <3>1
    <3>. QED  BY <3>2, <3>3
  <2>. QED  BY <1>3, <2>1, <2>2
<1>8. ASSUME NEW k \in Nat, k >= n + 1
      PROVE  r[k] = 0
  <2>1. PICK j \in Nat : j = k - 1
    BY <1>3, <1>8
  <2>2. k = j + 1 /\ j >= n
    BY <1>3, <1>8, <2>1
  <2>. QED  BY <1>4, <1>6, <2>2
<1>9. Placed(t, r)
  BY <1>3, <1>7, <1>8 DEF Placed
<1>. QED  BY <1>1, <1>9

\* The digits of itoa are the last ones of put_int's buffer.
LEMMA ItoaPlaced ==
    \A v \in Nat : \A r : Shifts(r, v) => Placed(itoa(v, 16), r)
<1>. DEFINE Good(v) == \A r : Shifts(r, v) => Placed(itoa(v, 16), r)
            T == {n \in Nat : \A v \in Nat : v <= n => Good(v)}
<1>1. ASSUME NEW v \in Nat, v >= 16 => Good(v \div 16)
      PROVE  Good(v)
  <2>. SUFFICES ASSUME NEW r, Shifts(r, v)
                PROVE  Placed(itoa(v, 16), r)
    OBVIOUS
  <2>1. CASE v < 16
    <3>1. itoa(v, 16) = <<v>>
      BY <2>1, ItoaStep
    <3>. QED  BY <2>1, <3>1, PlacedOne
  <2>2. CASE v >= 16
    <3>1. PICK u \in Nat : u = v \div 16
      OBVIOUS
    <3>2. itoa(v, 16) = Append(itoa(u, 16), v % 16) /\ itoa(u, 16) \in Seq(Nat)
      BY <2>2, <3>1, ItoaStep
    <3>3. PICK s : Shifts(s, u)
      BY ShiftsExist
    <3>4. Placed(itoa(u, 16), s)
      BY <1>1, <2>2, <3>1, <3>3
    <3>5. PICK q : q = itoa(u, 16)
      OBVIOUS
    <3>6. Placed(Append(q, v % 16), r)
      BY <2>2, <3>1, <3>2, <3>3, <3>4, <3>5, PlacedMore
    <3>. QED  BY <3>2, <3>5, <3>6
  <2>. QED  BY <2>1, <2>2
<1>. HIDE DEF Good
<1>2. 0 \in T
  <2>1. ASSUME NEW v \in Nat, v <= 0 PROVE Good(v)
    <3>1. ~(v >= 16)
      BY <2>1
    <3>. QED  BY <1>1, <3>1
  <2>. QED  BY <2>1
<1>3. ASSUME NEW n \in T
      PROVE  n + 1 \in T
  <2>1. ASSUME NEW v \in Nat, v <= n + 1
        PROVE  Good(v)
    <3>1. v >= 16 => v \div 16 \in Nat /\ v \div 16 <= n
      BY <2>1
    <3>. QED  BY <1>1, <3>1
  <2>. QED  BY <2>1
<1>4. \A n \in Nat : n \in T
  <2>1. T \in SUBSET Nat
    OBVIOUS
  <2>. HIDE DEF T
  <2>. QED  BY <1>2, <1>3, <2>1, Induction
<1>5. ASSUME NEW v \in Nat PROVE Good(v)
  <2>1. v \in T
    <3>. HIDE DEF T
    <3>. QED  BY <1>4
  <2>. QED  BY <2>1
<1>. QED  BY <1>5 DEF Good

\* An int of one more hexadecimal digit has sixteen times the values.
LEMMA ValuesGrow ==
    /\ Values[0] = 1
    /\ \A n \in Nat : Values[n] \in Nat /\ Values[n + 1] = 16 * Values[n]
<1>. DEFINE step == [u \in Nat |-> 16 * u]
            Is(f) == f = [n \in Nat |-> IF n = 0 THEN 1 ELSE 16 * f[n - 1]]
<1>1. step \in [Nat -> Nat]
  OBVIOUS
<1>2. PICK f \in [Nat -> Nat] : Iterates(f, 1, step)
  <2>. HIDE DEF step
  <2>. QED  BY <1>1, IteratesExist
<1>3. f = [n \in Nat |-> f[n]]
  OBVIOUS
<1>4. \A n \in Nat : f[n] = IF n = 0 THEN 1 ELSE 16 * f[n - 1]
  <2>. TAKE n \in Nat
  <2>1. f[n] = IF n = 0 THEN 1 ELSE step[f[n - 1]]
    <3>. HIDE DEF step
    <3>. QED  BY <1>2 DEF Iterates
  <2>2. n # 0 => f[n - 1] \in Nat
    <3>1. n # 0 => n - 1 \in Nat
      OBVIOUS
    <3>. QED  BY <3>1
  <2>. QED  BY <2>1, <2>2
<1>5. Is(f)
  <2>. HIDE DEF step
  <2>. QED  BY <1>3, <1>4
<1>6. Is(Values)
  <2>1. Values = CHOOSE g : Is(g)
    BY DEF Values
  <2>. HIDE DEF Is
  <2>. QED  BY <1>5, <2>1
<1>7. \A n \in Nat : Values[n] = IF n = 0 THEN 1 ELSE 16 * Values[n - 1]
  BY <1>6
<1>8. Values[0] = 1
  BY <1>7
<1>9. \A n \in Nat : Values[n + 1] = 16 * Values[n]
  <2>. TAKE n \in Nat
  <2>1. PICK m \in Nat : m = n + 1
    OBVIOUS
  <2>2. m # 0 /\ m - 1 = n
    BY <2>1
  <2>. QED  BY <1>7, <2>1, <2>2
<1>. DEFINE T == {n \in Nat : Values[n] \in Nat}
<1>10. 0 \in T
  BY <1>8
<1>11. ASSUME NEW n \in T PROVE n + 1 \in T
  BY <1>9
<1>12. \A n \in Nat : n \in T
  <2>1. T \in SUBSET Nat
    OBVIOUS
  <2>. HIDE DEF T
  <2>. QED  BY <1>10, <1>11, <2>1, Induction
<1>. QED  BY <1>8, <1>9, <1>12

\* A value of n + 1 hexadecimal digits is not printed with more.
LEMMA ItoaWidth ==
    \A n \in Nat : \A v \in Nat : v < Values[n + 1] => Len(itoa(v, 16)) <= n + 1
<1>. DEFINE T == {n \in Nat : \A v \in Nat : v < Values[n + 1] => Len(itoa(v, 16)) <= n + 1}
<1>1. 0 \in T
  <2>1. Values[0 + 1] = 16
    BY ValuesGrow
  <2>2. ASSUME NEW v \in Nat, v < 16
        PROVE  Len(itoa(v, 16)) <= 1
    <3>1. PICK q : q = itoa(v, 16)
      OBVIOUS
    <3>2. q = <<v>>
      BY <2>2, <3>1, ItoaStep
    <3>3. Len(q) = 1
      BY <3>2
    <3>4. Len(q) <= 1
      BY <3>3
    <3>. QED  BY <3>1, <3>4, Zenon
  <2>. QED  BY <2>1, <2>2
<1>2. ASSUME NEW n \in T PROVE n + 1 \in T
  <2>1. PICK m \in Nat : m = n + 1
    OBVIOUS
  <2>2. Values[m] \in Nat /\ Values[m + 1] = 16 * Values[m]
    BY ValuesGrow
  <2>3. ASSUME NEW v \in Nat, v < Values[m + 1]
        PROVE  Len(itoa(v, 16)) <= m + 1
    <3>1. CASE v < 16
      <4>1. PICK q : q = itoa(v, 16)
        OBVIOUS
      <4>2. q = <<v>>
        BY <3>1, <4>1, ItoaStep
      <4>3. Len(q) = 1
        BY <4>2
      <4>4. Len(q) <= m + 1
        BY <4>3
      <4>. QED  BY <4>1, <4>4, Zenon
    <3>2. CASE v >= 16
      <4>1. PICK u \in Nat : u = v \div 16
        OBVIOUS
      <4>2. PICK q : q = itoa(u, 16)
        OBVIOUS
      <4>3. itoa(v, 16) = Append(q, v % 16) /\ q \in Seq(Nat)
        BY <3>2, <4>1, <4>2, ItoaStep
      <4>4. u < Values[m]
        <5>1. PICK w \in Nat : w = Values[m]
          BY <2>2
        <5>. QED  BY <2>2, <2>3, <4>1, <5>1
      <4>5. Len(q) <= m
        BY <2>1, <4>2, <4>4
      <4>6. Len(itoa(v, 16)) = Len(q) + 1 /\ Len(q) \in Nat
        BY <4>3, AppendProperties, LenProperties
      <4>. QED  BY <4>5, <4>6
    <3>. QED  BY <3>1, <3>2
  <2>. QED  BY <2>1, <2>3
<1>3. \A n \in Nat : n \in T
  <2>1. T \in SUBSET Nat
    OBVIOUS
  <2>. HIDE DEF T
  <2>. QED  BY <1>1, <1>2, <2>1, Induction
<1>. QED  BY <1>3

\* What put_int leaves of its buffer.
Trimmed(b) ==
    LET first == While({k \in 1 .. HexDigits : b[k] = 0}, 1)
    IN  IF first > HexDigits THEN <<0>> ELSE SubSeq(b, first, HexDigits)

\* put_int (print.S:40) shifts its argument into the buffer and skips the leading zeros.
LEMMA PutIntTrims ==
    ASSUME NEW v \in Nat
    PROVE  \E r : Shifts(r, v) /\ put_int(v) = Trimmed([k \in 1 .. HexDigits |-> r[HexDigits - k] % 16])
<1>. DEFINE A == CHOOSE r : Shifts(r, v)
<1>1. Shifts(A, v)
  BY ShiftsExist
<1>2. put_int(v) = Trimmed([k \in 1 .. HexDigits |-> A[HexDigits - k] % 16])
  BY DEF put_int, Trimmed, Shifts
<1>. HIDE DEF A
<1>. QED  BY <1>1, <1>2

\* put_int and itoa print the same digits.
LEMMA PutIntItoa ==
    ASSUME NEW v \in Nat, v < Words
    PROVE  put_int(v) = itoa(v, 16)
<1>1. PICK r : Shifts(r, v) /\ put_int(v) = Trimmed([k \in 1 .. HexDigits |-> r[HexDigits - k] % 16])
  BY PutIntTrims
<1>2. PICK q, n : q = itoa(v, 16) /\ n = Len(q)
  OBVIOUS
<1>3. q \in Seq(Nat) /\ n \in Nat /\ n >= 1 /\ (v # 0 => q[1] # 0)
  <2>1. Prints(itoa(v, 16), 16, v)
    BY ItoaPrints
  <2>. QED  BY <1>2, <2>1, LenProperties DEF Prints
<1>4. PICK h : h = HexDigits /\ h \in Nat /\ h >= 1
  BY TextAssumption
<1>5. n <= h
  <2>1. PICK m \in Nat : h = m + 1
    <3>1. h - 1 \in Nat /\ h = (h - 1) + 1
      BY <1>4
    <3>. QED  BY <3>1
  <2>2. v < Values[m + 1]
    BY <1>4, <2>1 DEF Words
  <2>3. Len(itoa(v, 16)) <= m + 1
    BY <2>2, ItoaWidth
  <2>. QED  BY <1>2, <2>1, <2>3
<1>6. /\ \A j \in 1 .. n : q[j] = r[n - j] % 16
      /\ \A k \in Nat : k >= n => r[k] = 0
  <2>1. Placed(itoa(v, 16), r)
    BY <1>1, ItoaPlaced
  <2>. QED  BY <1>2, <2>1 DEF Placed
<1>7. PICK b : b = [k \in 1 .. h |-> r[h - k] % 16]
  OBVIOUS
<1>8. \A k \in 1 .. h : b[k] = r[h - k] % 16
  BY <1>7
<1>12. \A k \in 1 .. h : b[k] \in Nat
  <2>. TAKE k \in 1 .. h
  <2>1. PICK j \in Nat : j = h - k
    BY <1>4
  <2>2. r[j] \in Nat
    BY <1>1, ShiftSteps
  <2>3. b[k] = r[j] % 16
    BY <1>8, <2>1
  <2>. QED  BY <2>2, <2>3
<1>. DEFINE Go == {k \in 1 .. h : b[k] = 0}
<1>9. put_int(v) = LET first == While(Go, 1) IN IF first > h THEN <<0>> ELSE SubSeq(b, first, h)
  BY <1>1, <1>4, <1>7 DEF Trimmed
<1>10. CASE v = 0
  <2>1. \A k \in Nat : r[k] = 0
    BY <1>1, <1>10, ShiftZero
  <2>2. \A k \in 1 .. h : k \in Go
    <3>. TAKE k \in 1 .. h
    <3>1. h - k \in Nat
      BY <1>4
    <3>2. r[h - k] = 0
      BY <2>1, <3>1
    <3>. QED  BY <1>8, <3>2
  <2>3. h + 1 \in Nat /\ h + 1 \notin Go /\ 1 <= h + 1 /\ (h + 1) - 1 = h
    BY <1>4
  <2>4. While(Go, 1) = h + 1
    <3>. HIDE DEF Go
    <3>1. PICK m \in Nat : m = h + 1
      BY <2>3
    <3>2. \A k \in 1 .. m - 1 : k \in Go
      BY <2>2, <2>3, <3>1
    <3>. QED  BY <2>3, <3>1, <3>2, WhileStops
  <2>5. put_int(v) = <<0>>
    <3>. HIDE DEF Go
    <3>. QED  BY <1>4, <1>9, <2>4
  <2>6. itoa(v, 16) = <<0>>
    BY <1>10, ItoaStep
  <2>. QED  BY <2>5, <2>6
<1>11. CASE v # 0
  <2>1. PICK f \in Nat : f = h - n + 1
    BY <1>3, <1>4, <1>5
  <2>2. f >= 1 /\ f <= h /\ h - f = n - 1 /\ h - f + 1 = n
    BY <1>3, <1>4, <1>5, <2>1
  <2>3. f \notin Go
    <3>1. b[f] = r[n - 1] % 16
      BY <1>4, <1>8, <2>2
    <3>2. q[1] = r[n - 1] % 16
      BY <1>3, <1>6
    <3>. QED  BY <1>3, <1>11, <3>1, <3>2
  <2>4. \A k \in 1 .. f - 1 : k \in Go
    <3>. TAKE k \in 1 .. f - 1
    <3>1. k \in 1 .. h /\ h - k \in Nat /\ h - k >= n
      BY <1>3, <1>4, <2>1, <2>2
    <3>2. r[h - k] = 0
      BY <1>6, <3>1
    <3>. QED  BY <1>8, <3>1, <3>2
  <2>5. While(Go, 1) = f
    <3>. HIDE DEF Go
    <3>. QED  BY <2>2, <2>3, <2>4, WhileStops
  <2>6. put_int(v) = SubSeq(b, f, h)
    <3>. HIDE DEF Go
    <3>. QED  BY <1>4, <1>9, <2>2, <2>5
  <2>7. PICK t : t = SubSeq(b, f, h)
    OBVIOUS
  <2>8. t \in Seq(Nat) /\ Len(t) = n /\ \A j \in 1 .. n : t[j] = b[f + j - 1]
    <3>1. f \in Int /\ h \in Int /\ f <= h /\ \A k \in f .. h : b[k] \in Nat
      BY <1>4, <1>12, <2>2
    <3>2. /\ SubSeq(b, f, h) \in Seq(Nat)
          /\ Len(SubSeq(b, f, h)) = IF f <= h THEN h - f + 1 ELSE 0
          /\ \A j \in 1 .. h - f + 1 : SubSeq(b, f, h)[j] = b[f + j - 1]
      BY <3>1, SubSeqProperties
    <3>. QED  BY <2>2, <2>7, <3>1, <3>2
  <2>9. \A j \in 1 .. n : b[f + j - 1] = q[j]
    <3>. TAKE j \in 1 .. n
    <3>1. f + j - 1 \in 1 .. h /\ h - (f + j - 1) = n - j
      BY <1>3, <1>4, <2>1, <2>2
    <3>2. PICK k : k = f + j - 1
      OBVIOUS
    <3>3. b[k] = r[n - j] % 16
      BY <1>8, <3>1, <3>2
    <3>. QED  BY <1>6, <3>2, <3>3
  <2>10. t = q
    <3>1. Len(t) = Len(q)
      BY <1>2, <2>8
    <3>2. \A j \in 1 .. n : t[j] = q[j]
      BY <2>8, <2>9
    <3>3. \A j \in 1 .. Len(t) : t[j] = q[j]
      BY <2>8, <3>2
    <3>. QED  BY <1>3, <2>8, <3>1, <3>3, SeqEqual
  <2>. QED  BY <1>2, <2>6, <2>7, <2>10
<1>. QED  BY <1>10, <1>11

\* How many ints there are, and the smallest of them.
LEMMA WordsAre ==
    \E m \in Nat : m > 0 /\ Words = 16 * m /\ Smallest = -(8 * m)
<1>. DEFINE T == {n \in Nat : Values[n] > 0}
<1>1. 0 \in T
  BY ValuesGrow
<1>2. ASSUME NEW n \in T PROVE n + 1 \in T
  <2>1. PICK x \in Nat : x = Values[n] /\ Values[n + 1] = 16 * x
    BY ValuesGrow
  <2>. QED  BY <2>1
<1>3. \A n \in Nat : n \in T
  <2>1. T \in SUBSET Nat
    OBVIOUS
  <2>. HIDE DEF T
  <2>. QED  BY <1>1, <1>2, <2>1, Induction
<1>4. PICK n \in Nat : HexDigits = n + 1
  <2>1. HexDigits - 1 \in Nat /\ HexDigits = (HexDigits - 1) + 1
    BY TextAssumption
  <2>. QED  BY <2>1
<1>5. PICK m \in Nat : m = Values[n] /\ m > 0
  BY <1>3, ValuesGrow
<1>6. Words = 16 * m
  BY <1>4, <1>5, ValuesGrow DEF Words
<1>7. Smallest = -(8 * m)
  <2>1. (16 * m) \div 2 = 8 * m
    OBVIOUS
  <2>. QED  BY <1>6, <2>1 DEF Smallest
<1>. QED  BY <1>5, <1>6, <1>7

\* What itoa makes of an int, and of the opposite of one below 0.
LEMMA UnsignedIs ==
    ASSUME NEW v \in Numbers
    PROVE  /\ v \in Int /\ v < Words
           /\ Unsigned(v) \in Nat
           /\ v >= 0 => Unsigned(v) = v
           /\ v < 0 => Unsigned(Negated(v)) = -v
<1>1. PICK m \in Nat : m > 0 /\ Words = 16 * m /\ Smallest = -(8 * m)
  BY WordsAre
<1>2. v \in -(8 * m) .. (16 * m) - 1
  BY <1>1 DEF Numbers
<1>3. PICK w \in Nat : w = 16 * m /\ w > 0 /\ Words = w
  BY <1>1
<1>4. v \in Int /\ v < w
  BY <1>2, <1>3
<1>5. v % w \in 0 .. w - 1
  BY <1>3, <1>4
<1>6. v >= 0 => v % w = v
  <2>1. v >= 0 => v \in 0 .. w - 1
    BY <1>3, <1>4
  <2>. QED  BY <1>3, <2>1
<1>7. ASSUME v < 0
      PROVE  Unsigned(Negated(v)) = -v
  <2>1. CASE v = Smallest
    <3>1. (-(8 * m)) % w = 8 * m
      BY <1>1, <1>3
    <3>2. Negated(v) = -(8 * m) /\ -v = 8 * m
      BY <1>1, <2>1 DEF Negated
    <3>. QED  BY <1>3, <3>1, <3>2 DEF Unsigned
  <2>2. CASE v # Smallest
    <3>1. PICK u \in Int : u = -v
      BY <1>4
    <3>2. u \in 0 .. w - 1
      BY <1>2, <1>3, <1>4, <1>7, <3>1
    <3>3. u % w = u
      BY <1>3, <3>2
    <3>4. Negated(v) = u
      BY <1>4, <2>2, <3>1 DEF Negated
    <3>. QED  BY <1>3, <3>1, <3>3, <3>4 DEF Unsigned
  <2>. QED  BY <2>1, <2>2
<1>8. Unsigned(v) = v % w
  BY <1>3 DEF Unsigned
<1>. QED  BY <1>3, <1>4, <1>5, <1>6, <1>7, <1>8

\* A sign in front of a sequence is its head, and the sequence its tail.
LEMMA SignedTail ==
    ASSUME NEW q \in Seq(Nat)
    PROVE  Head(<<"-">> \o q) = "-" /\ Tail(<<"-">> \o q) = q
<1>1. PICK S : S = Nat \cup {"-"}
  OBVIOUS
<1>2. PICK one : one = <<"-">>
  OBVIOUS
<1>3. one \in Seq(S) /\ q \in Seq(S) /\ Len(one) = 1 /\ one[1] = "-"
  <2>1. Len(one) = 1 /\ one[1] = "-"
    BY <1>2
  <2>2. one \in Seq(S)
    BY <1>1, <1>2
  <2>3. Nat \in SUBSET S
    BY <1>1
  <2>4. q \in Seq(S)
    BY <2>3, SeqMonotonic
  <2>. QED  BY <2>1, <2>2, <2>4
<1>4. PICK t : t = one \o q
  OBVIOUS
<1>5. PICK n : n = Len(q) /\ n \in Nat
  BY LenProperties
<1>6. /\ t \in Seq(S) /\ Len(t) = 1 + n
      /\ \A i \in 1 .. 1 + n : t[i] = IF i <= 1 THEN one[i] ELSE q[i - 1]
  <2>1. /\ one \o q \in Seq(S)
        /\ Len(one \o q) = Len(one) + Len(q)
        /\ \A i \in 1 .. Len(one) + Len(q) :
               (one \o q)[i] = IF i <= Len(one) THEN one[i] ELSE q[i - Len(one)]
    BY <1>3, ConcatProperties
  <2>. QED  BY <1>3, <1>4, <1>5, <2>1
<1>7. t # <<>>
  BY <1>5, <1>6
<1>8. t[1] = "-" /\ \A i \in 1 .. n : t[i + 1] = q[i]
  BY <1>3, <1>5, <1>6
<1>9. PICK u : u = Tail(t)
  OBVIOUS
<1>10. u \in Seq(S) /\ Len(u) = n /\ \A i \in 1 .. n : u[i] = t[i + 1]
  <2>1. /\ Tail(t) \in Seq(S)
        /\ Len(Tail(t)) = Len(t) - 1
        /\ \A i \in 1 .. Len(Tail(t)) : Tail(t)[i] = t[i + 1]
    BY <1>6, <1>7, HeadTailProperties
  <2>. QED  BY <1>5, <1>6, <1>9, <2>1
<1>11. u = q
  <2>1. Len(u) = Len(q) /\ \A i \in 1 .. Len(u) : u[i] = q[i]
    BY <1>5, <1>8, <1>10
  <2>. QED  BY <1>3, <1>10, <2>1, SeqEqual
<1>12. Head(t) = "-"
  BY <1>6, <1>7, <1>8
<1>. QED  BY <1>2, <1>4, <1>9, <1>11, <1>12

\* Every int is printed with its value, by itoa and by put_int alike.
THEOREM NumbersPrinted == \A v \in Numbers : NumberRight(v)
<1>. TAKE v \in Numbers
<1>1. /\ v \in Int /\ v < Words
      /\ v >= 0 => Unsigned(v) = v
      /\ v < 0 => Unsigned(Negated(v)) = -v
  BY UnsignedIs
<1>2. ASSUME NEW u \in Nat, NEW base \in {10, 16}
      PROVE  itoa(u, base) \in Seq(Nat) /\ Numeral(itoa(u, base), base, u)
  <2>1. Prints(itoa(u, base), base, u)
    BY ItoaPrints
  <2>. QED  BY <2>1 DEF Prints
<1>3. CASE v < 0
  <2>1. PICK u \in Nat : u = -v
    BY <1>1, <1>3
  <2>2. PICK q : q = itoa(u, 10)
    OBVIOUS
  <2>3. q \in Seq(Nat) /\ Numeral(q, 10, u)
    BY <1>2, <2>2
  <2>4. Decimal(v) = <<"-">> \o q
    BY <1>1, <1>3, <2>1, <2>2 DEF Decimal
  <2>5. Head(Decimal(v)) = "-" /\ Tail(Decimal(v)) = q
    BY <2>3, <2>4, SignedTail
  <2>6. Numeral(Tail(Decimal(v)), 10, -v)
    BY <2>1, <2>3, <2>5
  <2>. QED  BY <1>3, <2>5, <2>6 DEF NumberRight
<1>4. CASE ~(v < 0)
  <2>1. v \in Nat
    BY <1>1, <1>4
  <2>2. \A base \in {10, 16} : Numeral(itoa(v, base), base, v)
    BY <1>2, <2>1
  <2>3. put_int(v) = itoa(v, 16)
    BY <1>1, <2>1, PutIntItoa
  <2>. QED  BY <1>4, <2>2, <2>3 DEF NumberRight
<1>. QED  BY <1>3, <1>4

-----------------------------------------------------------------------------
(* Formats and their pieces. *)

\* One turn of vsprintf's loop over the characters of F, with f for the turns behind it.
Step(F, A, f, i, n) ==
    IF i > Len(F) THEN <<>>
    ELSE IF F[i] # "%" THEN <<F[i]>> \o f[<<i + 1, n>>]
    ELSE IF i + 1 > Len(F) THEN <<>>
    ELSE IF F[i + 1] \notin {"s", "x", "d", "c"} THEN f[<<i + 1, n>>]
    ELSE Converted(F[i + 1], A[n]) \o f[<<i + 2, n + 1>>]

\* f is right about the turns that at most m characters are left to.
TurnsTo(F, A, f, m) == \A i, n \in Nat : i + m > Len(F) => f[<<i, n>>] = Step(F, A, f, i, n)
Turned(F, A, f) == \A i, n \in Nat : f[<<i, n>>] = Step(F, A, f, i, n)

\* Two functions that agree behind a turn agree on it.
LEMMA StepSame ==
    ASSUME NEW F, NEW A, NEW f, NEW g, NEW i \in Nat, NEW n \in Nat,
           Len(F) \in Nat,
           \/ i > Len(F)
           \/ f[<<i + 1, n>>] = g[<<i + 1, n>>] /\ f[<<i + 2, n + 1>>] = g[<<i + 2, n + 1>>]
    PROVE  Step(F, A, f, i, n) = Step(F, A, g, i, n)
<1>1. CASE i > Len(F)
  BY <1>1 DEF Step
<1>2. CASE f[<<i + 1, n>>] = g[<<i + 1, n>>] /\ f[<<i + 2, n + 1>>] = g[<<i + 2, n + 1>>]
  BY <1>2, Zenon DEF Step
<1>. QED  BY <1>1, <1>2

\* The turns of vsprintf exist, since each turn only asks the ones of later characters.
LEMMA TurnsExist ==
    ASSUME NEW F, NEW A, Len(F) \in Nat
    PROVE  \E f : Turned(F, A, f) /\ f = [at \in Nat \X Nat |-> Step(F, A, f, at[1], at[2])]
<1>. DEFINE T == {m \in Nat : \E f : TurnsTo(F, A, f, m)}
            After(f) == [at \in Nat \X Nat |-> Step(F, A, f, at[1], at[2])]
<1>1. PICK l \in Nat : l = Len(F)
  OBVIOUS
<1>2. 0 \in T
  <2>1. PICK f : f = [at \in Nat \X Nat |-> <<>>]
    OBVIOUS
  <2>2. ASSUME NEW i \in Nat, NEW n \in Nat, i + 0 > Len(F)
        PROVE  f[<<i, n>>] = Step(F, A, f, i, n)
    <3>1. i > Len(F)
      BY <1>1, <2>2
    <3>2. <<i, n>> \in Nat \X Nat
      OBVIOUS
    <3>3. f[<<i, n>>] = <<>>
      BY <2>1, <3>2, Zenon
    <3>. QED  BY <3>1, <3>3, Zenon DEF Step
  <2>. QED  BY <2>2 DEF TurnsTo
<1>3. \A f : \A i, n \in Nat : After(f)[<<i, n>>] = Step(F, A, f, i, n)
  <2>. TAKE f
  <2>. TAKE i, n \in Nat
  <2>1. <<i, n>> \in Nat \X Nat /\ <<i, n>>[1] = i /\ <<i, n>>[2] = n
    OBVIOUS
  <2>. QED  BY <2>1, Zenon
<1>. HIDE DEF After
<1>4. ASSUME NEW m \in T
      PROVE  m + 1 \in T
  <2>1. PICK f : TurnsTo(F, A, f, m)
    OBVIOUS
  <2>2. PICK g : g = After(f)
    OBVIOUS
  <2>3. ASSUME NEW i \in Nat, NEW n \in Nat, i + m > Len(F)
        PROVE  f[<<i, n>>] = g[<<i, n>>]
    <3>1. f[<<i, n>>] = Step(F, A, f, i, n)
      BY <2>1, <2>3 DEF TurnsTo
    <3>2. g[<<i, n>>] = Step(F, A, f, i, n)
      BY <1>3, <2>2, Zenon
    <3>. QED  BY <3>1, <3>2, Zenon
  <2>4. ASSUME NEW i \in Nat, NEW n \in Nat, i + (m + 1) > Len(F)
        PROVE  g[<<i, n>>] = Step(F, A, g, i, n)
    <3>1. i + 1 \in Nat /\ i + 2 \in Nat /\ n + 1 \in Nat /\ (i + 1) + m > Len(F) /\ (i + 2) + m > Len(F)
      BY <1>1, <2>4
    <3>2. f[<<i + 1, n>>] = g[<<i + 1, n>>] /\ f[<<i + 2, n + 1>>] = g[<<i + 2, n + 1>>]
      BY <2>3, <3>1
    <3>3. Step(F, A, f, i, n) = Step(F, A, g, i, n)
      BY <3>2, StepSame
    <3>4. g[<<i, n>>] = Step(F, A, f, i, n)
      BY <1>3, <2>2, Zenon
    <3>. QED  BY <3>3, <3>4, Zenon
  <2>5. TurnsTo(F, A, g, m + 1)
    BY <2>4 DEF TurnsTo
  <2>. QED  BY <2>5
<1>5. \A m \in Nat : m \in T
  <2>1. T \in SUBSET Nat
    OBVIOUS
  <2>. HIDE DEF T
  <2>. QED  BY <1>2, <1>4, <2>1, Induction
<1>6. PICK f : TurnsTo(F, A, f, l + 1)
  <2>1. l + 1 \in T
    <3>. HIDE DEF T
    <3>. QED  BY <1>5
  <2>. QED  BY <2>1
<1>7. \A i, n \in Nat : f[<<i, n>>] = Step(F, A, f, i, n)
  <2>. TAKE i, n \in Nat
  <2>1. i + (l + 1) > Len(F)
    BY <1>1
  <2>. QED  BY <1>6, <2>1 DEF TurnsTo
<1>8. PICK g : g = After(f)
  OBVIOUS
<1>9. \A i, n \in Nat : g[<<i, n>>] = f[<<i, n>>]
  BY <1>3, <1>7, <1>8, Zenon
<1>10. ASSUME NEW i \in Nat, NEW n \in Nat
       PROVE  Step(F, A, f, i, n) = Step(F, A, g, i, n)
  <2>1. i + 1 \in Nat /\ i + 2 \in Nat /\ n + 1 \in Nat
    OBVIOUS
  <2>2. f[<<i + 1, n>>] = g[<<i + 1, n>>] /\ f[<<i + 2, n + 1>>] = g[<<i + 2, n + 1>>]
    BY <1>9, <2>1
  <2>. QED  BY <2>2, StepSame
<1>11. Turned(F, A, g)
  <2>. SUFFICES ASSUME NEW i \in Nat, NEW n \in Nat
                PROVE  g[<<i, n>>] = Step(F, A, g, i, n)
    BY DEF Turned
  <2>. QED  BY <1>7, <1>9, <1>10, ZenonT(40)
<1>12. g = [at \in Nat \X Nat |-> Step(F, A, g, at[1], at[2])]
  <2>1. ASSUME NEW at \in Nat \X Nat
        PROVE  Step(F, A, f, at[1], at[2]) = Step(F, A, g, at[1], at[2])
    <3>1. at[1] \in Nat /\ at[2] \in Nat
      OBVIOUS
    <3>. QED  BY <1>10, <3>1, Zenon
  <2>2. [at \in Nat \X Nat |-> Step(F, A, f, at[1], at[2])] =
        [at \in Nat \X Nat |-> Step(F, A, g, at[1], at[2])]
    BY <2>1, Zenon
  <2>. QED  BY <1>8, <2>2, Zenon DEF After
<1>. QED  BY <1>11, <1>12

\* vsprintf (stdio.c:19) is the first of its turns.
LEMMA VsprintfTurns ==
    ASSUME NEW F, NEW A, Len(F) \in Nat
    PROVE  \E f : Turned(F, A, f) /\ vsprintf(F, A) = f[<<1, 1>>]
<1>. DEFINE Is(f) == f = [at \in Nat \X Nat |-> Step(F, A, f, at[1], at[2])]
            B == CHOOSE f : Is(f)
<1>1. Is(B)
  <2>1. \E f : Is(f)
    <3>1. PICK f : Turned(F, A, f) /\ f = [at \in Nat \X Nat |-> Step(F, A, f, at[1], at[2])]
      BY TurnsExist
    <3>. QED  BY <3>1
  <2>. HIDE DEF Is
  <2>. QED  BY <2>1
<1>2. vsprintf(F, A) = B[<<1, 1>>]
  BY DEF vsprintf, Step
<1>. HIDE DEF B
<1>3. \A i, n \in Nat : B[<<i, n>>] = Step(F, A, B, i, n)
  <2>. TAKE i, n \in Nat
  <2>1. <<i, n>> \in Nat \X Nat /\ <<i, n>>[1] = i /\ <<i, n>>[2] = n
    OBVIOUS
  <2>2. B = [at \in Nat \X Nat |-> Step(F, A, B, at[1], at[2])]
    BY <1>1
  <2>. HIDE DEF Is
  <2>3. \A h : h = [at \in Nat \X Nat |-> Step(F, A, B, at[1], at[2])]
               => h[<<i, n>>] = Step(F, A, B, <<i, n>>[1], <<i, n>>[2])
    BY <2>1, Zenon
  <2>. QED  BY <2>1, <2>2, <2>3, Zenon
<1>. QED  BY <1>2, <1>3, Zenon DEF Turned

\* p stands in F from i on.
Holds(F, i, p) ==
    i + Len(p) <= Len(F) + 1 /\ \A k \in 1 .. Len(p) : F[i + (k - 1)] = p[k]

\* t consists of p, q and r.
Joins(t, p, q, r) ==
    /\ Holds(t, 1, p) /\ Holds(t, 1 + Len(p), q) /\ Holds(t, (1 + Len(p)) + Len(q), r)
    /\ Len(t) + 1 = ((1 + Len(p)) + Len(q)) + Len(r)

\* Three sequences one behind the other join to what they are concatenated to.
LEMMA Joined ==
    ASSUME NEW S, NEW p \in Seq(S), NEW q \in Seq(S), NEW r \in Seq(S)
    PROVE  Joins(p \o q \o r, p, q, r)
<1>1. PICK t, u : t = p \o q /\ u = t \o r
  OBVIOUS
<1>2. PICK l, m, n \in Nat : l = Len(p) /\ m = Len(q) /\ n = Len(r)
  BY LenProperties
<1>3. t \in Seq(S) /\ Len(t) = l + m /\ \A k \in 1 .. l + m : t[k] = IF k <= l THEN p[k] ELSE q[k - l]
  <2>1. /\ p \o q \in Seq(S)
        /\ Len(p \o q) = Len(p) + Len(q)
        /\ \A k \in 1 .. Len(p) + Len(q) : (p \o q)[k] = IF k <= Len(p) THEN p[k] ELSE q[k - Len(p)]
    BY ConcatProperties
  <2>. QED  BY <1>1, <1>2, <2>1
<1>4. Len(u) = l + m + n /\ \A k \in 1 .. l + m + n : u[k] = IF k <= l + m THEN t[k] ELSE r[k - (l + m)]
  <2>1. /\ t \o r \in Seq(S)
        /\ Len(t \o r) = Len(t) + Len(r)
        /\ \A k \in 1 .. Len(t) + Len(r) : (t \o r)[k] = IF k <= Len(t) THEN t[k] ELSE r[k - Len(t)]
    BY <1>3, ConcatProperties
  <2>. QED  BY <1>1, <1>2, <1>3, <2>1
<1>5. \A k \in 1 .. l : u[1 + (k - 1)] = p[k]
  <2>. TAKE k \in 1 .. l
  <2>1. k \in 1 .. l + m /\ k \in 1 .. l + m + n /\ 1 + (k - 1) = k /\ k <= l /\ k <= l + m
    OBVIOUS
  <2>. QED  BY <1>3, <1>4, <2>1
<1>6. \A k \in 1 .. m : u[(1 + l) + (k - 1)] = q[k]
  <2>. TAKE k \in 1 .. m
  <2>1. PICK j \in 1 .. l + m : j = l + k
    OBVIOUS
  <2>2. j \in 1 .. l + m + n /\ (1 + l) + (k - 1) = j /\ ~(j <= l) /\ j <= l + m /\ j - l = k
    BY <2>1
  <2>. QED  BY <1>3, <1>4, <2>2
<1>7. \A k \in 1 .. n : u[((1 + l) + m) + (k - 1)] = r[k]
  <2>. TAKE k \in 1 .. n
  <2>1. PICK j \in 1 .. l + m + n : j = (l + m) + k
    OBVIOUS
  <2>2. ((1 + l) + m) + (k - 1) = j /\ ~(j <= l + m) /\ j - (l + m) = k
    BY <2>1
  <2>. QED  BY <1>4, <2>2
<1>8. /\ 1 + l <= Len(u) + 1 /\ (1 + l) + m <= Len(u) + 1 /\ ((1 + l) + m) + n = Len(u) + 1
      /\ ((1 + l) + m) + n <= Len(u) + 1
  BY <1>4
<1>9. Joins(u, p, q, r)
  BY <1>2, <1>5, <1>6, <1>7, <1>8 DEF Joins, Holds
<1>. QED  BY <1>1, <1>9

\* What one piece prints.
Shown(p, x) == IF p = <<"a">> THEN <<"a">>
               ELSE Converted(p[2], IF p = <<"%", "s">> THEN <<x, x, 0>> ELSE x)

\* A piece is printed wherever it stands, and the next one begins behind it.
Stands(F, A, f, i, n, p, x) ==
    /\ Len(F) \in Nat /\ Turned(F, A, f) /\ i \in Nat /\ n \in Nat /\ p \in Pieces
    /\ Holds(F, i, p) /\ Holds(A, n, Args(p, x))

PrintsFrom(f, i, n, p, x) ==
    f[<<i, n>>] = Shown(p, x) \o f[<<i + Len(p), n + Len(Args(p, x))>>]

\* A piece prints what it shows, and the next piece begins behind it, with the arguments
\* that this one has not taken.
LEMMA PieceTurn ==
    ASSUME NEW F, NEW A, NEW f, NEW i, NEW n, NEW p, NEW x, Stands(F, A, f, i, n, p, x)
    PROVE  PrintsFrom(f, i, n, p, x)
<1>. SUFFICES f[<<i, n>>] = Shown(p, x) \o f[<<i + Len(p), n + Len(Args(p, x))>>]
  BY DEF PrintsFrom
<1>4. /\ Len(F) \in Nat /\ Turned(F, A, f) /\ i \in Nat /\ n \in Nat /\ p \in Pieces
      /\ Holds(F, i, p) /\ Holds(A, n, Args(p, x))
  BY DEF Stands
<1>1. f[<<i, n>>] = Step(F, A, f, i, n)
  BY <1>4 DEF Turned
<1>2. CASE p = <<"a">>
  <2>1. Len(p) = 1 /\ p[1] = "a"
    BY <1>2
  <2>2. i <= Len(F) /\ F[i] = "a"
    <3>1. F[i + (1 - 1)] = p[1] /\ i + 1 <= Len(F) + 1
      BY <1>4, <2>1 DEF Holds
    <3>. QED  BY <1>4, <2>1, <3>1
  <2>3. Args(p, x) = <<>> /\ Len(<<>>) = 0
    BY <1>2 DEF Args
  <2>4. n + Len(Args(p, x)) = n
    BY <1>4, <2>3
  <2>5. Shown(p, x) = <<"a">>
    BY <1>2 DEF Shown
  <2>6. ~(i > Len(F)) /\ "a" # "%"
    BY <1>4, <2>2
  <2>7. Step(F, A, f, i, n) = <<"a">> \o f[<<i + 1, n>>]
    BY <2>2, <2>6, Zenon DEF Step
  <2>. QED  BY <1>1, <2>1, <2>4, <2>5, <2>7, Zenon
<1>3. CASE p # <<"a">>
  <2>1. PICK c \in {"s", "x", "d", "c"} : p = <<"%", c>>
    BY <1>3, <1>4 DEF Pieces
  <2>2. Len(p) = 2 /\ p[1] = "%" /\ p[2] = c
    BY <2>1
  <2>3. i + 1 <= Len(F) /\ F[i] = "%" /\ F[i + 1] = c
    <3>1. F[i + (1 - 1)] = p[1] /\ F[i + (2 - 1)] = p[2] /\ i + 2 <= Len(F) + 1
      BY <1>4, <2>2 DEF Holds
    <3>. QED  BY <1>4, <2>2, <3>1
  <2>4. PICK y : y = IF p = <<"%", "s">> THEN <<x, x, 0>> ELSE x
    OBVIOUS
  <2>5. Args(p, x) = <<y>>
    BY <1>3, <2>4, Zenon DEF Args
  <2>6. Len(Args(p, x)) = 1 /\ A[n] = y
    <3>1. Len(<<y>>) = 1 /\ <<y>>[1] = y
      OBVIOUS
    <3>2. PICK a : a = Args(p, x)
      OBVIOUS
    <3>3. Len(a) = 1 /\ a[1] = y
      BY <2>5, <3>1, <3>2, Zenon
    <3>4. Holds(A, n, a)
      BY <1>4, <3>2
    <3>5. A[n + (1 - 1)] = a[1]
      BY <3>3, <3>4 DEF Holds
    <3>. QED  BY <1>4, <3>2, <3>3, <3>5
  <2>7. Shown(p, x) = Converted(c, y)
    BY <1>3, <2>2, <2>4, Zenon DEF Shown
  <2>8. ~(i > Len(F)) /\ ~(i + 1 > Len(F)) /\ c \in {"s", "x", "d", "c"}
    BY <1>4, <2>3
  <2>9. Step(F, A, f, i, n) = Converted(c, y) \o f[<<i + 2, n + 1>>]
    BY <2>3, <2>6, <2>8, Zenon DEF Step
  <2>. QED  BY <1>1, <2>2, <2>6, <2>7, <2>9, Zenon
<1>. QED  BY <1>2, <1>3

\* A string of two equal characters ends behind them, or at once.
LEMMA PairLength ==
    ASSUME NEW x
    PROVE  strlen(<<x, x, 0>>) \in 0 .. 2
<1>1. PICK t : t = <<x, x, 0>>
  OBVIOUS
<1>2. DOMAIN t = 1 .. 3 /\ t[1] = x /\ t[2] = x /\ t[3] = 0
  BY <1>1
<1>3. PICK Go : Go = {k \in DOMAIN t : t[k] # 0}
  OBVIOUS
<1>4. \E n \in 1 .. 3 : While(Go, 1) = n
  <2>1. CASE x = 0
    <3>1. 1 \notin Go
      BY <1>2, <1>3, <2>1
    <3>2. While(Go, 1) = 1
      BY <3>1, WhileStops
    <3>. QED  BY <3>2
  <2>2. CASE x # 0
    <3>1. 3 \notin Go /\ \A k \in 1 .. 3 - 1 : k \in Go
      <4>1. 1 \in Go /\ 2 \in Go /\ 3 \notin Go
        BY <1>2, <1>3, <2>2
      <4>2. \A k \in 1 .. 3 - 1 : k = 1 \/ k = 2
        OBVIOUS
      <4>. QED  BY <4>1, <4>2
    <3>2. While(Go, 1) = 3
      BY <3>1, WhileStops
    <3>. QED  BY <3>2
  <2>. QED  BY <2>1, <2>2
<1>5. strlen(t) = While(Go, 1) - 1
  BY <1>3 DEF strlen
<1>. QED  BY <1>1, <1>4, <1>5

\* What is printed of an int, and the sequences that can be printed.
Printable == Int \cup {"-", "a"}

\* What pieces show are sequences of what can be printed.
LEMMA ShownSeq ==
    ASSUME NEW p \in Pieces, NEW x \in Numbers
    PROVE  Shown(p, x) \in Seq(Printable)
<1>1. PICK S : S = Printable
  OBVIOUS
<1>2. x \in Int /\ Unsigned(x) \in Nat /\ (x < 0 => Unsigned(Negated(x)) \in Nat)
  <2>1. x \in Int /\ Unsigned(x) \in Nat /\ (x < 0 => Unsigned(Negated(x)) = -x)
    BY UnsignedIs
  <2>. QED  BY <2>1
<1>3. ASSUME NEW u \in Nat, NEW base \in {10, 16}
      PROVE  itoa(u, base) \in Seq(S)
  <2>1. Prints(itoa(u, base), base, u)
    BY ItoaPrints
  <2>2. itoa(u, base) \in Seq(Nat)
    BY <2>1 DEF Prints
  <2>3. Nat \in SUBSET S
    BY <1>1 DEF Printable
  <2>. QED  BY <2>2, <2>3, SeqMonotonic
<1>4. "-" \in S /\ "a" \in S /\ x \in S /\ 0 \in S
  BY <1>1, <1>2 DEF Printable
<1>5. \A y \in S : <<y>> \in Seq(S)
  OBVIOUS
<1>6. CASE p = <<"a">>
  <2>1. Shown(p, x) = <<"a">>
    BY <1>6 DEF Shown
  <2>. QED  BY <1>1, <1>4, <1>5, <2>1
<1>7. CASE p = <<"%", "s">>
  <2>1. PICK t, l : t = <<x, x, 0>> /\ l = strlen(t)
    OBVIOUS
  <2>2. l \in 0 .. 2
    BY <2>1, PairLength
  <2>3. \A k \in 1 .. 3 : t[k] \in S
    <3>1. t[1] = x /\ t[2] = x /\ t[3] = 0
      BY <2>1
    <3>2. \A k \in 1 .. 3 : k = 1 \/ k = 2 \/ k = 3
      OBVIOUS
    <3>. QED  BY <1>4, <3>1, <3>2
  <2>4. \A k \in 1 .. l : t[k] \in S
    BY <2>2, <2>3
  <2>5. SubSeq(t, 1, l) \in Seq(S)
    <3>1. 1 \in Int /\ l \in Int
      BY <2>2
    <3>. QED  BY <2>4, <3>1, SubSeqProperties
  <2>6. p # <<"a">> /\ p[2] = "s"
    BY <1>7
  <2>7. Shown(p, x) = Converted("s", t)
    BY <1>7, <2>1, <2>6, Zenon DEF Shown
  <2>8. Converted("s", t) = SubSeq(t, 1, l)
    BY <2>1 DEF Converted
  <2>. QED  BY <1>1, <2>5, <2>7, <2>8
<1>8. ASSUME NEW c \in {"x", "d", "c"}, p = <<"%", c>>
      PROVE  Shown(p, x) \in Seq(S)
  <2>1. p # <<"a">> /\ p # <<"%", "s">> /\ p[2] = c
    BY <1>8
  <2>2. Shown(p, x) = Converted(c, x)
    BY <2>1, Zenon DEF Shown
  <2>3. CASE c = "x"
    <3>1. Converted(c, x) = itoa(Unsigned(x), 16)
      BY <2>3 DEF Converted
    <3>. QED  BY <1>2, <1>3, <2>2, <3>1
  <2>4. CASE c = "d"
    <3>1. Converted(c, x) = Decimal(x)
      BY <2>4 DEF Converted
    <3>2. CASE x < 0
      <4>1. PICK q : q = itoa(Unsigned(Negated(x)), 10)
        OBVIOUS
      <4>2. q \in Seq(S)
        BY <1>2, <1>3, <3>2, <4>1
      <4>3. <<"-">> \in Seq(S)
        BY <1>4, <1>5
      <4>4. <<"-">> \o q \in Seq(S)
        BY <4>2, <4>3, ConcatProperties
      <4>5. Decimal(x) = <<"-">> \o q
        BY <3>2, <4>1 DEF Decimal
      <4>. QED  BY <2>2, <3>1, <4>4, <4>5
    <3>3. CASE ~(x < 0)
      <4>1. Decimal(x) = itoa(Unsigned(x), 10)
        BY <3>3 DEF Decimal
      <4>. QED  BY <1>2, <1>3, <2>2, <3>1, <4>1
    <3>. QED  BY <3>2, <3>3
  <2>5. CASE c = "c"
    <3>1. Converted(c, x) = <<x>>
      BY <2>5 DEF Converted
    <3>. QED  BY <1>4, <1>5, <2>2, <3>1
  <2>. QED  BY <2>3, <2>4, <2>5
<1>9. p = <<"a">> \/ p = <<"%", "s">> \/ \E c \in {"x", "d", "c"} : p = <<"%", c>>
  BY DEF Pieces
<1>. QED  BY <1>1, <1>6, <1>7, <1>8, <1>9

\* A format of three pieces prints what they show, one behind the other.
Consists(F, A, p, q, r, x, y, z) ==
    /\ Len(F) \in Nat /\ p \in Pieces /\ q \in Pieces /\ r \in Pieces
    /\ Joins(F, p, q, r) /\ Joins(A, Args(p, x), Args(q, y), Args(r, z))

\* A format of three pieces prints what they show, one behind the other.
LEMMA PiecesPrinted ==
    ASSUME NEW F, NEW A, NEW p, NEW q, NEW r, NEW x, NEW y, NEW z, Consists(F, A, p, q, r, x, y, z)
    PROVE  vsprintf(F, A) = Shown(p, x) \o (Shown(q, y) \o (Shown(r, z) \o <<>>))
<1>13. /\ Len(F) \in Nat /\ p \in Pieces /\ q \in Pieces /\ r \in Pieces
       /\ Joins(F, p, q, r) /\ Joins(A, Args(p, x), Args(q, y), Args(r, z))
  BY DEF Consists
<1>1. PICK f : Turned(F, A, f) /\ vsprintf(F, A) = f[<<1, 1>>]
  BY <1>13, VsprintfTurns
<1>2. \A o \in Pieces : Len(o) \in Nat
  BY DEF Pieces
<1>3. \A o \in Pieces : \A w : Len(Args(o, w)) \in Nat
  <2>. TAKE o \in Pieces
  <2>. TAKE w
  <2>1. \A v : Len(<<v>>) \in Nat
    OBVIOUS
  <2>2. Len(<<>>) \in Nat
    OBVIOUS
  <2>. QED  BY <2>1, <2>2, Zenon DEF Args
<1>4. PICK i, j, k \in Nat : /\ i = 1 + Len(p) /\ j = (1 + Len(p)) + Len(q)
                             /\ k = ((1 + Len(p)) + Len(q)) + Len(r)
  BY <1>2, <1>13
<1>5. PICK l, m, n \in Nat : /\ l = 1 + Len(Args(p, x)) /\ m = (1 + Len(Args(p, x))) + Len(Args(q, y))
                             /\ n = ((1 + Len(Args(p, x))) + Len(Args(q, y))) + Len(Args(r, z))
  <2>1. PICK a, b, c \in Nat : a = Len(Args(p, x)) /\ b = Len(Args(q, y)) /\ c = Len(Args(r, z))
    BY <1>3, <1>13
  <2>2. 1 + a \in Nat /\ (1 + a) + b \in Nat /\ ((1 + a) + b) + c \in Nat
    OBVIOUS
  <2>. QED  BY <2>1, <2>2
<1>6. /\ Holds(F, 1, p) /\ Holds(F, i, q) /\ Holds(F, j, r)
      /\ Holds(A, 1, Args(p, x)) /\ Holds(A, l, Args(q, y)) /\ Holds(A, m, Args(r, z))
  BY <1>4, <1>5, <1>13, Zenon DEF Joins
<1>11. 1 \in Nat
  OBVIOUS
<1>12. /\ Stands(F, A, f, 1, 1, p, x) /\ Stands(F, A, f, i, l, q, y)
       /\ Stands(F, A, f, j, m, r, z)
  BY <1>1, <1>6, <1>11, <1>13, Zenon DEF Stands
<1>14. /\ PrintsFrom(f, 1, 1, p, x) /\ PrintsFrom(f, i, l, q, y)
       /\ PrintsFrom(f, j, m, r, z)
  BY <1>12, PieceTurn
<1>7. f[<<1, 1>>] = Shown(p, x) \o f[<<i, l>>]
  <2>1. f[<<1, 1>>] = Shown(p, x) \o f[<<1 + Len(p), 1 + Len(Args(p, x))>>]
    BY <1>14, Zenon DEF PrintsFrom
  <2>. QED  BY <1>4, <1>5, <2>1
<1>8. f[<<i, l>>] = Shown(q, y) \o f[<<j, m>>]
  <2>1. f[<<i, l>>] = Shown(q, y) \o f[<<i + Len(q), l + Len(Args(q, y))>>]
    BY <1>14, Zenon DEF PrintsFrom
  <2>2. i + Len(q) = j /\ l + Len(Args(q, y)) = m
    BY <1>4, <1>5, Zenon
  <2>. QED  BY <2>1, <2>2, Zenon
<1>9. f[<<j, m>>] = Shown(r, z) \o f[<<k, n>>]
  <2>1. f[<<j, m>>] = Shown(r, z) \o f[<<j + Len(r), m + Len(Args(r, z))>>]
    BY <1>14, Zenon DEF PrintsFrom
  <2>2. j + Len(r) = k /\ m + Len(Args(r, z)) = n
    BY <1>4, <1>5, Zenon
  <2>. QED  BY <2>1, <2>2, Zenon
<1>10. f[<<k, n>>] = <<>>
  <2>1. k > Len(F)
    BY <1>4, <1>13 DEF Joins
  <2>2. Step(F, A, f, k, n) = <<>>
    BY <2>1, Zenon DEF Step
  <2>3. f[<<k, n>>] = Step(F, A, f, k, n)
    BY <1>1 DEF Turned
  <2>. QED  BY <2>2, <2>3
<1>. QED  BY <1>1, <1>7, <1>8, <1>9, <1>10, Zenon

\* A piece alone prints what it shows.
LEMMA PiecePrinted ==
    ASSUME NEW p \in Pieces, NEW x
    PROVE  vsprintf(p, Args(p, x)) = Shown(p, x) \o <<>>
<1>1. PICK A : A = Args(p, x)
  OBVIOUS
<1>2. Len(p) \in Nat
  BY DEF Pieces
<1>3. PICK f : Turned(p, A, f) /\ vsprintf(p, A) = f[<<1, 1>>]
  BY <1>2, VsprintfTurns
<1>4. \A q : Len(q) \in Nat => Holds(q, 1, q)
  <2>. TAKE q
  <2>. HAVE Len(q) \in Nat
  <2>1. 1 + Len(q) <= Len(q) + 1
    OBVIOUS
  <2>2. \A k \in 1 .. Len(q) : 1 + (k - 1) = k
    OBVIOUS
  <2>. QED  BY <2>1, <2>2 DEF Holds
<1>5. Len(A) \in Nat
  <2>1. \A v : Len(<<v>>) \in Nat
    OBVIOUS
  <2>2. Len(<<>>) \in Nat
    OBVIOUS
  <2>. QED  BY <1>1, <2>1, <2>2, Zenon DEF Args
<1>11. 1 \in Nat
  OBVIOUS
<1>6. f[<<1, 1>>] = Shown(p, x) \o f[<<1 + Len(p), 1 + Len(A)>>]
  <2>1. Holds(p, 1, p) /\ Holds(A, 1, Args(p, x))
    BY <1>1, <1>2, <1>4, <1>5, Zenon
  <2>3. Stands(p, A, f, 1, 1, p, x)
    BY <1>2, <1>3, <1>11, <2>1, Zenon DEF Stands
  <2>2. f[<<1, 1>>] = Shown(p, x) \o f[<<1 + Len(p), 1 + Len(Args(p, x))>>]
    <3>1. PrintsFrom(f, 1, 1, p, x)
      BY <2>3, PieceTurn
    <3>. QED  BY <3>1, Zenon DEF PrintsFrom
  <2>. QED  BY <1>1, <2>2
<1>7. f[<<1 + Len(p), 1 + Len(A)>>] = <<>>
  <2>1. PICK k, n \in Nat : k = 1 + Len(p) /\ n = 1 + Len(A)
    BY <1>2, <1>5
  <2>2. k > Len(p)
    BY <1>2, <2>1
  <2>3. Step(p, A, f, k, n) = <<>>
    BY <2>2, Zenon DEF Step
  <2>4. f[<<k, n>>] = Step(p, A, f, k, n)
    BY <1>3 DEF Turned
  <2>. QED  BY <2>1, <2>3, <2>4
<1>. QED  BY <1>1, <1>3, <1>6, <1>7, Zenon

\* vsprintf hands each conversion its own argument wherever it stands in the format.
LEMMA FormatsPrinted == \A v \in Numbers : FormatRight(v)
<1>. TAKE v \in Numbers
<1>1. 7 \in Numbers /\ 9 \in Numbers
  <2>1. PICK m \in Nat : m > 0 /\ Words = 16 * m /\ Smallest = -(8 * m)
    BY WordsAre
  <2>. QED  BY <2>1 DEF Numbers
<1>. SUFFICES ASSUME NEW p \in Pieces, NEW q \in Pieces, NEW r \in Pieces
              PROVE  vsprintf(p \o q \o r, Args(p, 7) \o Args(q, v) \o Args(r, 9)) =
                     vsprintf(p, Args(p, 7)) \o vsprintf(q, Args(q, v)) \o vsprintf(r, Args(r, 9))
  BY DEF FormatRight
<1>2. PICK F, A : F = p \o q \o r /\ A = Args(p, 7) \o Args(q, v) \o Args(r, 9)
  OBVIOUS
<1>3. Joins(F, p, q, r) /\ Len(F) \in Nat
  <2>1. PICK S : S = {"%", "s", "d", "x", "c", "a"}
    OBVIOUS
  <2>2. \A o \in Pieces : o \in Seq(S)
    <3>1. \A x, y \in S : <<x>> \in Seq(S) /\ <<x, y>> \in Seq(S)
      OBVIOUS
    <3>2. "%" \in S /\ "s" \in S /\ "d" \in S /\ "x" \in S /\ "c" \in S /\ "a" \in S
      BY <2>1
    <3>. QED  BY <3>1, <3>2, Zenon DEF Pieces
  <2>3. Joins(p \o q \o r, p, q, r)
    BY <2>2, Joined
  <2>4. p \o q \o r \in Seq(S)
    BY <2>2, ConcatProperties
  <2>. QED  BY <1>2, <2>3, <2>4, LenProperties
<1>4. Joins(A, Args(p, 7), Args(q, v), Args(r, 9))
  <2>1. PICK S : S = {7, v, 9, <<7, 7, 0>>, <<v, v, 0>>, <<9, 9, 0>>}
    OBVIOUS
  <2>2. \A w : <<w, w, 0>> \in S /\ w \in S => \A o \in Pieces : Args(o, w) \in Seq(S)
    <3>1. \A w \in S : <<w>> \in Seq(S)
      OBVIOUS
    <3>2. <<>> \in Seq(S)
      OBVIOUS
    <3>. QED  BY <3>1, <3>2, Zenon DEF Args
  <2>3. Args(p, 7) \in Seq(S) /\ Args(q, v) \in Seq(S) /\ Args(r, 9) \in Seq(S)
    <3>1. /\ 7 \in S /\ v \in S /\ 9 \in S
          /\ <<7, 7, 0>> \in S /\ <<v, v, 0>> \in S /\ <<9, 9, 0>> \in S
      BY <2>1, Zenon
    <3>. QED  BY <2>2, <3>1, Zenon
  <2>4. Joins(Args(p, 7) \o Args(q, v) \o Args(r, 9), Args(p, 7), Args(q, v), Args(r, 9))
    BY <2>3, Joined
  <2>. QED  BY <1>2, <2>4, Zenon
<1>5. PICK a, b, c : a = Shown(p, 7) /\ b = Shown(q, v) /\ c = Shown(r, 9)
  OBVIOUS
<1>6. a \in Seq(Printable) /\ b \in Seq(Printable) /\ c \in Seq(Printable)
  BY <1>1, <1>5, ShownSeq
<1>7. vsprintf(F, A) = a \o (b \o (c \o <<>>))
  <2>1. vsprintf(F, A) = Shown(p, 7) \o (Shown(q, v) \o (Shown(r, 9) \o <<>>))
    <3>1. Consists(F, A, p, q, r, 7, v, 9)
      BY <1>3, <1>4 DEF Consists
    <3>. QED  BY <3>1, PiecesPrinted
  <2>. QED  BY <1>5, <2>1, Zenon
<1>8. vsprintf(p, Args(p, 7)) = a \o <<>> /\ vsprintf(q, Args(q, v)) = b \o <<>>
      /\ vsprintf(r, Args(r, 9)) = c \o <<>>
  BY <1>5, PiecePrinted
<1>9. a \o <<>> = a /\ b \o <<>> = b /\ c \o <<>> = c
  BY <1>6, ConcatEmptySeq
<1>10. a \o (b \o c) = (a \o b) \o c
  BY <1>6, ConcatAssociative, SMTT(30)
<1>. QED  BY <1>2, <1>7, <1>8, <1>9, <1>10, Zenon

\* PrintedRight for ints of every width: itoa, put_int and vsprintf (stdio.c:7, stdio.c:19,
\* print.S:40) print every number with its value and every argument in its place.
THEOREM PrintedCorrect == DataSpec => []PrintedRight
<1>1. InputInv => PrintedRight
  BY NumbersPrinted, FormatsPrinted DEF InputInv, PrintedRight
<1>. QED  BY <1>1, InputsCorrect, PTL

-----------------------------------------------------------------------------
(* The partition scan. *)

\* What one turn of a loop depends on the turn before, exists.
LEMMA Turns ==
    ASSUME NEW disk, NEW lba, NEW s, NEW inner, NEW e, e = Table(disk, lba),
           NEW t0, t0 = [s EXCEPT !.buffers = @ + 1],
           NEW t1, t1 = Turn(t0, e[1], lba, inner),
           NEW t2, t2 = Turn(t1, e[2], lba, inner),
           NEW t3, t3 = Turn(t2, e[3], lba, inner),
           NEW t4, t4 = Turn(t3, e[4], lba, inner)
    PROVE  ScanTable(disk, lba, s, inner) = Left(t4)
<1>. DEFINE IsTurn(f) == f = [i \in 0 .. 4 |-> IF i = 0 THEN t0 ELSE Turn(f[i - 1], e[i], lba, inner)]
            F == [i \in 0 .. 4 |-> IF i = 0 THEN t0 ELSE IF i = 1 THEN t1 ELSE IF i = 2 THEN t2
                                   ELSE IF i = 3 THEN t3 ELSE t4]
            A == CHOOSE f : IsTurn(f)
<1>1. F[0] = t0 /\ F[1] = t1 /\ F[2] = t2 /\ F[3] = t3 /\ F[4] = t4
  OBVIOUS
<1>2. \A i \in 0 .. 4 : i = 0 \/ (i = 1 /\ i - 1 = 0) \/ (i = 2 /\ i - 1 = 1) \/ (i = 3 /\ i - 1 = 2) \/ (i = 4 /\ i - 1 = 3)
  OBVIOUS
<1>3. \A i \in 0 .. 4 : F[i] = IF i = 0 THEN t0 ELSE Turn(F[i - 1], e[i], lba, inner)
  <2>. HIDE DEF F
  <2>. QED  BY <1>1, <1>2
<1>4. IsTurn(F)
  <2>1. F = [i \in 0 .. 4 |-> F[i]]
    OBVIOUS
  <2>. HIDE DEF F
  <2>. QED  BY <1>3, <2>1
<1>5. IsTurn(A)
  <2>. HIDE DEF IsTurn
  <2>. QED  BY <1>4
<1>6. ScanTable(disk, lba, s, inner) = Left(A[4])
  BY DEF ScanTable
<1>7. A[0] = t0 /\ A[1] = Turn(A[0], e[1], lba, inner) /\ A[2] = Turn(A[1], e[2], lba, inner)
      /\ A[3] = Turn(A[2], e[3], lba, inner) /\ A[4] = Turn(A[3], e[4], lba, inner)
  <2>1. \A i \in 0 .. 4 : A[i] = IF i = 0 THEN t0 ELSE Turn(A[i - 1], e[i], lba, inner)
    <3>. HIDE DEF A
    <3>. QED  BY <1>5
  <2>. HIDE DEF A
  <2>. QED  BY <1>2, <2>1
<1>. HIDE DEF A
<1>. QED  BY <1>6, <1>7

\* The calls of each depth exist.
Calls(disk, call) ==
    call = [d \in 0 .. MaxChain + 1 |->
                [at \in Nat \X Scans |->
                    IF d = 0 THEN [at[2] EXCEPT !.panic = TRUE]
                    ELSE ScanTable(disk, at[1], at[2], call[d - 1])]]

\* The calls of partition_scan exist, since each call only asks the ones one level deeper.
LEMMA CallsExist ==
    ASSUME NEW disk
    PROVE  \E call : Calls(disk, call) /\ partition_scan(disk) = call[MaxChain + 1][<<0, Start>>]
<1>. DEFINE Level(d, c) == [at \in Nat \X Scans |->
                IF d = 0 THEN [at[2] EXCEPT !.panic = TRUE]
                ELSE ScanTable(disk, at[1], at[2], c)]
            Upto(n, c) == c = [d \in 0 .. n |-> Level(d, c[d - 1])]
            T == {n \in Nat : \E c : Upto(n, c)}
<1>1. 0 \in T
  <2>. DEFINE c == [d \in 0 .. 0 |-> Level(0, 0)]
  <2>1. \A x, y : Level(0, x) = Level(0, y)
    OBVIOUS
  <2>2. \A d \in 0 .. 0 : d = 0
    OBVIOUS
  <2>. HIDE DEF Level
  <2>3. Upto(0, c)
    BY <2>1, <2>2
  <2>. HIDE DEF Upto, c
  <2>. QED  BY <2>3
<1>2. ASSUME NEW n \in T
      PROVE  n + 1 \in T
  <2>. HIDE DEF Level
  <2>1. n \in Nat
    OBVIOUS
  <2>2. PICK c : Upto(n, c)
    OBVIOUS
  <2>. DEFINE g == [d \in 0 .. n + 1 |-> IF d = n + 1 THEN Level(n + 1, c[n]) ELSE c[d]]
  <2>3. \A d \in 0 .. n : c[d] = Level(d, c[d - 1]) /\ g[d] = c[d]
    BY <2>1, <2>2
  <2>4. g[n + 1] = Level(n + 1, c[n])
    BY <2>1
  <2>5. \A x, y : Level(0, x) = Level(0, y)
    BY DEF Level
  <2>6. \A d \in 0 .. n + 1 : g[d] = Level(d, g[d - 1])
    <3>. TAKE d \in 0 .. n + 1
    <3>1. CASE d = 0
      <4>. HIDE DEF g
      <4>1. 0 \in 0 .. n
        BY <2>1
      <4>2. g[0] = Level(0, c[0 - 1])
        BY <2>3, <4>1
      <4>. QED  BY <2>5, <3>1, <4>2
    <3>2. CASE d \in 1 .. n
      <4>1. d \in 0 .. n /\ d - 1 \in 0 .. n
        BY <2>1, <3>2
      <4>2. g[d] = Level(d, c[d - 1]) /\ g[d - 1] = c[d - 1]
        <5>. HIDE DEF g
        <5>. QED  BY <2>3, <4>1
      <4>. HIDE DEF g
      <4>. QED  BY <4>2
    <3>3. CASE d = n + 1
      <4>1. d - 1 = n /\ n \in 0 .. n
        BY <2>1, <3>3
      <4>. HIDE DEF g
      <4>2. g[n] = c[n]
        BY <2>3, <4>1
      <4>. QED  BY <2>4, <3>3, <4>1, <4>2
    <3>. HIDE DEF g
    <3>. QED  BY <2>1, <3>1, <3>2, <3>3
  <2>7. Upto(n + 1, g)
    <3>1. g = [d \in 0 .. n + 1 |-> g[d]]
      OBVIOUS
    <3>. HIDE DEF g
    <3>. QED  BY <2>6, <3>1
  <2>. HIDE DEF Upto, g
  <2>. QED  BY <2>1, <2>7
<1>3. \A n \in Nat : n \in T
  <2>1. T \in SUBSET Nat
    OBVIOUS
  <2>. HIDE DEF T
  <2>. QED  BY <1>1, <1>2, <2>1, Induction
<1>4. \E c : Calls(disk, c)
  <2>1. MaxChain + 1 \in Nat
    BY PartitionAssumption
  <2>2. MaxChain + 1 \in T
    <3>. HIDE DEF T
    <3>. QED  BY <1>3, <2>1
  <2>. QED  BY <2>2 DEF Calls
<1>. DEFINE A == CHOOSE c : Calls(disk, c)
<1>5. Calls(disk, A)
  BY <1>4
<1>6. partition_scan(disk) = A[MaxChain + 1][<<0, Start>>]
  BY DEF partition_scan, Calls
<1>. HIDE DEF A
<1>. QED  BY <1>5, <1>6

Elements(q) == {q[i] : i \in 1 .. Len(q)}

\* The numbers in the names listed are of N and differ; where the partitions start.
Numbered(names, N) ==
    /\ \A i \in 1 .. Len(names) : names[i][1] \in N
    /\ \A i, j \in 1 .. Len(names) : names[i][1] = names[j][1] => i = j

Starts(names) == {names[i][2] : i \in 1 .. Len(names)}

\* One name for each of the p primary and the l logical partitions, numbered from 1
\* and from 5 on.
Listing(p, l, prims, logics, names) ==
    /\ p = Len(prims) /\ l = Len(logics) /\ Len(names) = p + l
    /\ Numbered(names, (1 .. p) \cup (5 .. l + 4))
    /\ Starts(names) = Elements(prims) \cup Elements(logics)

\* One more number in an interval.
LEMMA IntervalGrows == \A n \in Nat : 1 .. n + 1 = (1 .. n) \cup {n + 1}
OBVIOUS

\* What is listed after one more.
LEMMA ListOneMore ==
    ASSUME NEW S, NEW q \in Seq(S), NEW x \in S
    PROVE  /\ Len(q) \in Nat /\ Append(q, x) \in Seq(S) /\ Len(Append(q, x)) = Len(q) + 1
           /\ \A i \in 1 .. Len(q) : Append(q, x)[i] = q[i]
           /\ Append(q, x)[Len(q) + 1] = x
           /\ Elements(Append(q, x)) = Elements(q) \cup {x}
<1>1. PICK n, r : n = Len(q) /\ r = Append(q, x)
  OBVIOUS
<1>2. n \in Nat
  BY <1>1, LenProperties
<1>3. /\ r \in Seq(S) /\ Len(r) = n + 1
      /\ \A i \in 1 .. n : r[i] = q[i]
      /\ r[n + 1] = x
  BY <1>1, AppendProperties
<1>4. 1 .. n + 1 = (1 .. n) \cup {n + 1}
  BY <1>2, IntervalGrows
<1>5. {r[i] : i \in 1 .. n + 1} = {q[i] : i \in 1 .. n} \cup {x}
  BY <1>3, <1>4
<1>6. Elements(r) = Elements(q) \cup {x}
  BY <1>1, <1>3, <1>5 DEF Elements
<1>. QED  BY <1>1, <1>2, <1>3, <1>6

\* A name with a new number keeps the numbering of names and adds one start.
LEMMA NamesOneMore ==
    ASSUME NEW names \in Seq(Nat \X Nat), NEW number \in Nat, NEW start \in Nat,
           NEW N, Numbered(names, N), number \notin N
    PROVE  /\ Append(names, <<number, start>>) \in Seq(Nat \X Nat)
           /\ Len(Append(names, <<number, start>>)) = Len(names) + 1
           /\ Numbered(Append(names, <<number, start>>), N \cup {number})
           /\ Starts(Append(names, <<number, start>>)) = Starts(names) \cup {start}
<1>1. PICK x, n, r : x = <<number, start>> /\ n = Len(names) /\ r = Append(names, x)
  OBVIOUS
<1>2. x \in Nat \X Nat /\ x[1] = number /\ x[2] = start
  BY <1>1
<1>3. /\ n \in Nat /\ r \in Seq(Nat \X Nat) /\ Len(r) = n + 1
      /\ \A i \in 1 .. n : r[i] = names[i]
      /\ r[n + 1] = x
  BY <1>1, <1>2, ListOneMore
<1>4. 1 .. n + 1 = (1 .. n) \cup {n + 1}
  BY <1>3, IntervalGrows
<1>5. /\ \A i \in 1 .. n : r[i][1] = names[i][1] /\ names[i][1] \in N
      /\ \A i, j \in 1 .. n : names[i][1] = names[j][1] => i = j
  BY <1>1, <1>3 DEF Numbered
<1>6. r[n + 1][1] = number
  BY <1>2, <1>3
<1>7. \A i \in (1 .. n) \cup {n + 1} : r[i][1] \in N \cup {number}
  BY <1>5, <1>6
<1>8. \A i, j \in (1 .. n) \cup {n + 1} : r[i][1] = r[j][1] => i = j
  BY <1>5, <1>6
<1>9. Numbered(r, N \cup {number})
  BY <1>3, <1>4, <1>7, <1>8 DEF Numbered
<1>10. {r[i][2] : i \in (1 .. n) \cup {n + 1}} = {names[i][2] : i \in 1 .. n} \cup {start}
  <2>1. \A i \in 1 .. n : r[i][2] = names[i][2]
    BY <1>3
  <2>2. r[n + 1][2] = start
    BY <1>2, <1>3
  <2>. QED  BY <2>1, <2>2, ZenonT(40)
<1>11. Starts(r) = Starts(names) \cup {start}
  BY <1>1, <1>3, <1>4, <1>10 DEF Starts
<1>. QED  BY <1>1, <1>3, <1>9, <1>11

\* A primary partition is listed with the next of the numbers 1 to 4.
LEMMA ListPrimary ==
    ASSUME NEW p, NEW l, NEW prims \in Seq(Nat), NEW logics \in Seq(Nat), NEW names \in Seq(Nat \X Nat),
           Listing(p, l, prims, logics, names), p < 4, NEW x \in Nat
    PROVE  /\ Append(prims, x) \in Seq(Nat) /\ Append(names, <<p + 1, x>>) \in Seq(Nat \X Nat)
           /\ Listing(p + 1, l, Append(prims, x), logics, Append(names, <<p + 1, x>>))
<1>1. /\ p = Len(prims) /\ l = Len(logics) /\ Len(names) = p + l
      /\ Numbered(names, (1 .. p) \cup (5 .. l + 4))
      /\ Starts(names) = Elements(prims) \cup Elements(logics)
  BY DEF Listing
<1>2. p \in Nat /\ l \in Nat
  BY <1>1, LenProperties
<1>3. PICK q, r : q = Append(prims, x) /\ r = Append(names, <<p + 1, x>>)
  OBVIOUS
<1>4. p + 1 \in Nat /\ p + 1 \notin (1 .. p) \cup (5 .. l + 4) /\ (p + 1) + l = (p + l) + 1
      /\ ((1 .. p) \cup (5 .. l + 4)) \cup {p + 1} = (1 .. p + 1) \cup (5 .. l + 4)
  BY <1>2
<1>5. q \in Seq(Nat) /\ Len(q) = p + 1 /\ Elements(q) = Elements(prims) \cup {x}
  <2>1. PICK N, y : N = Nat /\ y = x
    OBVIOUS
  <2>2. prims \in Seq(N) /\ y \in N
    BY <2>1
  <2>3. /\ Append(prims, y) \in Seq(N) /\ Len(Append(prims, y)) = Len(prims) + 1
        /\ Elements(Append(prims, y)) = Elements(prims) \cup {y}
    BY <2>2, ListOneMore
  <2>. QED  BY <1>1, <1>3, <2>1, <2>3
<1>6. /\ r \in Seq(Nat \X Nat) /\ Len(r) = (p + l) + 1
      /\ Numbered(r, ((1 .. p) \cup (5 .. l + 4)) \cup {p + 1})
      /\ Starts(r) = Starts(names) \cup {x}
  <2>. DEFINE N == (1 .. p) \cup (5 .. l + 4)
  <2>1. Numbered(names, N) /\ p + 1 \notin N /\ p + 1 \in Nat
    BY <1>1, <1>4
  <2>. HIDE DEF N
  <2>2. /\ Append(names, <<p + 1, x>>) \in Seq(Nat \X Nat)
        /\ Len(Append(names, <<p + 1, x>>)) = Len(names) + 1
        /\ Numbered(Append(names, <<p + 1, x>>), N \cup {p + 1})
        /\ Starts(Append(names, <<p + 1, x>>)) = Starts(names) \cup {x}
    BY <2>1, NamesOneMore
  <2>. QED  BY <1>1, <1>3, <2>2 DEF N
<1>7. Starts(r) = Elements(q) \cup Elements(logics)
  BY <1>1, <1>5, <1>6
<1>. QED  BY <1>1, <1>3, <1>4, <1>5, <1>6, <1>7 DEF Listing

\* A logical partition is listed with the next of the numbers from 5 on.
LEMMA ListLogical ==
    ASSUME NEW p, NEW l, NEW prims \in Seq(Nat), NEW logics \in Seq(Nat), NEW names \in Seq(Nat \X Nat),
           Listing(p, l, prims, logics, names), p <= 4, NEW x \in Nat
    PROVE  /\ Append(logics, x) \in Seq(Nat) /\ Append(names, <<l + 5, x>>) \in Seq(Nat \X Nat)
           /\ Listing(p, l + 1, prims, Append(logics, x), Append(names, <<l + 5, x>>))
<1>1. /\ p = Len(prims) /\ l = Len(logics) /\ Len(names) = p + l
      /\ Numbered(names, (1 .. p) \cup (5 .. l + 4))
      /\ Starts(names) = Elements(prims) \cup Elements(logics)
  BY DEF Listing
<1>2. p \in Nat /\ l \in Nat
  BY <1>1, LenProperties
<1>3. PICK q, r : q = Append(logics, x) /\ r = Append(names, <<l + 5, x>>)
  OBVIOUS
<1>4. l + 5 \in Nat /\ l + 5 \notin (1 .. p) \cup (5 .. l + 4) /\ p + (l + 1) = (p + l) + 1
      /\ ((1 .. p) \cup (5 .. l + 4)) \cup {l + 5} = (1 .. p) \cup (5 .. (l + 1) + 4)
  BY <1>2
<1>5. q \in Seq(Nat) /\ Len(q) = l + 1 /\ Elements(q) = Elements(logics) \cup {x}
  <2>1. PICK N, y : N = Nat /\ y = x
    OBVIOUS
  <2>2. logics \in Seq(N) /\ y \in N
    BY <2>1
  <2>3. /\ Append(logics, y) \in Seq(N) /\ Len(Append(logics, y)) = Len(logics) + 1
        /\ Elements(Append(logics, y)) = Elements(logics) \cup {y}
    BY <2>2, ListOneMore
  <2>. QED  BY <1>1, <1>3, <2>1, <2>3
<1>6. /\ r \in Seq(Nat \X Nat) /\ Len(r) = (p + l) + 1
      /\ Numbered(r, ((1 .. p) \cup (5 .. l + 4)) \cup {l + 5})
      /\ Starts(r) = Starts(names) \cup {x}
  <2>. DEFINE N == (1 .. p) \cup (5 .. l + 4)
  <2>1. Numbered(names, N) /\ l + 5 \notin N /\ l + 5 \in Nat
    BY <1>1, <1>4
  <2>. HIDE DEF N
  <2>2. /\ Append(names, <<l + 5, x>>) \in Seq(Nat \X Nat)
        /\ Len(Append(names, <<l + 5, x>>)) = Len(names) + 1
        /\ Numbered(Append(names, <<l + 5, x>>), N \cup {l + 5})
        /\ Starts(Append(names, <<l + 5, x>>)) = Starts(names) \cup {x}
    BY <2>1, NamesOneMore
  <2>. QED  BY <1>1, <1>3, <2>2 DEF N
<1>7. Starts(r) = Elements(prims) \cup Elements(q)
  BY <1>1, <1>5, <1>6
<1>. QED  BY <1>1, <1>3, <1>4, <1>5, <1>6, <1>7 DEF Listing

Named(s) == Listing(s.p_no, s.l_no, s.prim_parts, s.logic_parts, s.names)

\* The fields of a scan.
LEMMA ScanTypes ==
    ASSUME NEW s \in Scans
    PROVE  /\ s.ext_lba_base \in Nat /\ s.p_no \in Nat /\ s.l_no \in Nat /\ s.buffers \in Nat
           /\ s.prim_parts \in Seq(Nat) /\ s.logic_parts \in Seq(Nat) /\ s.names \in Seq(Nat \X Nat)
           /\ s.leave \in BOOLEAN /\ s.panic \in BOOLEAN
BY DEF Scans

\* What a primary partition changes in a scan (ide.c:235).
LEMMA PrimaryListed ==
    ASSUME NEW s \in Scans, Named(s), s.p_no < 4, NEW entry, entry.start \in Nat,
           NEW r, r = Primary(s, entry)
    PROVE  /\ r \in Scans /\ Named(r)
           /\ r.p_no = s.p_no + 1 /\ r.prim_parts = Append(s.prim_parts, entry.start)
           /\ r.panic <=> s.p_no + 1 >= 4
           /\ r.l_no = s.l_no /\ r.logic_parts = s.logic_parts /\ r.leave = s.leave
           /\ r.buffers = s.buffers /\ r.ext_lba_base = s.ext_lba_base
<1>1. PICK x, pp, nn, p : x = entry.start /\ pp = Append(s.prim_parts, x) /\ p = s.p_no + 1
                          /\ nn = Append(s.names, <<p, x>>)
  OBVIOUS
<1>2. PICK b : b = (p >= 4)
  OBVIOUS
<1>3. r = [s EXCEPT !.prim_parts = pp, !.names = nn, !.p_no = p, !.panic = b]
  BY <1>1, <1>2 DEF Primary
<1>4. Listing(p, s.l_no, pp, s.logic_parts, nn) /\ pp \in Seq(Nat) /\ nn \in Seq(Nat \X Nat) /\ p \in Nat
  <2>1. /\ s.prim_parts \in Seq(Nat) /\ s.logic_parts \in Seq(Nat) /\ s.names \in Seq(Nat \X Nat)
        /\ Listing(s.p_no, s.l_no, s.prim_parts, s.logic_parts, s.names) /\ x \in Nat /\ p \in Nat
    <3>1. x \in Nat /\ s.p_no \in Nat /\ s.l_no \in Nat
      BY <1>1, ScanTypes
    <3>2. Listing(s.p_no, s.l_no, s.prim_parts, s.logic_parts, s.names)
      BY DEF Named
    <3>. QED  BY <1>1, <3>1, <3>2, ScanTypes
  <2>. QED  BY <1>1, <2>1, ListPrimary
<1>5. /\ r.prim_parts = pp /\ r.names = nn /\ r.p_no = p /\ r.panic = b
      /\ r.l_no = s.l_no /\ r.logic_parts = s.logic_parts /\ r.leave = s.leave
      /\ r.buffers = s.buffers /\ r.ext_lba_base = s.ext_lba_base
      /\ r \in Scans
  <2>1. b \in BOOLEAN
    BY <1>2
  <2>. QED  BY <1>3, <1>4, <2>1 DEF Scans
<1>6. Named(r)
  BY <1>4, <1>5 DEF Named
<1>. QED  BY <1>1, <1>2, <1>5, <1>6

\* r is s with the logical partition at x added.
LogicalAdded(s, r, x) ==
    /\ r \in Scans /\ Named(r)
    /\ r.l_no = s.l_no + 1 /\ r.logic_parts = Append(s.logic_parts, x)
    /\ r.leave <=> s.l_no + 1 >= 8
    /\ r.p_no = s.p_no /\ r.prim_parts = s.prim_parts /\ r.panic = s.panic
    /\ r.buffers = s.buffers /\ r.ext_lba_base = s.ext_lba_base

\* What a logical partition changes in a scan (ide.c:247).
LEMMA LogicalListed ==
    ASSUME NEW s \in Scans, Named(s), s.p_no <= 4, NEW entry, NEW lba \in Nat, entry.start \in Nat,
           NEW r, r = Logical(s, entry, lba)
    PROVE  LogicalAdded(s, r, lba + entry.start)
<1>1. PICK x, pp, nn, l : x = lba + entry.start /\ pp = Append(s.logic_parts, x) /\ l = s.l_no + 1
                          /\ nn = Append(s.names, <<s.l_no + 5, x>>)
  OBVIOUS
<1>2. PICK b : b = (l >= 8)
  OBVIOUS
<1>3. r = [s EXCEPT !.logic_parts = pp, !.names = nn, !.l_no = l, !.leave = b]
  BY <1>1, <1>2 DEF Logical
<1>4. Listing(s.p_no, l, s.prim_parts, pp, nn) /\ pp \in Seq(Nat) /\ nn \in Seq(Nat \X Nat) /\ l \in Nat
  <2>1. /\ s.prim_parts \in Seq(Nat) /\ s.logic_parts \in Seq(Nat) /\ s.names \in Seq(Nat \X Nat)
        /\ Listing(s.p_no, s.l_no, s.prim_parts, s.logic_parts, s.names) /\ x \in Nat /\ l \in Nat
    <3>1. x \in Nat /\ s.p_no \in Nat /\ s.l_no \in Nat
      BY <1>1, ScanTypes
    <3>2. Listing(s.p_no, s.l_no, s.prim_parts, s.logic_parts, s.names)
      BY DEF Named
    <3>3. s.prim_parts \in Seq(Nat) /\ s.logic_parts \in Seq(Nat) /\ s.names \in Seq(Nat \X Nat)
      BY ScanTypes
    <3>4. l \in Nat
      BY <1>1, <3>1
    <3>. QED  BY <3>1, <3>2, <3>3, <3>4, Zenon
  <2>. QED  BY <1>1, <2>1, ListLogical
<1>5. /\ r.logic_parts = pp /\ r.names = nn /\ r.l_no = l /\ r.leave = b
      /\ r.p_no = s.p_no /\ r.prim_parts = s.prim_parts /\ r.panic = s.panic
      /\ r.buffers = s.buffers /\ r.ext_lba_base = s.ext_lba_base
      /\ r \in Scans
  <2>1. b \in BOOLEAN
    BY <1>2
  <2>. QED  BY <1>3, <1>4, <2>1 DEF Scans
<1>6. Named(r)
  BY <1>4, <1>5 DEF Named
<1>. QED  BY <1>1, <1>2, <1>5, <1>6 DEF LogicalAdded

\* A buffer more or less, and no return any more.
LEMMA BufferTaken ==
    ASSUME NEW s \in Scans, NEW r, r = [s EXCEPT !.buffers = @ + 1]
    PROVE  /\ r \in Scans /\ r.buffers = s.buffers + 1
           /\ r.ext_lba_base = s.ext_lba_base /\ r.p_no = s.p_no /\ r.l_no = s.l_no
           /\ r.prim_parts = s.prim_parts /\ r.logic_parts = s.logic_parts /\ r.names = s.names
           /\ r.leave = s.leave /\ r.panic = s.panic
<1>1. PICK b \in Nat : b = s.buffers + 1
  BY ScanTypes
<1>2. r = [s EXCEPT !.buffers = b]
  BY <1>1
<1>. QED  BY <1>1, <1>2 DEF Scans

\* A call that returns frees its buffer, unless it leaves through the early return.
LEMMA CallLeft ==
    ASSUME NEW s \in Scans, ~s.panic, s.leave \/ s.buffers > 0, NEW r, r = Left(s)
    PROVE  /\ r \in Scans /\ r.buffers = IF s.leave THEN s.buffers ELSE s.buffers - 1
           /\ r.ext_lba_base = s.ext_lba_base /\ r.p_no = s.p_no /\ r.l_no = s.l_no
           /\ r.prim_parts = s.prim_parts /\ r.logic_parts = s.logic_parts /\ r.names = s.names
           /\ ~r.leave /\ ~r.panic
<1>1. PICK b : b = IF s.leave THEN s.buffers ELSE s.buffers - 1
  OBVIOUS
<1>2. b \in Nat
  BY <1>1, ScanTypes
<1>3. r = [s EXCEPT !.leave = FALSE, !.buffers = b]
  BY <1>1 DEF Left
<1>4. s.panic = FALSE
  BY ScanTypes
<1>. QED  BY <1>1, <1>2, <1>3, <1>4 DEF Scans

\* An empty entry, and every entry behind the early return, changes nothing.
LEMMA TurnIdle ==
    ASSUME NEW s, NEW entry, NEW lba, NEW inner, s.leave \/ s.panic \/ entry.type = "none"
    PROVE  Turn(s, entry, lba, inner) = s
BY DEF Turn

\* An entry that refers to another table is followed.
LEMMA TurnExtended ==
    ASSUME NEW s, NEW entry, NEW lba, NEW inner, ~s.leave, ~s.panic, entry.type = "ext"
    PROVE  Turn(s, entry, lba, inner) = Extended(s, entry, lba, inner)
BY DEF Turn

\* An entry of a partition is listed, in the boot record as a primary one.
LEMMA TurnPartition ==
    ASSUME NEW s, NEW entry, NEW lba, NEW inner, ~s.leave, ~s.panic, entry.type = "prim"
    PROVE  Turn(s, entry, lba, inner) = IF lba = 0 THEN Primary(s, entry) ELSE Logical(s, entry, lba)
BY DEF Turn

\* The extended records: n of them, of which only the first may describe none.
Chained(disk, n) ==
    /\ n \in 1 .. MaxChain /\ DOMAIN disk.chain = 1 .. n /\ disk.second = n + 1
    /\ \A k \in 1 .. n : disk.chain[k] \in {"first", "none"} /\ (k > 1 => disk.chain[k] = "first")

Lost(disk) == IF disk.chain[1] = "first" THEN 0 ELSE 1

\* How many partitions the first k records describe, and how many are found.
Taken(disk, k) == IF k <= Lost(disk) THEN 0 ELSE k - Lost(disk)
Most(disk, n) == IF Taken(disk, n) < 8 THEN Taken(disk, n) ELSE 8

\* Where the records of a chain lie: apart, in ascending order, all from the extended
\* partition on.
LEMMA Records ==
    /\ Record(1) = Ext
    /\ \A k \in Nat \ {0} : Record(k) \in Nat /\ Record(k) # 0 /\ Record(k) >= Ext
                            /\ Record(k) + Gap = Record(k + 1)
    /\ \A i, j \in Nat \ {0} : Record(i) = Record(j) => i = j
    /\ \A i, j \in Nat \ {0} : i < j => Record(i) < Record(j)
<1>1. Ext \in Nat /\ Ext # 0 /\ Gap \in Nat /\ Gap > 1
  BY PartitionAssumption
<1>2. \A k \in Nat : k * Gap \in Nat /\ (k + 1) * Gap = k * Gap + Gap
  BY <1>1
<1>3. \A i, j \in Nat : i < j => i * Gap < j * Gap
  <2>. SUFFICES ASSUME NEW i \in Nat, NEW j \in Nat, i < j
                PROVE  i * Gap < j * Gap
    OBVIOUS
  <2>1. (j - i) * Gap = j * Gap - i * Gap /\ j - i \in Nat /\ j - i > 0 /\ i * Gap \in Nat /\ j * Gap \in Nat
    BY <1>1
  <2>2. (j - i) * Gap > 0
    BY <1>1, <2>1
  <2>. QED  BY <2>1, <2>2
<1>4. ASSUME NEW k \in Nat \ {0}
      PROVE  Record(k) \in Nat /\ Record(k) # 0 /\ Record(k) >= Ext /\ Record(k) + Gap = Record(k + 1)
  <2>1. k - 1 \in Nat /\ (k + 1) - 1 = (k - 1) + 1
    OBVIOUS
  <2>2. (k - 1) * Gap \in Nat /\ ((k + 1) - 1) * Gap = (k - 1) * Gap + Gap
    BY <1>2, <2>1
  <2>. QED  BY <1>1, <2>2 DEF Record
<1>5. Record(1) = Ext
  BY <1>1 DEF Record
<1>6. \A i, j \in Nat \ {0} : i < j => Record(i) < Record(j)
  <2>. SUFFICES ASSUME NEW i \in Nat \ {0}, NEW j \in Nat \ {0}, i < j
                PROVE  Record(i) < Record(j)
    OBVIOUS
  <2>1. i - 1 \in Nat /\ j - 1 \in Nat /\ i - 1 < j - 1
    OBVIOUS
  <2>2. (i - 1) * Gap < (j - 1) * Gap /\ (i - 1) * Gap \in Nat /\ (j - 1) * Gap \in Nat
    BY <1>2, <1>3, <2>1
  <2>. QED  BY <1>1, <2>2 DEF Record
<1>7. \A i, j \in Nat \ {0} : Record(i) = Record(j) => i = j
  <2>. SUFFICES ASSUME NEW i \in Nat \ {0}, NEW j \in Nat \ {0}, Record(i) = Record(j), i # j
                PROVE  FALSE
    OBVIOUS
  <2>1. Record(i) \in Nat
    BY <1>4
  <2>2. i < j \/ j < i
    OBVIOUS
  <2>. QED  BY <1>6, <2>1, <2>2
<1>. QED  BY <1>4, <1>5, <1>6, <1>7

\* The table of the record k of a chain.
LEMMA TableAt ==
    ASSUME NEW disk, NEW n, Chained(disk, n), NEW k \in 1 .. n,
           NEW e, e = Table(disk, Record(k))
    PROVE  /\ e[1] = IF disk.chain[k] = "first" THEN Entry("prim", 1) ELSE Entry("none", 0)
           /\ e[2] = IF k + 1 <= n THEN Entry("ext", Record(k + 1) - Ext) ELSE Entry("none", 0)
           /\ e[3] = Entry("none", 0) /\ e[4] = Entry("none", 0)
<1>1. k \in Nat \ {0} /\ DOMAIN disk.chain = 1 .. n /\ n \in Nat
  BY PartitionAssumption DEF Chained
<1>2. Record(k) # 0 /\ Record(k) + Gap = Record(k + 1)
  BY <1>1, Records
<1>3. \A j \in DOMAIN disk.chain : Record(k) = Record(j) <=> j = k
  <2>. TAKE j \in DOMAIN disk.chain
  <2>1. j \in Nat \ {0}
    BY <1>1
  <2>2. \A i, m \in Nat \ {0} : Record(i) = Record(m) => i = m
    BY Records
  <2>. QED  BY <1>1, <2>1, <2>2
<1>. DEFINE Has(shape) == \E j \in DOMAIN disk.chain : Record(k) = Record(j) /\ disk.chain[j] = shape
            Links == \E j \in DOMAIN disk.chain :
                        Record(k) = Record(j) /\ j + 1 \in DOMAIN disk.chain /\ j + 1 # disk.second
<1>4. (Has("first") <=> disk.chain[k] = "first") /\ ~Has("last")
  <2>1. disk.chain[k] # "last"
    BY DEF Chained
  <2>. QED  BY <1>1, <1>3, <2>1
<1>5. Links <=> k + 1 <= n
  <2>1. disk.second = n + 1
    BY DEF Chained
  <2>. QED  BY <1>1, <1>3, <2>1
<1>6. \A i \in Slots : e[i] =
         IF Record(k) = 0 THEN Entry(disk.mbr[i], StartOf(disk, i))
         ELSE CASE i = (IF Has("last") THEN 2 ELSE 1) /\ (Has("first") \/ Has("last")) -> Entry("prim", 1)
                [] i = (IF Has("last") THEN 1 ELSE 2) /\ Links -> Entry("ext", Record(k) + Gap - Ext)
                [] OTHER -> Entry("none", 0)
  BY DEF Table
<1>7. 1 \in Slots /\ 2 \in Slots /\ 3 \in Slots /\ 4 \in Slots
  BY DEF Slots
<1>. PICK P, Q, L \in BOOLEAN : P = Has("first") /\ L = Has("last") /\ Q = Links
  OBVIOUS
<1>. HIDE DEF Has, Links
<1>14. \A i \in Slots : e[i] =
          CASE i = 1 /\ P -> Entry("prim", 1)
            [] i = 2 /\ Q -> Entry("ext", Record(k) + Gap - Ext)
            [] OTHER -> Entry("none", 0)
  BY <1>2, <1>4, <1>6
<1>8. e[1] = IF P THEN Entry("prim", 1) ELSE Entry("none", 0)
  BY <1>7, <1>14
<1>9. e[2] = IF Q THEN Entry("ext", Record(k) + Gap - Ext) ELSE Entry("none", 0)
  BY <1>7, <1>14
<1>10. e[3] = Entry("none", 0) /\ e[4] = Entry("none", 0)
  BY <1>7, <1>14
<1>11. Record(k) + Gap - Ext = Record(k + 1) - Ext
  <2>1. PICK x \in Nat : x = Record(k)
    BY <1>1, Records
  <2>2. x + Gap = Record(k + 1)
    BY <1>2, <2>1
  <2>3. x + Gap - Ext = (x + Gap) - Ext
    BY PartitionAssumption
  <2>. QED  BY <2>1, <2>2, <2>3, Zenon
<1>12. e[1] = IF disk.chain[k] = "first" THEN Entry("prim", 1) ELSE Entry("none", 0)
  BY <1>4, <1>8, Zenon
<1>13. e[2] = IF k + 1 <= n THEN Entry("ext", Record(k + 1) - Ext) ELSE Entry("none", 0)
  BY <1>5, <1>9, <1>11, Zenon
<1>. QED  BY <1>10, <1>12, <1>13

\* A scan between two turns that has found the first l logical partitions.
ScanHas(disk, s, l) ==
    /\ s \in Scans /\ ~s.leave /\ ~s.panic
    /\ Named(s) /\ s.l_no = l /\ s.p_no <= 3
    /\ \A j \in 1 .. l : s.logic_parts[j] = Record(Lost(disk) + j) + 1

\* What walking the chain from a record on changes.
Walked(disk, n, s, r) ==
    /\ ScanHas(disk, r, Most(disk, n))
    /\ r.p_no = s.p_no /\ r.prim_parts = s.prim_parts /\ r.ext_lba_base = s.ext_lba_base
    /\ r.buffers = IF Most(disk, n) = 8 THEN s.buffers + 1 ELSE s.buffers

\* How many partitions of a chain are taken by the first k records.
LEMMA TakenSteps ==
    ASSUME NEW disk, NEW n, Chained(disk, n)
    PROVE  /\ n \in Nat /\ Lost(disk) \in {0, 1} /\ Taken(disk, 0) = 0
           /\ \A k \in 0 .. n : Taken(disk, k) \in Nat
           /\ \A k \in 1 .. n : Taken(disk, k) = IF disk.chain[k] = "first" THEN Taken(disk, k - 1) + 1
                                                 ELSE Taken(disk, k - 1)
           /\ \A k \in 1 .. n : disk.chain[k] = "first" => Lost(disk) + Taken(disk, k) = k
           /\ \A k \in 1 .. n : Taken(disk, k) >= 8 => Most(disk, n) = 8
           /\ Taken(disk, n) < 8 => Most(disk, n) = Taken(disk, n)
           /\ Most(disk, n) \in 0 .. 8
<1>1. n \in Nat /\ n >= 1
  BY PartitionAssumption DEF Chained
<1>2. \A k \in 1 .. n : disk.chain[k] \in {"first", "none"} /\ (k > 1 => disk.chain[k] = "first")
  BY DEF Chained
<1>3. Lost(disk) \in {0, 1} /\ (Lost(disk) = 0 <=> disk.chain[1] = "first")
  BY <1>1, <1>2 DEF Lost
<1>4. \A k \in 1 .. n : k > Lost(disk) <=> disk.chain[k] = "first"
  BY <1>1, <1>2, <1>3
<1>. QED  BY <1>1, <1>3, <1>4 DEF Taken, Most

\* Listing a logical partition finds the next one of the chain.
LEMMA FoundLogical ==
    ASSUME NEW disk, NEW n, Chained(disk, n), NEW k \in 1 .. n, disk.chain[k] = "first",
           NEW s, ScanHas(disk, s, Taken(disk, k - 1)), Taken(disk, k - 1) < 8,
           NEW r, r = Logical(s, Entry("prim", 1), Record(k))
    PROVE  /\ r \in Scans /\ Named(r) /\ ~r.panic /\ r.l_no = Taken(disk, k)
           /\ r.leave <=> Taken(disk, k) = 8
           /\ r.p_no = s.p_no /\ r.prim_parts = s.prim_parts
           /\ r.buffers = s.buffers /\ r.ext_lba_base = s.ext_lba_base
           /\ \A j \in 1 .. Taken(disk, k) : r.logic_parts[j] = Record(Lost(disk) + j) + 1
<1>. DEFINE l == Taken(disk, k - 1)
<1>1. k \in Nat \ {0} /\ k - 1 \in 0 .. n /\ n \in Nat
  BY TakenSteps
<1>2. l \in Nat /\ Taken(disk, k) = l + 1 /\ Lost(disk) + (l + 1) = k
  BY <1>1, TakenSteps
<1>. HIDE DEF l
<1>3. /\ s \in Scans /\ ~s.panic /\ Named(s) /\ s.l_no = l /\ s.p_no <= 3
      /\ \A j \in 1 .. l : s.logic_parts[j] = Record(Lost(disk) + j) + 1
  BY DEF ScanHas, l
<1>4. Record(k) \in Nat /\ Entry("prim", 1).start = 1
  BY <1>1, Records DEF Entry
<1>5. s.p_no \in Nat /\ s.p_no <= 4 /\ s.logic_parts \in Seq(Nat)
  BY <1>3, ScanTypes
<1>6. /\ r \in Scans /\ Named(r)
      /\ r.l_no = s.l_no + 1 /\ r.logic_parts = Append(s.logic_parts, Record(k) + Entry("prim", 1).start)
      /\ r.leave <=> s.l_no + 1 >= 8
      /\ r.p_no = s.p_no /\ r.prim_parts = s.prim_parts /\ r.panic = s.panic
      /\ r.buffers = s.buffers /\ r.ext_lba_base = s.ext_lba_base
  <2>1. PICK entry, lba : entry = Entry("prim", 1) /\ lba = Record(k)
    OBVIOUS
  <2>2. r = Logical(s, entry, lba)
    BY <2>1, Zenon
  <2>3. lba \in Nat /\ entry.start \in Nat
    BY <1>4, <2>1
  <2>4. LogicalAdded(s, r, lba + entry.start)
    <3>1. Named(s) /\ s.p_no <= 4 /\ s \in Scans
      BY <1>3, <1>5
    <3>. QED  BY <2>2, <2>3, <3>1, LogicalListed, Zenon
  <2>5. LogicalAdded(s, r, Record(k) + Entry("prim", 1).start)
    BY <2>1, <2>4, Zenon
  <2>. QED  BY <2>5, Zenon DEF LogicalAdded
<1>7. Len(s.logic_parts) = l
  BY <1>3 DEF Named, Listing
<1>8. PICK x : x = Record(k) + 1
  OBVIOUS
<1>9. r.logic_parts = Append(s.logic_parts, x)
  BY <1>4, <1>6, <1>8
<1>10. /\ \A j \in 1 .. l : r.logic_parts[j] = s.logic_parts[j]
       /\ r.logic_parts[l + 1] = x
  <2>1. PICK N : N = Nat
    OBVIOUS
  <2>2. s.logic_parts \in Seq(N) /\ x \in N
    BY <1>4, <1>5, <1>8, <2>1
  <2>3. /\ \A j \in 1 .. Len(s.logic_parts) : Append(s.logic_parts, x)[j] = s.logic_parts[j]
        /\ Append(s.logic_parts, x)[Len(s.logic_parts) + 1] = x
    BY <2>2, ListOneMore
  <2>. QED  BY <1>7, <1>9, <2>3
<1>11. \A j \in 1 .. l + 1 : r.logic_parts[j] = Record(Lost(disk) + j) + 1
  <2>. TAKE j \in 1 .. l + 1
  <2>1. CASE j \in 1 .. l
    BY <1>3, <1>10, <2>1
  <2>2. CASE j = l + 1
    BY <1>2, <1>8, <1>10, <2>2
  <2>. QED  BY <1>2, <2>1, <2>2
<1>12. r.leave <=> l + 1 = 8
  <2>1. l + 1 <= 8
    BY <1>2 DEF l
  <2>. QED  BY <1>2, <1>3, <1>6, <2>1
<1>. QED  BY <1>2, <1>3, <1>6, <1>11, <1>12

\* One record, if the call for the next one walks the rest of the chain.
LEMMA WalkRecord ==
    ASSUME NEW disk, NEW n, Chained(disk, n), NEW k \in 1 .. n, NEW inner,
           k + 1 <= n => \A t : ScanHas(disk, t, Taken(disk, k)) /\ Taken(disk, k) < 8 /\ t.ext_lba_base = Ext =>
                            Walked(disk, n, t, inner[<<Record(k + 1), t>>]),
           NEW s, ScanHas(disk, s, Taken(disk, k - 1)), Taken(disk, k - 1) < 8, s.ext_lba_base = Ext
    PROVE  Walked(disk, n, s, ScanTable(disk, Record(k), s, inner))
<1>1. PICK lba, e : lba = Record(k) /\ e = Table(disk, lba)
  OBVIOUS
<1>2. PICK t0 : t0 = [s EXCEPT !.buffers = @ + 1]
  OBVIOUS
<1>3. PICK t1, t2, t3, t4 : /\ t1 = Turn(t0, e[1], lba, inner) /\ t2 = Turn(t1, e[2], lba, inner)
                            /\ t3 = Turn(t2, e[3], lba, inner) /\ t4 = Turn(t3, e[4], lba, inner)
  OBVIOUS
<1>4. PICK r : r = Left(t4)
  OBVIOUS
<1>5. ScanTable(disk, Record(k), s, inner) = r
  BY <1>1, <1>2, <1>3, <1>4, Turns
<1>6. /\ e[1] = IF disk.chain[k] = "first" THEN Entry("prim", 1) ELSE Entry("none", 0)
      /\ e[2] = IF k + 1 <= n THEN Entry("ext", Record(k + 1) - Ext) ELSE Entry("none", 0)
      /\ e[3] = Entry("none", 0) /\ e[4] = Entry("none", 0)
  BY <1>1, TableAt
<1>7. k \in Nat \ {0} /\ n \in Nat /\ lba \in Nat /\ lba # 0 /\ Record(k + 1) \in Nat /\ Record(k + 1) >= Ext
      /\ Ext \in Nat
  <2>1. k \in Nat \ {0} /\ k + 1 \in Nat \ {0} /\ n \in Nat
    BY TakenSteps
  <2>. QED  BY <1>1, <2>1, Records, PartitionAssumption
<1>8. s \in Scans /\ ~s.leave /\ ~s.panic /\ s.buffers \in Nat
  BY ScanTypes DEF ScanHas
<1>9. ScanHas(disk, t0, Taken(disk, k - 1)) /\ t0.buffers = s.buffers + 1 /\ t0.ext_lba_base = Ext
      /\ t0.p_no = s.p_no /\ t0.prim_parts = s.prim_parts
  BY <1>2, <1>8, BufferTaken DEF ScanHas, Named
<1>10. t3 = t2 /\ t4 = t2
  <2>1. e[3].type = "none" /\ e[4].type = "none"
    BY <1>6 DEF Entry
  <2>2. t3 = t2
    BY <1>3, <2>1, TurnIdle
  <2>3. t4 = t3
    BY <1>3, <2>1, TurnIdle
  <2>. QED  BY <2>2, <2>3
<1>11. CASE disk.chain[k] = "first" /\ Taken(disk, k) = 8
  <2>1. t1 = Logical(t0, Entry("prim", 1), Record(k))
    <3>1. e[1] = Entry("prim", 1) /\ e[1].type = "prim"
      BY <1>6, <1>11 DEF Entry
    <3>2. ~t0.leave /\ ~t0.panic
      BY <1>9 DEF ScanHas
    <3>. QED  BY <1>1, <1>3, <1>7, <3>1, <3>2, TurnPartition
  <2>2. /\ t1 \in Scans /\ Named(t1) /\ ~t1.panic /\ t1.l_no = 8 /\ t1.leave
        /\ t1.p_no = s.p_no /\ t1.prim_parts = s.prim_parts
        /\ t1.buffers = s.buffers + 1 /\ t1.ext_lba_base = Ext
        /\ \A j \in 1 .. 8 : t1.logic_parts[j] = Record(Lost(disk) + j) + 1
    BY <1>9, <1>11, <2>1, FoundLogical
  <2>3. t2 = t1
    BY <1>3, <2>2, TurnIdle
  <2>4. /\ r \in Scans /\ r.buffers = t1.buffers
        /\ r.ext_lba_base = t1.ext_lba_base /\ r.p_no = t1.p_no /\ r.l_no = t1.l_no
        /\ r.prim_parts = t1.prim_parts /\ r.logic_parts = t1.logic_parts /\ r.names = t1.names
        /\ ~r.leave /\ ~r.panic
    BY <1>4, <1>10, <2>2, <2>3, CallLeft
  <2>5. Most(disk, n) = 8
    BY <1>11, TakenSteps
  <2>6. s.p_no <= 3
    BY DEF ScanHas
  <2>7. ScanHas(disk, r, 8)
    BY <2>2, <2>4, <2>6 DEF ScanHas, Named
  <2>. QED  BY <1>5, <2>2, <2>4, <2>5, <2>7 DEF Walked
<1>12. CASE ~(disk.chain[k] = "first" /\ Taken(disk, k) = 8)
  <2>1. ScanHas(disk, t1, Taken(disk, k)) /\ Taken(disk, k) < 8 /\ Taken(disk, k) \in Nat
        /\ t1.buffers = s.buffers + 1 /\ t1.ext_lba_base = Ext
        /\ t1.p_no = s.p_no /\ t1.prim_parts = s.prim_parts
    <3>1. Taken(disk, k) \in Nat /\ Taken(disk, k - 1) \in Nat
          /\ Taken(disk, k) = IF disk.chain[k] = "first" THEN Taken(disk, k - 1) + 1 ELSE Taken(disk, k - 1)
      BY <1>7, TakenSteps
    <3>2. CASE disk.chain[k] = "first"
      <4>1. t1 = Logical(t0, Entry("prim", 1), Record(k))
        <5>1. e[1] = Entry("prim", 1) /\ e[1].type = "prim"
          BY <1>6, <3>2 DEF Entry
        <5>2. ~t0.leave /\ ~t0.panic
          BY <1>9 DEF ScanHas
        <5>. QED  BY <1>1, <1>3, <1>7, <5>1, <5>2, TurnPartition
      <4>2. /\ t1 \in Scans /\ Named(t1) /\ ~t1.panic /\ t1.l_no = Taken(disk, k)
            /\ t1.leave <=> Taken(disk, k) = 8
            /\ t1.p_no = t0.p_no /\ t1.prim_parts = t0.prim_parts
            /\ t1.buffers = t0.buffers /\ t1.ext_lba_base = t0.ext_lba_base
            /\ \A j \in 1 .. Taken(disk, k) : t1.logic_parts[j] = Record(Lost(disk) + j) + 1
        BY <1>9, <3>2, <4>1, FoundLogical
      <4>3. s.p_no <= 3
        BY DEF ScanHas
      <4>4. Taken(disk, k) < 8
        BY <1>12, <3>1, <3>2
      <4>5. ScanHas(disk, t1, Taken(disk, k))
        BY <1>9, <1>12, <3>2, <4>2, <4>3 DEF ScanHas
      <4>. QED  BY <1>9, <3>1, <4>2, <4>4, <4>5
    <3>3. CASE disk.chain[k] # "first"
      <4>1. e[1].type = "none"
        BY <1>6, <3>3 DEF Entry
      <4>2. t1 = t0
        BY <1>3, <4>1, TurnIdle
      <4>. QED  BY <1>9, <3>1, <3>3, <4>2
    <3>. QED  BY <3>2, <3>3
  <2>2. t1 \in Scans /\ ~t1.leave /\ ~t1.panic
    BY <2>1 DEF ScanHas
  <2>3. CASE k + 1 <= n
    <3>1. t2 = Extended(t1, e[2], lba, inner)
      <4>1. e[2].type = "ext"
        BY <1>6, <2>3 DEF Entry
      <4>. QED  BY <1>3, <2>2, <4>1, TurnExtended
    <3>2. Linked(t1, e[2], lba) = Record(k + 1) /\ t1.ext_lba_base # 0
      <4>1. e[2].start = Record(k + 1) - Ext
        BY <1>6, <2>3 DEF Entry
      <4>2. Ext # 0
        BY PartitionAssumption
      <4>. QED  BY <1>7, <2>1, <4>1, <4>2 DEF Linked
    <3>3. t2 = inner[<<Record(k + 1), t1>>]
      BY <3>1, <3>2 DEF Extended
    <3>4. Walked(disk, n, t1, t2)
      BY <2>1, <2>3, <3>3
    <3>5. t2 \in Scans /\ ~t2.panic /\ ~t2.leave /\ t2.buffers > 0 /\ t2.buffers \in Nat
      <4>1. t2 \in Scans /\ ~t2.panic /\ ~t2.leave
        BY <3>4 DEF Walked, ScanHas
      <4>2. t2.buffers = IF Most(disk, n) = 8 THEN t1.buffers + 1 ELSE t1.buffers
        BY <3>4 DEF Walked
      <4>. QED  BY <1>8, <2>1, <4>1, <4>2
    <3>6. /\ r \in Scans /\ r.buffers = t2.buffers - 1
          /\ r.ext_lba_base = t2.ext_lba_base /\ r.p_no = t2.p_no /\ r.l_no = t2.l_no
          /\ r.prim_parts = t2.prim_parts /\ r.logic_parts = t2.logic_parts /\ r.names = t2.names
          /\ ~r.leave /\ ~r.panic
      BY <1>4, <1>10, <3>5, CallLeft
    <3>7. ScanHas(disk, r, Most(disk, n))
      <4>1. ScanHas(disk, t2, Most(disk, n))
        BY <3>4 DEF Walked
      <4>. QED  BY <3>6, <4>1 DEF ScanHas, Named
    <3>8. /\ t2.p_no = t1.p_no /\ t2.prim_parts = t1.prim_parts /\ t2.ext_lba_base = t1.ext_lba_base
          /\ t2.buffers = IF Most(disk, n) = 8 THEN t1.buffers + 1 ELSE t1.buffers
      BY <3>4 DEF Walked
    <3>9. r.buffers = IF Most(disk, n) = 8 THEN s.buffers + 1 ELSE s.buffers
      BY <1>8, <2>1, <3>6, <3>8
    <3>. QED  BY <1>5, <2>1, <3>6, <3>7, <3>8, <3>9 DEF Walked
  <2>4. CASE ~(k + 1 <= n)
    <3>1. k = n
      BY <1>7, <2>4
    <3>2. t2 = t1
      <4>1. e[2].type = "none"
        BY <1>6, <2>4 DEF Entry
      <4>. QED  BY <1>3, <4>1, TurnIdle
    <3>3. Most(disk, n) = Taken(disk, k) /\ Most(disk, n) # 8
      <4>1. Taken(disk, n) < 8
        BY <2>1, <3>1
      <4>2. Most(disk, n) = Taken(disk, n)
        BY <4>1, TakenSteps
      <4>. QED  BY <2>1, <3>1, <4>2
    <3>4. /\ r \in Scans /\ r.buffers = t1.buffers - 1
          /\ r.ext_lba_base = t1.ext_lba_base /\ r.p_no = t1.p_no /\ r.l_no = t1.l_no
          /\ r.prim_parts = t1.prim_parts /\ r.logic_parts = t1.logic_parts /\ r.names = t1.names
          /\ ~r.leave /\ ~r.panic
      <4>1. t1.buffers > 0
        BY <1>8, <2>1
      <4>. QED  BY <1>4, <1>10, <2>2, <3>2, <4>1, CallLeft
    <3>5. ScanHas(disk, r, Most(disk, n))
      BY <2>1, <3>3, <3>4 DEF ScanHas, Named
    <3>6. r.buffers = s.buffers
      BY <1>8, <2>1, <3>4
    <3>. QED  BY <1>5, <2>1, <3>3, <3>4, <3>5, <3>6 DEF Walked
  <2>. QED  BY <2>3, <2>4
<1>. QED  BY <1>11, <1>12

\* One call is partition_scan's loop over the four entries, with the deeper calls in it.
LEMMA CallAt ==
    ASSUME NEW disk, NEW call, Calls(disk, call), NEW d \in 1 .. MaxChain + 1,
           NEW lba \in Nat, NEW s \in Scans
    PROVE  call[d][<<lba, s>>] = ScanTable(disk, lba, s, call[d - 1])
<1>1. d \in 0 .. MaxChain + 1 /\ d # 0
  OBVIOUS
<1>2. PICK at : at = <<lba, s>>
  OBVIOUS
<1>3. at \in Nat \X Scans /\ at[1] = lba /\ at[2] = s
  BY <1>2
<1>. HIDE DEF Scans
<1>4. call[d] = [x \in Nat \X Scans |-> IF d = 0 THEN [x[2] EXCEPT !.panic = TRUE]
                                        ELSE ScanTable(disk, x[1], x[2], call[d - 1])]
  BY <1>1, Zenon DEF Calls
<1>5. call[d][at] = IF d = 0 THEN [at[2] EXCEPT !.panic = TRUE]
                    ELSE ScanTable(disk, at[1], at[2], call[d - 1])
  BY <1>3, <1>4, Zenon
<1>. QED  BY <1>1, <1>2, <1>3, <1>5, Zenon

\* A call that may go d levels deep and is given record k walks the rest of the chain.
Walks(disk, n, call, d, k) ==
    \A s : ScanHas(disk, s, Taken(disk, k - 1)) /\ Taken(disk, k - 1) < 8 /\ s.ext_lba_base = Ext =>
              Walked(disk, n, s, call[d][<<Record(k), s>>])

\* By induction over the records that are left: a call of a record walks the chain to its
\* end.
LEMMA Walk ==
    ASSUME NEW disk, NEW n, Chained(disk, n), NEW call, Calls(disk, call)
    PROVE  \A k \in 1 .. n : \A d \in 0 .. MaxChain + 1 : d > n - k => Walks(disk, n, call, d, k)
<1>1. n \in Nat /\ MaxChain \in Nat
  BY TakenSteps, PartitionAssumption
<1>. DEFINE T == {j \in Nat : \A k \in 1 .. n : k + j = n =>
                     \A d \in 0 .. MaxChain + 1 : d > j => Walks(disk, n, call, d, k)}
<1>2. ASSUME NEW k \in 1 .. n, NEW d \in 1 .. MaxChain + 1,
             k + 1 <= n => Walks(disk, n, call, d - 1, k + 1)
      PROVE  Walks(disk, n, call, d, k)
  <2>1. k \in Nat /\ (k + 1) - 1 = k /\ k \in Nat \ {0}
    BY <1>1
  <2>2. k + 1 <= n => \A t : ScanHas(disk, t, Taken(disk, k)) /\ Taken(disk, k) < 8 /\ t.ext_lba_base = Ext =>
                                Walked(disk, n, t, call[d - 1][<<Record(k + 1), t>>])
    BY <1>2, <2>1 DEF Walks
  <2>. SUFFICES ASSUME NEW s, ScanHas(disk, s, Taken(disk, k - 1)), Taken(disk, k - 1) < 8, s.ext_lba_base = Ext
                PROVE  Walked(disk, n, s, call[d][<<Record(k), s>>])
    BY DEF Walks
  <2>3. s \in Scans /\ Record(k) \in Nat
    BY <2>1, Records DEF ScanHas
  <2>4. call[d][<<Record(k), s>>] = ScanTable(disk, Record(k), s, call[d - 1])
    BY <2>3, CallAt
  <2>5. PICK inner : inner = call[d - 1]
    OBVIOUS
  <2>6. Walked(disk, n, s, ScanTable(disk, Record(k), s, inner))
    BY <2>2, <2>5, WalkRecord
  <2>. QED  BY <2>4, <2>5, <2>6
<1>3. 0 \in T
  <2>1. ASSUME NEW k \in 1 .. n, k + 0 = n, NEW d \in 0 .. MaxChain + 1, d > 0
        PROVE  Walks(disk, n, call, d, k)
    <3>1. d \in 1 .. MaxChain + 1 /\ ~(k + 1 <= n)
      BY <1>1, <2>1
    <3>. QED  BY <1>2, <3>1
  <2>. QED  BY <2>1
<1>4. ASSUME NEW j \in T
      PROVE  j + 1 \in T
  <2>1. ASSUME NEW k \in 1 .. n, k + (j + 1) = n, NEW d \in 0 .. MaxChain + 1, d > j + 1
        PROVE  Walks(disk, n, call, d, k)
    <3>1. d \in 1 .. MaxChain + 1 /\ d - 1 \in 0 .. MaxChain + 1 /\ k + 1 \in 1 .. n /\ (k + 1) + j = n /\ d - 1 > j
      BY <1>1, <2>1
    <3>2. Walks(disk, n, call, d - 1, k + 1)
      BY <3>1
    <3>. QED  BY <1>2, <3>1, <3>2
  <2>. QED  BY <2>1
<1>5. \A j \in Nat : j \in T
  <2>1. T \in SUBSET Nat
    OBVIOUS
  <2>. HIDE DEF T
  <2>. QED  BY <1>3, <1>4, <2>1, Induction
<1>6. ASSUME NEW k \in 1 .. n, NEW d \in 0 .. MaxChain + 1, d > n - k
      PROVE  Walks(disk, n, call, d, k)
  <2>1. n - k \in Nat /\ k + (n - k) = n
    BY <1>1
  <2>2. n - k \in T
    <3>. HIDE DEF T
    <3>. QED  BY <1>5, <2>1
  <2>. QED  BY <1>6, <2>1, <2>2
<1>. QED  BY <1>6

\* A greater number at the end keeps a sequence ascending.
LEMMA AscendingOneMore ==
    ASSUME NEW S, NEW q \in Seq(Nat), Ascending(q, S), NEW x \in Nat, \A y \in S : y < x
    PROVE  Ascending(Append(q, x), S \cup {x})
<1>1. PICK n, r : n = Len(q) /\ r = Append(q, x)
  OBVIOUS
<1>2. /\ n \in Nat /\ r \in Seq(Nat) /\ Len(r) = n + 1
      /\ \A i \in 1 .. n : r[i] = q[i]
      /\ r[n + 1] = x
  <2>1. PICK N, y : N = Nat /\ y = x
    OBVIOUS
  <2>2. q \in Seq(N) /\ y \in N
    BY <2>1
  <2>3. /\ Len(q) \in Nat /\ Append(q, y) \in Seq(N) /\ Len(Append(q, y)) = Len(q) + 1
        /\ \A i \in 1 .. Len(q) : Append(q, y)[i] = q[i]
        /\ Append(q, y)[Len(q) + 1] = y
    BY <2>2, ListOneMore
  <2>. QED  BY <1>1, <2>1, <2>3
<1>3. DOMAIN q = 1 .. n /\ DOMAIN r = 1 .. n + 1
  BY <1>1, <1>2, LenProperties
<1>4. 1 .. n + 1 = (1 .. n) \cup {n + 1}
  BY <1>2, IntervalGrows
<1>5. /\ \A i, j \in 1 .. n : i < j => q[i] < q[j]
      /\ {q[i] : i \in 1 .. n} = S
  BY <1>3 DEF Ascending
<1>6. \A i \in 1 .. n : q[i] \in S
  BY <1>5
<1>7. \A i, j \in (1 .. n) \cup {n + 1} : i < j => r[i] < r[j]
  <2>. TAKE i, j \in (1 .. n) \cup {n + 1}
  <2>. SUFFICES ASSUME i < j PROVE r[i] < r[j]
    OBVIOUS
  <2>1. CASE j \in 1 .. n
    <3>1. i \in 1 .. n
      BY <1>2, <2>1
    <3>. QED  BY <1>2, <1>5, <2>1, <3>1
  <2>2. CASE j = n + 1
    <3>1. i \in 1 .. n
      BY <1>2, <2>2
    <3>2. r[i] = q[i] /\ q[i] < x /\ r[j] = x
      BY <1>2, <1>6, <2>2, <3>1
    <3>. QED  BY <3>2
  <2>. QED  BY <2>1, <2>2
<1>8. {r[i] : i \in (1 .. n) \cup {n + 1}} = S \cup {x}
  BY <1>2, <1>5
<1>. QED  BY <1>1, <1>3, <1>4, <1>7, <1>8 DEF Ascending

-----------------------------------------------------------------------------
(* The boot record. *)

\* A layout whose chain has n records.
Laid(disk, n) ==
    /\ Chained(disk, n)
    /\ \A i \in Slots : disk.mbr[i] \in Types
    /\ \A i, j \in Slots : disk.mbr[i] = "ext" /\ disk.mbr[j] = "ext" => i = j

\* What the first i entries of the boot record are.
PrimsTo(disk, i) == {j \in 1 .. i : disk.mbr[j] = "prim"}
SeenTo(disk, i) == \E j \in 1 .. i : disk.mbr[j] = "ext"
FoundTo(disk, n, i) == IF SeenTo(disk, i) THEN Most(disk, n) ELSE 0

\* The scan after i turns of the outermost call.
AtSlot(disk, n, s, i) ==
    /\ s \in Scans /\ Named(s) /\ ~s.leave
    /\ Ascending(s.prim_parts, {PrimStart(j) : j \in PrimsTo(disk, i)})
    /\ s.p_no <= i /\ (s.p_no = i <=> \A j \in 1 .. i : disk.mbr[j] = "prim")
    /\ s.panic <=> s.p_no = 4
    /\ SeenTo(disk, i) \/ s.ext_lba_base = 0
    /\ s.l_no = FoundTo(disk, n, i)
    /\ \A j \in 1 .. s.l_no : s.logic_parts[j] = Record(Lost(disk) + j) + 1
    /\ s.buffers = IF FoundTo(disk, n, i) = 8 THEN 2 ELSE 1

\* What the boot record holds up to one more slot.
LEMMA SlotsTo ==
    ASSUME NEW disk, NEW i \in 0 .. 3
    PROVE  /\ PrimsTo(disk, i + 1) = IF disk.mbr[i + 1] = "prim" THEN PrimsTo(disk, i) \cup {i + 1}
                                     ELSE PrimsTo(disk, i)
           /\ SeenTo(disk, i + 1) <=> SeenTo(disk, i) \/ disk.mbr[i + 1] = "ext"
           /\ (\A j \in 1 .. i + 1 : disk.mbr[j] = "prim")
                 <=> (\A j \in 1 .. i : disk.mbr[j] = "prim") /\ disk.mbr[i + 1] = "prim"
<1>1. 1 .. i + 1 = (1 .. i) \cup {i + 1}
  OBVIOUS
<1>2. PICK k : k = i + 1
  OBVIOUS
<1>. QED  BY <1>1 DEF PrimsTo, SeenTo

\* The entries of the boot record.
LEMMA BootEntry ==
    ASSUME NEW disk, NEW n, Laid(disk, n), NEW i \in Slots, NEW e, e = Table(disk, 0)
    PROVE  e[i] = Entry(disk.mbr[i], IF disk.mbr[i] = "ext" THEN Ext ELSE PrimStart(i))
<1>1. \A j \in Slots : 0 = 0 => e[j] = Entry(disk.mbr[j], StartOf(disk, j))
  BY DEF Table
<1>2. StartOf(disk, i) = IF disk.mbr[i] = "ext" THEN Ext ELSE PrimStart(i)
  <2>1. disk.mbr[i] = "ext" => ~\E j \in ExtendedSlots(disk) : j < i
    BY DEF Laid, ExtendedSlots, Slots
  <2>. QED  BY <2>1 DEF StartOf
<1>. QED  BY <1>1, <1>2

\* The scan begins with nothing listed.
LEMMA StartTypes ==
    /\ Start \in Scans
    /\ Start.ext_lba_base = 0 /\ Start.p_no = 0 /\ Start.l_no = 0 /\ Start.buffers = 0
    /\ Start.prim_parts = <<>> /\ Start.logic_parts = <<>> /\ Start.names = <<>>
    /\ Start.leave = FALSE /\ Start.panic = FALSE
<1>1. PICK P, Q, none : P = Seq(Nat) /\ Q = Seq(Nat \X Nat) /\ none = <<>>
  OBVIOUS
<1>2. none \in P /\ none \in Q
  BY <1>1
<1>3. Scans = [ext_lba_base : Nat, p_no : Nat, l_no : Nat, prim_parts : P, logic_parts : P,
               names : Q, buffers : Nat, leave : BOOLEAN, panic : BOOLEAN]
  BY <1>1 DEF Scans
<1>4. Start = [ext_lba_base |-> 0, p_no |-> 0, l_no |-> 0, prim_parts |-> none, logic_parts |-> none,
               names |-> none, buffers |-> 0, leave |-> FALSE, panic |-> FALSE]
  BY <1>1 DEF Start
<1>5. PICK s : s = Start
  OBVIOUS
<1>6. s = [ext_lba_base |-> 0, p_no |-> 0, l_no |-> 0, prim_parts |-> none, logic_parts |-> none,
           names |-> none, buffers |-> 0, leave |-> FALSE, panic |-> FALSE]
  BY <1>4, <1>5
<1>7. s \in Scans
  BY <1>2, <1>3, <1>6
<1>8. /\ s.ext_lba_base = 0 /\ s.p_no = 0 /\ s.l_no = 0 /\ s.buffers = 0
      /\ s.prim_parts = none /\ s.logic_parts = none /\ s.names = none
      /\ s.leave = FALSE /\ s.panic = FALSE
  BY <1>6
<1>. QED  BY <1>1, <1>5, <1>7, <1>8

\* Nothing is found before the first slot.
LEMMA BootStart ==
    ASSUME NEW disk, NEW n, Laid(disk, n), NEW t0, t0 = [Start EXCEPT !.buffers = @ + 1]
    PROVE  AtSlot(disk, n, t0, 0)
<1>1. 1 .. 0 = {}
  OBVIOUS
<1>2. PrimsTo(disk, 0) = {} /\ ~SeenTo(disk, 0) /\ FoundTo(disk, n, 0) = 0
  BY <1>1 DEF PrimsTo, SeenTo, FoundTo
<1>3. PICK none : none = <<>>
  OBVIOUS
<1>4. none \in Seq(Nat) /\ none \in Seq(Nat \X Nat) /\ Len(none) = 0 /\ DOMAIN none = {}
  BY <1>3
<1>5. PICK s : s = Start
  OBVIOUS
<1>8. /\ t0.ext_lba_base = 0 /\ t0.p_no = 0 /\ t0.l_no = 0 /\ t0.prim_parts = none /\ t0.logic_parts = none
      /\ t0.names = none /\ t0.buffers = 1 /\ t0.leave = FALSE /\ t0.panic = FALSE /\ t0 \in Scans
  <2>1. /\ s.ext_lba_base = 0 /\ s.p_no = 0 /\ s.l_no = 0 /\ s.prim_parts = none /\ s.logic_parts = none
        /\ s.names = none /\ s.buffers = 0 /\ s.leave = FALSE /\ s.panic = FALSE
    BY <1>3, <1>5, StartTypes
  <2>2. t0 = [s EXCEPT !.buffers = @ + 1]
    BY <1>5
  <2>3. /\ t0 \in Scans /\ t0.buffers = s.buffers + 1
        /\ t0.ext_lba_base = s.ext_lba_base /\ t0.p_no = s.p_no /\ t0.l_no = s.l_no
        /\ t0.prim_parts = s.prim_parts /\ t0.logic_parts = s.logic_parts /\ t0.names = s.names
        /\ t0.leave = s.leave /\ t0.panic = s.panic
    <3>1. s \in Scans
      BY <1>5, StartTypes
    <3>. QED  BY <2>2, <3>1, BufferTaken
  <2>. QED  BY <2>1, <2>3
<1>9. Named(t0)
  <2>1. Starts(none) = {} /\ Elements(none) = {}
    BY <1>1, <1>4 DEF Starts, Elements
  <2>2. \A N : Numbered(none, N)
    BY <1>1, <1>4 DEF Numbered
  <2>3. Listing(0, 0, none, none, none)
    BY <1>4, <2>1, <2>2 DEF Listing
  <2>. QED  BY <1>8, <2>3 DEF Named
<1>10. Ascending(none, {PrimStart(j) : j \in PrimsTo(disk, 0)})
  BY <1>2, <1>4 DEF Ascending
<1>. QED  BY <1>1, <1>2, <1>8, <1>9, <1>10 DEF AtSlot

\* An empty slot adds nothing.
LEMMA BootEmpty ==
    ASSUME NEW disk, NEW n, Laid(disk, n), NEW i \in 0 .. 3, NEW s, AtSlot(disk, n, s, i),
           disk.mbr[i + 1] = "none"
    PROVE  AtSlot(disk, n, s, i + 1)
<1>1. /\ PrimsTo(disk, i + 1) = PrimsTo(disk, i)
      /\ SeenTo(disk, i + 1) <=> SeenTo(disk, i)
      /\ ~(\A j \in 1 .. i + 1 : disk.mbr[j] = "prim")
  BY SlotsTo
<1>2. FoundTo(disk, n, i + 1) = FoundTo(disk, n, i)
  BY <1>1 DEF FoundTo
<1>3. s.p_no <= i + 1 /\ s.p_no # i + 1
  <2>1. s.p_no \in Nat /\ s.p_no <= i
    BY ScanTypes DEF AtSlot
  <2>. QED  BY <2>1
<1>. QED  BY <1>1, <1>2, <1>3 DEF AtSlot

\* A primary partition in the boot record adds itself, and the fourth one a panic.
LEMMA BootPrimary ==
    ASSUME NEW disk, NEW n, Laid(disk, n), NEW i \in 0 .. 3, NEW s, AtSlot(disk, n, s, i),
           disk.mbr[i + 1] = "prim",
           NEW r, r = Primary(s, Entry("prim", PrimStart(i + 1)))
    PROVE  AtSlot(disk, n, r, i + 1)
<1>1. /\ PrimsTo(disk, i + 1) = PrimsTo(disk, i) \cup {i + 1}
      /\ SeenTo(disk, i + 1) <=> SeenTo(disk, i)
      /\ (\A j \in 1 .. i + 1 : disk.mbr[j] = "prim") <=> (\A j \in 1 .. i : disk.mbr[j] = "prim")
  BY SlotsTo
<1>2. FoundTo(disk, n, i + 1) = FoundTo(disk, n, i)
  BY <1>1 DEF FoundTo
<1>3. PICK p, x, entry : p = s.p_no /\ x = PrimStart(i + 1) /\ entry = Entry("prim", x)
  OBVIOUS
<1>4. s \in Scans /\ Named(s) /\ p \in Nat /\ p <= i /\ p < 4 /\ x \in Nat /\ entry.start = x
      /\ s.prim_parts \in Seq(Nat)
  <2>1. s \in Scans /\ Named(s) /\ s.p_no <= i
    BY DEF AtSlot
  <2>2. x \in Nat /\ entry.start = x
    BY <1>3 DEF PrimStart, Entry
  <2>. QED  BY <1>3, <2>1, <2>2, ScanTypes
<1>5. /\ r \in Scans /\ Named(r)
      /\ r.p_no = s.p_no + 1 /\ r.prim_parts = Append(s.prim_parts, entry.start)
      /\ r.panic <=> s.p_no + 1 >= 4
      /\ r.l_no = s.l_no /\ r.logic_parts = s.logic_parts /\ r.leave = s.leave
      /\ r.buffers = s.buffers /\ r.ext_lba_base = s.ext_lba_base
  <2>1. r = Primary(s, entry) /\ entry.start \in Nat /\ s.p_no < 4
    BY <1>3, <1>4
  <2>. QED  BY <1>4, <2>1, PrimaryListed
<1>6. Ascending(r.prim_parts, {PrimStart(j) : j \in PrimsTo(disk, i + 1)})
  <2>. DEFINE S == {PrimStart(j) : j \in PrimsTo(disk, i)}
  <2>1. Ascending(s.prim_parts, S)
    BY DEF AtSlot
  <2>2. \A y \in S : y < x
    <3>1. \A j \in 1 .. i : PrimStart(j) < PrimStart(i + 1)
      BY DEF PrimStart
    <3>. QED  BY <1>3, <3>1 DEF PrimsTo
  <2>3. S \cup {x} = {PrimStart(j) : j \in PrimsTo(disk, i + 1)}
    BY <1>1, <1>3
  <2>. HIDE DEF S
  <2>4. Ascending(Append(s.prim_parts, x), S \cup {x})
    BY <1>4, <2>1, <2>2, AscendingOneMore
  <2>. QED  BY <1>4, <1>5, <2>3, <2>4
<1>7. /\ r.p_no <= i + 1 /\ (r.p_no = i + 1 <=> \A j \in 1 .. i + 1 : disk.mbr[j] = "prim")
      /\ r.panic <=> r.p_no = 4
  <2>1. p = i <=> \A j \in 1 .. i : disk.mbr[j] = "prim"
    BY <1>3 DEF AtSlot
  <2>2. r.p_no = p + 1 /\ (r.panic <=> p + 1 >= 4)
    BY <1>3, <1>5
  <2>3. p + 1 >= 4 <=> p + 1 = 4
    BY <1>4
  <2>4. p + 1 <= i + 1 /\ (p + 1 = i + 1 <=> p = i)
    BY <1>4
  <2>. QED  BY <1>1, <2>1, <2>2, <2>3, <2>4
<1>8. /\ ~s.leave
      /\ SeenTo(disk, i) \/ s.ext_lba_base = 0
      /\ s.l_no = FoundTo(disk, n, i)
      /\ \A j \in 1 .. s.l_no : s.logic_parts[j] = Record(Lost(disk) + j) + 1
      /\ s.buffers = IF FoundTo(disk, n, i) = 8 THEN 2 ELSE 1
  BY DEF AtSlot
<1>9. /\ ~r.leave
      /\ SeenTo(disk, i + 1) \/ r.ext_lba_base = 0
      /\ r.l_no = FoundTo(disk, n, i + 1)
      /\ \A j \in 1 .. r.l_no : r.logic_parts[j] = Record(Lost(disk) + j) + 1
      /\ r.buffers = IF FoundTo(disk, n, i + 1) = 8 THEN 2 ELSE 1
  BY <1>1, <1>2, <1>5, <1>8
<1>. QED  BY <1>5, <1>6, <1>7, <1>9 DEF AtSlot

\* The extended partition adds the logical ones of its chain.
LEMMA BootExtended ==
    ASSUME NEW disk, NEW n, Laid(disk, n), NEW call, Calls(disk, call),
           NEW i \in 0 .. 3, NEW s, AtSlot(disk, n, s, i), disk.mbr[i + 1] = "ext",
           NEW r, r = Extended(s, Entry("ext", Ext), 0, call[MaxChain])
    PROVE  AtSlot(disk, n, r, i + 1)
<1>1. /\ PrimsTo(disk, i + 1) = PrimsTo(disk, i)
      /\ SeenTo(disk, i + 1)
      /\ ~(\A j \in 1 .. i + 1 : disk.mbr[j] = "prim")
  BY SlotsTo
<1>2. ~SeenTo(disk, i)
  <2>1. i + 1 \in Slots /\ \A j \in 1 .. i : j \in Slots /\ j # i + 1
    BY DEF Slots
  <2>. QED  BY <2>1 DEF SeenTo, Laid
<1>3. FoundTo(disk, n, i + 1) = Most(disk, n) /\ FoundTo(disk, n, i) = 0
  BY <1>1, <1>2 DEF FoundTo
<1>4. /\ s \in Scans /\ Named(s) /\ ~s.leave /\ ~s.panic /\ s.ext_lba_base = 0 /\ s.l_no = 0
      /\ s.buffers = 1 /\ s.p_no \in Nat /\ s.p_no <= i /\ s.p_no <= 3
  <2>1. /\ s \in Scans /\ Named(s) /\ ~s.leave /\ s.ext_lba_base = 0 /\ s.l_no = 0
        /\ s.buffers = 1 /\ s.p_no <= i /\ (s.panic <=> s.p_no = 4)
    BY <1>2, <1>3 DEF AtSlot
  <2>2. s.p_no \in Nat
    BY <2>1, ScanTypes
  <2>3. s.p_no <= 3 /\ s.p_no # 4
    BY <2>1, <2>2
  <2>. QED  BY <2>1, <2>2, <2>3
<1>5. PICK t : t = [s EXCEPT !.ext_lba_base = Ext]
  OBVIOUS
<1>6. /\ t \in Scans /\ t.ext_lba_base = Ext /\ t.p_no = s.p_no /\ t.l_no = s.l_no
      /\ t.prim_parts = s.prim_parts /\ t.logic_parts = s.logic_parts /\ t.names = s.names
      /\ t.leave = s.leave /\ t.panic = s.panic /\ t.buffers = s.buffers
  BY <1>4, <1>5, PartitionAssumption DEF Scans
<1>7. ScanHas(disk, t, 0)
  <2>1. Named(t)
    BY <1>4, <1>6 DEF Named
  <2>. QED  BY <1>4, <1>6, <2>1 DEF ScanHas
<1>8. r = call[MaxChain][<<Record(1), t>>]
  <2>1. PICK entry, inner : entry = Entry("ext", Ext) /\ inner = call[MaxChain]
    OBVIOUS
  <2>2. entry.start = Ext
    BY <2>1 DEF Entry
  <2>3. Linked(s, entry, 0) = Ext
    <3>1. Linked(s, entry, 0) = Ext + 0
      BY <1>4, <2>2 DEF Linked
    <3>. QED  BY <3>1, PartitionAssumption
  <2>4. r = Extended(s, entry, 0, inner)
    BY <2>1
  <2>5. r = inner[<<Ext, t>>]
    BY <1>4, <1>5, <2>2, <2>3, <2>4 DEF Extended
  <2>. QED  BY <2>1, <2>5, Records
<1>9. Walked(disk, n, t, r)
  <2>1. Chained(disk, n)
    BY DEF Laid
  <2>2. 1 \in 1 .. n /\ MaxChain \in 0 .. MaxChain + 1 /\ MaxChain > n - 1
    BY <2>1, PartitionAssumption DEF Chained
  <2>3. Walks(disk, n, call, MaxChain, 1)
    BY <2>1, <2>2, Walk
  <2>4. Taken(disk, 1 - 1) = 0
    BY <2>1, TakenSteps
  <2>. QED  BY <1>6, <1>7, <1>8, <2>3, <2>4 DEF Walks
<1>10. /\ r \in Scans /\ Named(r) /\ ~r.leave /\ ~r.panic
       /\ r.l_no = Most(disk, n)
       /\ \A j \in 1 .. Most(disk, n) : r.logic_parts[j] = Record(Lost(disk) + j) + 1
       /\ r.p_no = s.p_no /\ r.prim_parts = s.prim_parts
       /\ r.buffers = IF Most(disk, n) = 8 THEN s.buffers + 1 ELSE s.buffers
  BY <1>6, <1>9 DEF Walked, ScanHas
<1>11. Ascending(r.prim_parts, {PrimStart(j) : j \in PrimsTo(disk, i + 1)})
  BY <1>1, <1>10 DEF AtSlot
<1>12. r.p_no <= i + 1 /\ r.p_no # i + 1 /\ r.p_no # 4
  BY <1>4, <1>10
<1>. QED  BY <1>1, <1>3, <1>4, <1>10, <1>11, <1>12 DEF AtSlot

\* Each turn of the scan of the boot record adds what its slot holds.
LEMMA BootTurn ==
    ASSUME NEW disk, NEW n, Laid(disk, n), NEW call, Calls(disk, call),
           NEW i \in 0 .. 3, NEW s, AtSlot(disk, n, s, i), NEW e, e = Table(disk, 0),
           NEW r, r = Turn(s, e[i + 1], 0, call[MaxChain])
    PROVE  AtSlot(disk, n, r, i + 1)
<1>1. i + 1 \in Slots
  BY DEF Slots
<1>2. PICK entry : entry = e[i + 1]
  OBVIOUS
<1>3. entry = Entry(disk.mbr[i + 1], IF disk.mbr[i + 1] = "ext" THEN Ext ELSE PrimStart(i + 1))
  BY <1>1, <1>2, BootEntry
<1>4. entry.type = disk.mbr[i + 1]
  BY <1>3 DEF Entry
<1>5. ~s.leave /\ ~s.panic
  <2>1. s.p_no \in Nat /\ s.p_no <= i /\ ~s.leave /\ (s.panic <=> s.p_no = 4)
    BY ScanTypes DEF AtSlot
  <2>2. s.p_no # 4
    BY <2>1
  <2>. QED  BY <2>1, <2>2
<1>6. disk.mbr[i + 1] \in Types
  BY <1>1 DEF Laid
<1>7. CASE disk.mbr[i + 1] = "none"
  <2>1. r = s
    BY <1>2, <1>4, <1>7, TurnIdle
  <2>. QED  BY <1>7, <2>1, BootEmpty
<1>8. CASE disk.mbr[i + 1] = "prim"
  <2>1. entry = Entry("prim", PrimStart(i + 1))
    BY <1>3, <1>8
  <2>2. r = Primary(s, entry)
    BY <1>2, <1>4, <1>5, <1>8, TurnPartition
  <2>. QED  BY <1>8, <2>1, <2>2, BootPrimary
<1>9. CASE disk.mbr[i + 1] = "ext"
  <2>1. entry = Entry("ext", Ext)
    BY <1>3, <1>9
  <2>2. r = Extended(s, entry, 0, call[MaxChain])
    BY <1>2, <1>4, <1>5, <1>9, TurnExtended
  <2>. QED  BY <1>9, <2>1, <2>2, BootExtended
<1>. QED  BY <1>6, <1>7, <1>8, <1>9 DEF Types

-----------------------------------------------------------------------------
(* What the whole scan finds. *)

\* The plain layouts are boot records with at most one chain, whose records all
\* describe a partition before their link, the first perhaps none.
LEMMA LayoutsLaid ==
    ASSUME NEW disk \in Layouts, Plain(disk)
    PROVE  \E n : Laid(disk, n)
<1>1. /\ disk.mbr \in [Slots -> Types] /\ disk.chain \in Chains /\ disk.second \in 2 .. MaxChain + 1
      /\ disk.second - 1 \in DOMAIN disk.chain
      /\ disk.second \in DOMAIN disk.chain => Cardinality(ExtendedSlots(disk)) = 2
  BY DEF Layouts
<1>2. PICK c : c = disk.chain
  OBVIOUS
<1>3. /\ c \in UNION {[1 .. n -> Shapes] : n \in 1 .. MaxChain}
      /\ \A k \in DOMAIN c : c[k] = "none" => k = 1
  BY <1>1, <1>2 DEF Chains
<1>4. PICK n \in 1 .. MaxChain : c \in [1 .. n -> Shapes]
  BY <1>3
<1>5. \A i, j \in ExtendedSlots(disk) : i = j
  BY DEF Plain
<1>6. Cardinality(ExtendedSlots(disk)) # 2
  <2>1. CASE ExtendedSlots(disk) = {}
    <3>1. Cardinality(ExtendedSlots(disk)) = 0
      BY <2>1, FS_EmptySet
    <3>. QED  BY <3>1
  <2>2. CASE ExtendedSlots(disk) # {}
    <3>1. PICK x : ExtendedSlots(disk) = {x}
      BY <1>5, <2>2
    <3>2. Cardinality(ExtendedSlots(disk)) = 1
      BY <3>1, FS_Singleton
    <3>. QED  BY <3>2
  <2>. QED  BY <2>1, <2>2
<1>7. DOMAIN disk.chain = 1 .. n /\ disk.second = n + 1
  <2>1. DOMAIN disk.chain = 1 .. n /\ disk.second \notin 1 .. n /\ disk.second - 1 \in 1 .. n
    BY <1>1, <1>2, <1>4, <1>6
  <2>. QED  BY <1>1, <2>1
<1>8. \A k \in 1 .. n : disk.chain[k] \in {"first", "none"} /\ (k > 1 => disk.chain[k] = "first")
  <2>1. \A k \in 1 .. n : c[k] \in Shapes /\ c[k] # "last" /\ (c[k] = "none" => k = 1)
    BY <1>2, <1>3, <1>4, <1>7 DEF Plain
  <2>. QED  BY <1>2, <2>1 DEF Shapes
<1>9. Chained(disk, n)
  BY <1>7, <1>8 DEF Chained
<1>10. \A i, j \in Slots : disk.mbr[i] = "ext" /\ disk.mbr[j] = "ext" => i = j
  BY <1>5 DEF ExtendedSlots
<1>11. Laid(disk, n)
  BY <1>1, <1>9, <1>10 DEF Laid
<1>. QED  BY <1>11

\* The scan is what the outermost call leaves of its four turns.
LEMMA BootWalk ==
    ASSUME NEW disk, NEW n, Laid(disk, n)
    PROVE  \E s : AtSlot(disk, n, s, 4) /\ partition_scan(disk) = Left(s)
<1>1. PICK call : Calls(disk, call) /\ partition_scan(disk) = call[MaxChain + 1][<<0, Start>>]
  BY CallsExist
<1>2. PICK e, inner : e = Table(disk, 0) /\ inner = call[MaxChain]
  OBVIOUS
<1>3. PICK t0 : t0 = [Start EXCEPT !.buffers = @ + 1]
  OBVIOUS
<1>4. PICK t1, t2, t3, t4 : /\ t1 = Turn(t0, e[1], 0, inner) /\ t2 = Turn(t1, e[2], 0, inner)
                            /\ t3 = Turn(t2, e[3], 0, inner) /\ t4 = Turn(t3, e[4], 0, inner)
  OBVIOUS
<1>5. ScanTable(disk, 0, Start, inner) = Left(t4)
  BY <1>2, <1>3, <1>4, Turns
<1>6. partition_scan(disk) = Left(t4)
  <2>1. MaxChain \in Nat /\ MaxChain + 1 \in 1 .. MaxChain + 1 /\ (MaxChain + 1) - 1 = MaxChain
    BY PartitionAssumption
  <2>2. Start \in Scans
    BY StartTypes
  <2>3. call[MaxChain + 1][<<0, Start>>] = ScanTable(disk, 0, Start, call[MaxChain])
    BY <1>1, <2>1, <2>2, CallAt
  <2>. QED  BY <1>1, <1>2, <1>5, <2>3
<1>7. AtSlot(disk, n, t0, 0)
  BY <1>3, BootStart
<1>8. \A i \in 0 .. 3 : \A s : AtSlot(disk, n, s, i) => AtSlot(disk, n, Turn(s, e[i + 1], 0, inner), i + 1)
  BY <1>1, <1>2, BootTurn
<1>9. AtSlot(disk, n, t1, 1)
  BY <1>4, <1>7, <1>8
<1>10. AtSlot(disk, n, t2, 2)
  BY <1>4, <1>8, <1>9
<1>11. AtSlot(disk, n, t3, 3)
  BY <1>4, <1>8, <1>10
<1>12. AtSlot(disk, n, t4, 4)
  BY <1>4, <1>8, <1>11
<1>. QED  BY <1>6, <1>12

\* The records whose partitions logic_parts reaches are the first ones with a partition.
LEMMA LogicalsAre ==
    ASSUME NEW disk, NEW n, Laid(disk, n)
    PROVE  Logicals(disk) = {Lost(disk) + j : j \in 1 .. FoundTo(disk, n, 4)}
<1>1. /\ Chained(disk, n) /\ n \in Nat /\ n >= 1 /\ DOMAIN disk.chain = 1 .. n
      /\ \A k \in 1 .. n : disk.chain[k] \in {"first", "none"} /\ (k > 1 => disk.chain[k] = "first")
  BY PartitionAssumption DEF Laid, Chained
<1>2. PICK lost : lost = Lost(disk)
  OBVIOUS
<1>3. lost \in {0, 1} /\ \A k \in 1 .. n : disk.chain[k] = "first" <=> k > lost
  BY <1>1, <1>2 DEF Lost
<1>4. SeenTo(disk, 4) <=> ExtendedSlots(disk) # {}
  BY DEF SeenTo, Slots, ExtendedSlots
<1>5. ASSUME NEW j \in 1 .. n
      PROVE  Cardinality({i \in 1 .. n : i <= j /\ disk.chain[i] = "first"}) = IF j <= lost THEN 0 ELSE j - lost
  <2>1. {i \in 1 .. n : i <= j /\ disk.chain[i] = "first"} = lost + 1 .. j
    BY <1>1, <1>3
  <2>2. Cardinality(lost + 1 .. j) = IF lost + 1 > j THEN 0 ELSE j - (lost + 1) + 1
    <3>1. lost + 1 \in Int /\ j \in Int
      BY <1>3
    <3>. QED  BY <3>1, FS_Interval
  <2>3. j \in Nat /\ lost \in Nat
    BY <1>1, <1>3
  <2>4. (IF lost + 1 > j THEN 0 ELSE j - (lost + 1) + 1) = IF j <= lost THEN 0 ELSE j - lost
    BY <2>3
  <2>. QED  BY <2>1, <2>2, <2>4, Zenon
<1>6. FoundTo(disk, n, 4) = IF ~SeenTo(disk, 4) THEN 0 ELSE IF n - lost < 8 THEN n - lost ELSE 8
  BY <1>1, <1>2, <1>3 DEF FoundTo, Most, Taken
<1>8. Logicals(disk) = IF SeenTo(disk, 4) THEN ListedBy(disk, 1 .. n, 0) ELSE {}
  <2>1. PICK before, one, rest :
           /\ before = {k \in DOMAIN disk.chain : k < disk.second}
           /\ one = ListedBy(disk, before, 0)
           /\ rest = ListedBy(disk, DOMAIN disk.chain \ before, Cardinality(one))
    OBVIOUS
  <2>2. Logicals(disk) = IF ExtendedSlots(disk) = {} THEN {} ELSE one \cup rest
    BY <2>1 DEF Logicals
  <2>3. before = 1 .. n /\ DOMAIN disk.chain \ before = {}
    <3>1. disk.second = n + 1
      BY <1>1 DEF Chained
    <3>. QED  BY <1>1, <2>1, <3>1
  <2>4. rest = {}
    BY <2>1, <2>3 DEF ListedBy
  <2>. QED  BY <1>4, <2>1, <2>2, <2>3, <2>4
<1>7. ASSUME NEW k
      PROVE  k \in Logicals(disk) <=> k \in {lost + j : j \in 1 .. FoundTo(disk, n, 4)}
  <2>1. k \in ListedBy(disk, 1 .. n, 0) <=>
           /\ k \in 1 .. n /\ disk.chain[k] # "none"
           /\ \A j \in 1 .. n : j < k /\ disk.chain[j] = "first" =>
                 0 + Cardinality({i \in 1 .. n : i <= j /\ disk.chain[i] = "first"}) < 8
    BY DEF ListedBy
  <2>2. k \in ListedBy(disk, 1 .. n, 0) <=>
           k \in 1 .. n /\ k > lost /\ \A j \in 1 .. n : j < k /\ j > lost => j - lost < 8
    <3>1. \A j \in 1 .. n : j > lost =>
             (0 + Cardinality({i \in 1 .. n : i <= j /\ disk.chain[i] = "first"}) < 8 <=> j - lost < 8)
      <4>1. ASSUME NEW j \in 1 .. n, j > lost
            PROVE  0 + Cardinality({i \in 1 .. n : i <= j /\ disk.chain[i] = "first"}) < 8 <=> j - lost < 8
        <5>1. PICK x : x = Cardinality({i \in 1 .. n : i <= j /\ disk.chain[i] = "first"})
          OBVIOUS
        <5>2. x = j - lost
          BY <1>1, <1>3, <1>5, <4>1, <5>1
        <5>. QED  BY <1>1, <1>3, <5>1, <5>2
      <4>. QED  BY <4>1
    <3>2. \A j \in 1 .. n : (disk.chain[j] = "first" <=> j > lost) /\ (disk.chain[j] # "none" <=> j > lost)
      BY <1>1, <1>3
    <3>. QED  BY <2>1, <3>1, <3>2
  <2>7. k \in ListedBy(disk, 1 .. n, 0) <=> k \in lost + 1 .. n /\ k <= lost + 8
    <3>1. ASSUME k \in 1 .. n, k > lost, k > lost + 8
          PROVE  \E j \in 1 .. n : j < k /\ j > lost /\ ~(j - lost < 8)
      <4>1. lost + 8 \in 1 .. n /\ lost + 8 < k /\ lost + 8 > lost /\ ~((lost + 8) - lost < 8)
        BY <1>1, <1>3, <3>1
      <4>. QED  BY <4>1
    <3>2. ASSUME k \in 1 .. n, k <= lost + 8, NEW j \in 1 .. n, j < k
          PROVE  j - lost < 8
      BY <1>1, <1>3, <3>2
    <3>. QED  BY <1>1, <1>3, <2>2, <3>1, <3>2
  <2>3. k \in Logicals(disk) <=> SeenTo(disk, 4) /\ k \in lost + 1 .. n /\ k <= lost + 8
    BY <1>8, <2>7
  <2>4. PICK f \in Nat : f = FoundTo(disk, n, 4)
    BY <1>1, <1>3, <1>6
  <2>5. k \in {lost + j : j \in 1 .. f} <=> k \in lost + 1 .. lost + f
    <3>1. \A x \in lost + 1 .. lost + f : x - lost \in 1 .. f /\ lost + (x - lost) = x
      BY <1>3, <2>4
    <3>. QED  BY <1>3, <2>4, <3>1
  <2>6. k \in lost + 1 .. lost + f <=> SeenTo(disk, 4) /\ k \in lost + 1 .. n /\ k <= lost + 8
    BY <1>1, <1>3, <1>6, <2>4
  <2>. QED  BY <2>3, <2>4, <2>5, <2>6
<1>. QED  BY <1>2, <1>7

\* partition_scan (ide.c:206) finds the partitions of a disk and names them.
LEMMA PartitionsRight ==
    ASSUME NEW disk \in Layouts, Plain(disk)
    PROVE  ScanFinds(disk)
<1>1. PICK n : Laid(disk, n)
  BY LayoutsLaid
<1>2. PICK t : AtSlot(disk, n, t, 4) /\ partition_scan(disk) = Left(t)
  BY <1>1, BootWalk
<1>. DEFINE s == partition_scan(disk)
            prims == {PrimStart(i) : i \in Primaries(disk)}
            logics == {Record(k) + 1 : k \in Logicals(disk)}
            Finds == /\ Ascending(s.prim_parts, prims) /\ EachOnce(s.logic_parts, logics)
                     /\ s.buffers = IF Len(s.logic_parts) >= 8 THEN Len(s.logic_parts) - 7 ELSE 0
                     /\ Len(s.names) = Len(s.prim_parts) + Len(s.logic_parts)
                     /\ {s.names[i][2] : i \in DOMAIN s.names} = prims \cup logics
                     /\ \A i, j \in DOMAIN s.names : s.names[i][1] = s.names[j][1] => i = j
<1>. SUFFICES /\ s.panic <=> Primaries(disk) = Slots
              /\ Plain(disk) => Len(s.logic_parts) <= 8
              /\ ~s.panic => Finds
  BY Zenon DEF ScanFinds
<1>3. s = partition_scan(disk)
  OBVIOUS
<1>4. /\ prims = {PrimStart(i) : i \in Primaries(disk)}
      /\ logics = {Record(k) + 1 : k \in Logicals(disk)}
  OBVIOUS
<1>. HIDE DEF s, prims, logics
<1>5. PICK f : f = FoundTo(disk, n, 4)
  OBVIOUS
<1>6. f \in 0 .. 8 /\ Lost(disk) \in {0, 1}
  BY <1>1, <1>5, TakenSteps DEF FoundTo, Laid
<1>7. /\ t \in Scans /\ Named(t) /\ ~t.leave
      /\ Ascending(t.prim_parts, prims)
      /\ t.p_no \in Nat /\ t.p_no <= 4 /\ (t.p_no = 4 <=> Primaries(disk) = Slots)
      /\ t.panic <=> t.p_no = 4
      /\ t.l_no = f
      /\ \A j \in 1 .. f : t.logic_parts[j] = Record(Lost(disk) + j) + 1
      /\ t.buffers = IF f = 8 THEN 2 ELSE 1
  <2>1. 1 .. 4 = Slots /\ PrimsTo(disk, 4) = Primaries(disk)
    BY DEF Slots, PrimsTo, Primaries
  <2>2. (\A j \in 1 .. 4 : disk.mbr[j] = "prim") <=> Primaries(disk) = Slots
    BY <2>1 DEF Primaries
  <2>3. t.p_no \in Nat
    BY <1>2, ScanTypes DEF AtSlot
  <2>. QED  BY <1>2, <1>4, <1>5, <2>1, <2>2, <2>3 DEF AtSlot
<1>8. /\ t.prim_parts \in Seq(Nat) /\ t.logic_parts \in Seq(Nat) /\ t.names \in Seq(Nat \X Nat)
      /\ t.panic \in BOOLEAN
  BY <1>7, ScanTypes
<1>9. /\ Len(t.prim_parts) = t.p_no /\ Len(t.logic_parts) = f
      /\ Len(t.names) = t.p_no + f
      /\ \A i, j \in 1 .. Len(t.names) : t.names[i][1] = t.names[j][1] => i = j
      /\ {t.names[i][2] : i \in 1 .. Len(t.names)} = Elements(t.prim_parts) \cup Elements(t.logic_parts)
  BY <1>7 DEF Named, Listing, Numbered, Starts
<1>10. CASE t.panic
  <2>1. s = t
    BY <1>2, <1>3, <1>10 DEF Left
  <2>. HIDE DEF Finds
  <2>. QED  BY <1>6, <1>7, <1>9, <1>10, <2>1
<1>11. CASE ~t.panic
  <2>1. /\ s.buffers = IF t.leave THEN t.buffers ELSE t.buffers - 1
        /\ s.prim_parts = t.prim_parts /\ s.logic_parts = t.logic_parts /\ s.names = t.names
        /\ ~s.leave /\ ~s.panic
    <3>1. t.buffers > 0
      BY <1>7
    <3>. QED  BY <1>2, <1>3, <1>7, <1>11, <3>1, CallLeft
  <2>2. DOMAIN t.prim_parts = 1 .. t.p_no /\ DOMAIN t.logic_parts = 1 .. f
        /\ DOMAIN t.names = 1 .. Len(t.names)
    BY <1>8, <1>9, LenProperties
  <2>3. Elements(t.prim_parts) = prims
    BY <1>7, <1>9, <2>2 DEF Elements, Ascending
  <2>4. logics = {Record(Lost(disk) + j) + 1 : j \in 1 .. f}
    BY <1>1, <1>4, <1>5, LogicalsAre
  <2>5. Elements(t.logic_parts) = logics
    BY <1>7, <1>9, <2>4, SMTT(30) DEF Elements
  <2>6. EachOnce(t.logic_parts, logics)
    <3>1. ASSUME NEW i \in 1 .. f, NEW j \in 1 .. f, i < j
          PROVE  t.logic_parts[i] < t.logic_parts[j]
      <4>1. PICK a, b : a = Lost(disk) + i /\ b = Lost(disk) + j
        OBVIOUS
      <4>2. a \in Nat \ {0} /\ b \in Nat \ {0} /\ a < b
        BY <1>6, <3>1, <4>1
      <4>3. Record(a) \in Nat /\ Record(b) \in Nat /\ Record(a) < Record(b)
        BY <4>2, Records
      <4>4. t.logic_parts[i] = Record(a) + 1 /\ t.logic_parts[j] = Record(b) + 1
        BY <1>7, <4>1
      <4>. QED  BY <4>3, <4>4
    <3>2. ASSUME NEW i \in 1 .. f, NEW j \in 1 .. f, t.logic_parts[i] = t.logic_parts[j]
          PROVE  i = j
      <4>1. t.logic_parts[i] \in Nat
        <5>1. PICK a : a = Lost(disk) + i
          OBVIOUS
        <5>2. a \in Nat \ {0}
          BY <1>6, <3>2, <5>1
        <5>3. Record(a) \in Nat /\ t.logic_parts[i] = Record(a) + 1
          BY <1>7, <3>2, <5>1, <5>2, Records
        <5>. QED  BY <5>3
      <4>2. i < j \/ j < i \/ i = j
        BY <3>2
      <4>. QED  BY <3>1, <3>2, <4>1, <4>2
    <3>. QED  BY <1>9, <2>2, <2>5, <3>2 DEF EachOnce, Elements
  <2>7. s.buffers = IF f = 8 THEN 1 ELSE 0
    BY <1>7, <2>1
  <2>8. /\ Len(s.prim_parts) = t.p_no /\ Len(s.logic_parts) = f
        /\ Ascending(s.prim_parts, prims) /\ EachOnce(s.logic_parts, logics)
        /\ {s.names[i][2] : i \in DOMAIN s.names} = prims \cup logics
    <3>1. Len(s.prim_parts) = t.p_no /\ Len(s.logic_parts) = f
      BY <1>9, <2>1
    <3>2. Ascending(s.prim_parts, prims) /\ EachOnce(s.logic_parts, logics)
      BY <1>7, <2>1, <2>6
    <3>3. {t.names[i][2] : i \in DOMAIN t.names} = prims \cup logics
      BY <1>9, <2>2, <2>3, <2>5
    <3>. QED  BY <2>1, <3>1, <3>2, <3>3
  <2>9. /\ Len(s.names) = t.p_no + f
        /\ \A i, j \in DOMAIN s.names : s.names[i][1] = s.names[j][1] => i = j
    BY <1>9, <2>1, <2>2
  <2>10. Finds
    <3>1. s.buffers = IF Len(s.logic_parts) >= 8 THEN Len(s.logic_parts) - 7 ELSE 0
      BY <1>6, <2>7, <2>8
    <3>. QED  BY <2>8, <2>9, <3>1
  <2>. HIDE DEF Finds
  <2>. QED  BY <1>6, <1>7, <1>11, <2>1, <2>8, <2>10
<1>. QED  BY <1>10, <1>11

\* What PartitionsFound says of the disks whose layout is plain, for chains of every length
\* and extended partitions anywhere on the disk: there the scan (ide.c:206) writes no ninth
\* element of logic_parts.
THEOREM PlainDisksScanned == DataSpec => [](asked = "disk" /\ Plain(input) => ScanFinds(input))
<1>1. InputInv => (asked = "disk" /\ Plain(input) => ScanFinds(input))
  BY PartitionsRight DEF InputInv
<1>. QED  BY <1>1, InputsCorrect, PTL
=============================================================================
