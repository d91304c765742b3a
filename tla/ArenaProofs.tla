----------------------------- MODULE ArenaProofs -----------------------------
(***************************************************************************)
(* The small blocks of sys_malloc never overlap, their arenas stay mapped  *)
(* while they are in use and no block is lost, for pages, blocks and maps  *)
(* of every size and any number of threads.                                *)
(***************************************************************************)
EXTENDS Arena, DataProofs

-----------------------------------------------------------------------------
(* The inductive invariant. *)

SmallAt(p) == arena[p].desc # None
LargeAt(p) == arena[p].large

\* The pages of the arena that starts in page p.
OwnRun(p) == IF LargeAt(p) THEN p .. p + arena[p].cnt - 1 ELSE {p}

\* A header is none, or that of a run of pages, or that of a page of blocks.
HeaderInv ==
    \A p \in Pages :
        \/ arena[p] = NoArena
        \/ LargeAt(p) /\ ~SmallAt(p) /\ arena[p].cnt > 0
        \/ SmallAt(p) /\ ~LargeAt(p)

\* The pages of an arena are mapped, and no other arena's.
PageInv ==
    /\ \A p \in Pages : arena[p] # NoArena => OwnRun(p) \subseteq mapped
    /\ \A p, q \in Pages :
          arena[p] # NoArena /\ arena[q] # NoArena /\ p # q => OwnRun(p) \cap OwnRun(q) = {}

\* What t has been given and not yet put back on a list.
Given(t) ==
    {b[1] : b \in held[t]} \cup (IF pc[t] \in {"free", "give"} THEN {call[t]} ELSE {})

\* a is a block of the arena in its page.
IsBlock(a) ==
    LET p == block2arena(a)
    IN  /\ p \in Pages
        /\ \/ SmallAt(p) /\ a \in Blocks(p, arena[p].desc)
           \/ LargeAt(p) /\ a = p * PG_SIZE + Header

\* The size asked for fits into the block.
Fits(a, size) ==
    LET p == block2arena(a)
    IN  IF LargeAt(p) THEN size + Header <= arena[p].cnt * PG_SIZE
        ELSE size <= block_size[arena[p].desc]

Free(d) == ToSet(free_list[d])

\* A list holds blocks of arenas of its size, each once.
ListInv ==
    \A d \in Descs :
        /\ IsInjective(free_list[d])
        /\ \A a \in Free(d) :
              LET p == block2arena(a)
              IN  p \in Pages /\ arena[p].desc = d /\ a \in Blocks(p, d)

\* What a thread has is a block, large enough, on no list, and nobody else's.
GivenInv ==
    /\ \A t \in Threads : \A a \in Given(t) : IsBlock(a) /\ \A d \in Descs : a \notin Free(d)
    /\ \A t, u \in Threads : t # u => Given(t) \cap Given(u) = {}
    /\ \A t \in Threads : \A b, c \in held[t] : b[1] = c[1] => b = c
    /\ \A t \in Threads : pc[t] \in {"free", "give"} => \A b \in held[t] : b[1] # call[t]
    /\ \A t \in Threads : \A b \in held[t] : Fits(b[1], b[2])

\* A block of p is on its way: it is listed and not yet counted.
Uncounted(p) == \E t \in Threads : pc[t] = "count" /\ block2arena(call[t]) = p

\* sys_malloc has cut p into blocks and is about to take the first.
JustCut(p) ==
    \E t \in Threads : /\ pc[t] = "pop" /\ arena[p].desc = DescOf(call[t])
                       /\ Free(arena[p].desc) \subseteq Blocks(p, arena[p].desc)

\* The free blocks of an arena are counted, the others are given, and one is
\* given unless the arena is new.
CountInv ==
    \A p \in Pages : SmallAt(p) =>
        LET d == arena[p].desc
            free == Blocks(p, d) \cap Free(d)
        IN  /\ Cardinality(free) = arena[p].cnt + (IF Uncounted(p) THEN 1 ELSE 0)
            /\ \A a \in Blocks(p, d) \ free : \E t \in Threads : a \in Given(t)
            /\ arena[p].cnt < block_per_arena[d] \/ JustCut(p)

\* A mapped page's address is marked, unless a bit was lost.
MarkedInv == ~raced => mapped \subseteq bits

\* Where a call stands: who holds the lock, and what its argument is.
CallInv ==
    \A t \in Threads :
        /\ pc[t] \in {"get", "pop", "give", "count", "unlock"} <=> holder = t
        /\ pc[t] \in {"malloc", "get", "pop"} => call[t] \in Sizes \ {0}
        /\ pc[t] = "pop" => ~Large(call[t]) /\ free_list[DescOf(call[t])] # <<>>
        /\ pc[t] = "count" => LET p == block2arena(call[t])
                              IN  p \in Pages /\ SmallAt(p) /\ call[t] \in Free(arena[p].desc)

IInv ==
    /\ TypeOK
    /\ HeaderInv
    /\ PageInv
    /\ ListInv
    /\ GivenInv
    /\ CountInv
    /\ CallInv
    /\ MarkedInv
    /\ HaltsOnlyForMemory

-----------------------------------------------------------------------------
(* Pages and blocks. *)

\* The constants' ranges.
LEMMA Ranges ==
    /\ PG_SIZE \in Nat \ {0} /\ Header \in Nat \ {0} /\ Link \in Nat \ {0}
    /\ Header < PG_SIZE
    /\ Descs \subseteq Nat /\ DESC_CNT \in Descs /\ None \notin Descs
    /\ block_size \in [Descs -> Nat \ {0}]
    /\ len * ByteBits \in Nat /\ Pages \subseteq Nat
    /\ IsFiniteSet(Pages) /\ Cardinality(Pages) = len * ByteBits + 1
    /\ Sizes \subseteq Nat /\ None \notin Threads
<1>1. /\ PG_SIZE \in Nat \ {0} /\ Header \in Nat \ {0} /\ Link \in Nat \ {0}
      /\ DESC_CNT \in Nat \ {0} /\ len \in Nat /\ ByteBits \in Nat
      /\ Sizes \subseteq Nat /\ None \notin Threads
  BY ArenaAssumption, ByteBitsAssumption
<1>2. Descs \subseteq Nat /\ DESC_CNT \in Descs /\ None \notin Descs
  BY <1>1 DEF Descs, None
<1>3. block_size \in [Descs -> Nat \ {0}]
  <2>1. \A d \in Descs : block_size[d] \in Nat \ {0}
    BY BlockAssumption
  <2>2. block_size = [d \in Descs |-> block_size[d]]
    BY DEF block_size
  <2>. QED  BY <2>1, <2>2
<1>4. Header < PG_SIZE
  <2>1. block_size[DESC_CNT] \in Nat \ {0} /\ Header + block_size[DESC_CNT] <= PG_SIZE
    BY <1>2, BlockAssumption
  <2>. QED  BY <1>1, <2>1
<1>5. len * ByteBits \in Nat
  BY <1>1
<1>6. Pages \subseteq Nat /\ IsFiniteSet(Pages) /\ Cardinality(Pages) = len * ByteBits + 1
  <2>. DEFINE n == len * ByteBits
  <2>1. n \in Nat /\ Pages = 0 .. n
    BY <1>5 DEF Pages
  <2>. HIDE DEF n
  <2>2. IsFiniteSet(0 .. n) /\ Cardinality(0 .. n) = n + 1
    BY <2>1, FS_Interval
  <2>3. Pages \subseteq Nat /\ IsFiniteSet(Pages) /\ Cardinality(Pages) = n + 1
    BY <2>1, <2>2
  <2>. QED  BY <2>3 DEF n
<1>. QED  BY <1>1, <1>2, <1>3, <1>4, <1>5, <1>6

\* Multiples are ordered as their factors are.
LEMMA Multiples ==
    ASSUME NEW n \in Nat, NEW i \in Nat, NEW j \in Nat, i < j
    PROVE  i * n \in Nat /\ j * n \in Nat /\ i * n + n <= j * n
<1>1. PICK k \in Nat : j = i + 1 + k
  <2>. j - i - 1 \in Nat /\ j = i + 1 + (j - i - 1)
    OBVIOUS
  <2>. QED  OBVIOUS
<1>2. j * n = i * n + n + k * n
  BY <1>1
<1>3. i * n \in Nat /\ k * n \in Nat
  OBVIOUS
<1>. QED  BY <1>2, <1>3

\* The page of a byte, and its bytes.
LEMMA PageOf ==
    ASSUME NEW a \in Nat
    PROVE  /\ block2arena(a) \in Nat
           /\ block2arena(a) * PG_SIZE \in Nat
           /\ block2arena(a) * PG_SIZE <= a
           /\ a < block2arena(a) * PG_SIZE + PG_SIZE
<1>. PG_SIZE \in Nat \ {0}
  BY Ranges
<1>. DEFINE p == block2arena(a)
<1>1. p \in Nat /\ a % PG_SIZE \in 0 .. PG_SIZE - 1 /\ a = PG_SIZE * p + (a % PG_SIZE)
  BY DEF block2arena
<1>. HIDE DEF p
<1>2. PG_SIZE * p = p * PG_SIZE /\ p * PG_SIZE \in Nat
  BY <1>1
<1>3. p * PG_SIZE <= a /\ a < p * PG_SIZE + PG_SIZE
  BY <1>1, <1>2
<1>. QED  BY <1>1, <1>2, <1>3 DEF p

\* A byte between the start of a page and its end is in that page.
LEMMA InPage ==
    ASSUME NEW p \in Nat, NEW a \in Nat, p * PG_SIZE <= a, a < p * PG_SIZE + PG_SIZE
    PROVE  block2arena(a) = p
<1>. DEFINE q == block2arena(a)
<1>0. PG_SIZE \in Nat
  BY Ranges
<1>1. q \in Nat /\ q * PG_SIZE \in Nat /\ q * PG_SIZE <= a /\ a < q * PG_SIZE + PG_SIZE
  BY PageOf
<1>. HIDE DEF q
<1>2. p * PG_SIZE \in Nat
  BY <1>0
<1>3. ~(p < q)
  <2>1. SUFFICES ASSUME p < q PROVE FALSE
    OBVIOUS
  <2>2. p * PG_SIZE + PG_SIZE <= q * PG_SIZE
    BY <1>0, <1>1, <2>1, Multiples
  <2>. QED  BY <1>0, <1>1, <1>2, <2>2
<1>4. ~(q < p)
  <2>1. SUFFICES ASSUME q < p PROVE FALSE
    OBVIOUS
  <2>2. q * PG_SIZE + PG_SIZE <= p * PG_SIZE
    BY <1>0, <1>1, <2>1, Multiples
  <2>. QED  BY <1>0, <1>1, <1>2, <2>2
<1>5. q = p
  BY <1>1, <1>3, <1>4
<1>. QED  BY <1>5 DEF q

\* A page holds at least one block, and all its blocks.
LEMMA PerArena ==
    ASSUME NEW d \in Descs
    PROVE  /\ block_per_arena[d] \in Nat \ {0}
           /\ Header + block_per_arena[d] * block_size[d] <= PG_SIZE
<1>. DEFINE b == block_size[d]
            room == PG_SIZE - Header
            n == room \div b
<1>1. b \in Nat \ {0} /\ room \in Nat /\ b <= room /\ Header \in Nat /\ PG_SIZE \in Nat
  BY Ranges, BlockAssumption
<1>2. block_per_arena[d] = n
  BY DEF block_per_arena
<1>. HIDE DEF b, room
<1>3. n \in Nat /\ room % b \in 0 .. b - 1 /\ room = b * n + (room % b)
  BY <1>1
<1>. HIDE DEF n
<1>4. n # 0
  <2>1. SUFFICES ASSUME n = 0 PROVE FALSE
    OBVIOUS
  <2>2. room = room % b
    BY <1>1, <1>3, <2>1
  <2>. QED  BY <1>1, <1>3, <2>2
<1>5. b * n = n * b /\ n * b \in Nat
  BY <1>1, <1>3
<1>6. n * b <= room
  BY <1>1, <1>3, <1>5
<1>7. Header + n * b <= PG_SIZE
  <2>. DEFINE nb == n * b
  <2>1. nb \in Nat /\ nb <= PG_SIZE - Header
    BY <1>5, <1>6 DEF room
  <2>. HIDE DEF nb
  <2>2. Header + nb <= PG_SIZE
    BY <1>1, <2>1
  <2>. QED  BY <2>2 DEF nb
<1>. QED  BY <1>2, <1>3, <1>4, <1>7 DEF b

\* A block lies behind its page's header and before the page's end.
LEMMA BlockAt ==
    ASSUME NEW p \in Nat, NEW d \in Descs, NEW i \in 0 .. block_per_arena[d] - 1
    PROVE  /\ arena2block(p, d, i) \in Nat /\ p * PG_SIZE \in Nat
           /\ p * PG_SIZE + Header <= arena2block(p, d, i)
           /\ arena2block(p, d, i) + block_size[d] <= p * PG_SIZE + PG_SIZE
<1>. DEFINE b == block_size[d]
            n == block_per_arena[d]
            base == p * PG_SIZE
            off == i * b
            all == n * b
<1>1. /\ b \in Nat /\ n \in Nat /\ i \in Nat /\ i < n
      /\ Header \in Nat /\ PG_SIZE \in Nat /\ base \in Nat
      /\ Header + all <= PG_SIZE
  BY Ranges, PerArena
<1>. HIDE DEF b, n, base
<1>2. off \in Nat /\ all \in Nat /\ off + b <= all
  BY <1>1, Multiples
<1>3. arena2block(p, d, i) = base + Header + off
  BY DEF arena2block, base, b
<1>. HIDE DEF off, all
<1>. QED  BY <1>1, <1>2, <1>3 DEF base, b

\* Where a block is.
LEMMA BlockPlace ==
    ASSUME NEW p \in Pages, NEW d \in Descs, NEW a \in Blocks(p, d)
    PROVE  /\ a \in Nat /\ a \in Addresses /\ block2arena(a) = p
           /\ p * PG_SIZE \in Nat /\ p * PG_SIZE + Header <= a
           /\ a + block_size[d] <= p * PG_SIZE + PG_SIZE
<1>1. PICK i \in 0 .. block_per_arena[d] - 1 : a = arena2block(p, d, i)
  BY DEF Blocks
<1>2. p \in Nat /\ Header \in Nat /\ block_size[d] \in Nat \ {0} /\ PG_SIZE \in Nat
  BY Ranges
<1>3. /\ a \in Nat /\ p * PG_SIZE \in Nat /\ p * PG_SIZE + Header <= a
      /\ a + block_size[d] <= p * PG_SIZE + PG_SIZE
  BY <1>1, <1>2, BlockAt
<1>4. block2arena(a) = p
  <2>1. p * PG_SIZE <= a /\ a < p * PG_SIZE + PG_SIZE
    BY <1>2, <1>3
  <2>. QED  BY <1>2, <1>3, <2>1, InPage
<1>5. a \in Addresses
  <2>. DEFINE c == Cardinality(Pages)
  <2>1. c \in Nat /\ p < c
    BY Ranges DEF Pages
  <2>. HIDE DEF c
  <2>2. p * PG_SIZE + PG_SIZE <= c * PG_SIZE /\ c * PG_SIZE \in Nat
    BY <1>2, <2>1, Multiples
  <2>3. a < c * PG_SIZE
    BY <1>2, <1>3, <2>2
  <2>4. c * PG_SIZE = PG_SIZE * c
    BY <1>2, <2>1
  <2>5. a \in 0 .. PG_SIZE * c - 1
    BY <1>3, <2>2, <2>3, <2>4
  <2>. QED  BY <2>5 DEF Addresses, c
<1>. QED  BY <1>3, <1>4, <1>5

\* Blocks of different indices are apart.
LEMMA IndicesApart ==
    ASSUME NEW p \in Nat, NEW d \in Descs,
           NEW i \in 0 .. block_per_arena[d] - 1, NEW j \in 0 .. block_per_arena[d] - 1, i < j
    PROVE  arena2block(p, d, i) + block_size[d] <= arena2block(p, d, j)
<1>. DEFINE b == block_size[d]
            base == p * PG_SIZE
            x == i * b
            y == j * b
<1>1. b \in Nat /\ base \in Nat /\ Header \in Nat /\ i \in Nat /\ j \in Nat
  BY Ranges, PerArena
<1>. HIDE DEF b, base
<1>2. x \in Nat /\ y \in Nat /\ x + b <= y
  BY <1>1, Multiples
<1>3. arena2block(p, d, i) = base + Header + x /\ arena2block(p, d, j) = base + Header + y
  BY DEF arena2block, base, b
<1>. HIDE DEF x, y
<1>4. base + Header + x + b <= base + Header + y
  BY <1>1, <1>2
<1>. QED  BY <1>3, <1>4 DEF b

\* Different blocks of an arena are apart.
LEMMA BlocksApart ==
    ASSUME NEW p \in Pages, NEW d \in Descs,
           NEW a \in Blocks(p, d), NEW c \in Blocks(p, d), a # c
    PROVE  a + block_size[d] <= c \/ c + block_size[d] <= a
<1>1. PICK i \in 0 .. block_per_arena[d] - 1 : a = arena2block(p, d, i)
  BY DEF Blocks
<1>2. PICK j \in 0 .. block_per_arena[d] - 1 : c = arena2block(p, d, j)
  BY DEF Blocks
<1>3. p \in Nat /\ block_per_arena[d] \in Nat
  BY Ranges, PerArena
<1>4. i \in Nat /\ j \in Nat /\ (i < j \/ j < i)
  BY <1>1, <1>2, <1>3
<1>5. CASE i < j
  BY <1>1, <1>2, <1>3, <1>5, IndicesApart
<1>6. CASE j < i
  BY <1>1, <1>2, <1>3, <1>6, IndicesApart
<1>. QED  BY <1>4, <1>5, <1>6

\* The blocks' addresses in their order; they are as many as fit.
CutList(p, d) == [i \in 1 .. block_per_arena[d] |-> arena2block(p, d, i - 1)]

LEMMA Cut ==
    ASSUME NEW p \in Pages, NEW d \in Descs
    PROVE  /\ CutList(p, d) \in Seq(Addresses)
           /\ ToSet(CutList(p, d)) = Blocks(p, d)
           /\ IsInjective(CutList(p, d))
           /\ IsFiniteSet(Blocks(p, d))
           /\ Cardinality(Blocks(p, d)) = block_per_arena[d]
<1>. DEFINE n == block_per_arena[d]
            f == CutList(p, d)
<1>1. n \in Nat /\ p \in Nat /\ block_size[d] \in Nat \ {0}
  BY PerArena, Ranges
<1>2. DOMAIN f = 1 .. n /\ \A i \in 1 .. n : f[i] = arena2block(p, d, i - 1)
  BY DEF CutList
<1>3. \A i \in 1 .. n : i - 1 \in 0 .. n - 1
  BY <1>1
<1>4. \A i \in 0 .. n - 1 : i + 1 \in 1 .. n /\ i = (i + 1) - 1
  BY <1>1
<1>5. ToSet(f) = Blocks(p, d)
  <2>1. \A i \in 1 .. n : f[i] \in Blocks(p, d)
    BY <1>2, <1>3 DEF Blocks
  <2>2. \A i \in 0 .. n - 1 : arena2block(p, d, i) = f[i + 1]
    BY <1>2, <1>4
  <2>. HIDE DEF f
  <2>3. \A a \in Blocks(p, d) : \E i \in 1 .. n : a = f[i]
    BY <2>2, <1>4 DEF Blocks
  <2>. QED  BY <1>2, <2>1, <2>3 DEF ToSet
<1>6. \A i \in 1 .. n : f[i] \in Addresses
  <2>. SUFFICES ASSUME NEW i \in 1 .. n PROVE f[i] \in Addresses
    OBVIOUS
  <2>1. f[i] \in Blocks(p, d)
    BY <1>2, <1>3 DEF Blocks
  <2>. QED  BY <2>1, BlockPlace
<1>7. f \in Seq(Addresses)
  <2>1. f \in [1 .. n -> Addresses]
    BY <1>6 DEF CutList
  <2>. HIDE DEF f, n
  <2>. QED  BY <1>1, <2>1
<1>8. \A i, j \in 1 .. n : f[i] = f[j] => i = j
  <2>1. SUFFICES ASSUME NEW i \in 1 .. n, NEW j \in 1 .. n, i < j PROVE f[i] # f[j]
    BY <1>1
  <2>2. i - 1 \in 0 .. n - 1 /\ j - 1 \in 0 .. n - 1 /\ i - 1 < j - 1
    BY <1>1, <2>1
  <2>3. arena2block(p, d, i - 1) + block_size[d] <= arena2block(p, d, j - 1)
    BY <1>1, <2>2, IndicesApart
  <2>4. arena2block(p, d, i - 1) \in Nat
    BY <1>1, <2>2, BlockAt
  <2>. QED  BY <1>1, <1>2, <2>3, <2>4
<1>9. IsInjective(f)
  BY <1>2, <1>8 DEF IsInjective
<1>10. IsFiniteSet(Blocks(p, d)) /\ Cardinality(Blocks(p, d)) = n
  <2>. HIDE DEF f
  <2>1. f \in [1 .. n -> Blocks(p, d)]
    BY <1>2, <1>5, <1>7 DEF ToSet
  <2>2. f \in Bijection(1 .. n, Blocks(p, d))
    BY <1>2, <1>5, <1>8, <2>1 DEF ToSet, Bijection, Injection, Surjection, IsInjective
  <2>3. ExistsBijection(1 .. n, Blocks(p, d))
    BY <2>2 DEF ExistsBijection
  <2>4. IsFiniteSet(1 .. n) /\ Cardinality(1 .. n) = n
    <3>. HIDE DEF n
    <3>1. 1 \in Int /\ n \in Int
      BY <1>1
    <3>2. IsFiniteSet(1 .. n) /\ Cardinality(1 .. n) = IF 1 > n THEN 0 ELSE n - 1 + 1
      BY <3>1, FS_Interval
    <3>. QED  BY <1>1, <3>2
  <2>. QED  BY <2>3, <2>4, FS_Bijection
<1>. QED  BY <1>5, <1>7, <1>9, <1>10

\* A size that is not large fits into the blocks chosen for it.
LEMMA SmallFits ==
    ASSUME NEW size \in Nat, ~Large(size)
    PROVE  DescOf(size) \in Descs /\ size <= block_size[DescOf(size)]
<1>. DEFINE D == {d \in Descs : size <= block_size[d]}
<1>1. D \in SUBSET Nat
  BY Ranges
<1>2. DESC_CNT \in D
  BY Ranges DEF Large
<1>3. Min(D) \in D
  <2>. HIDE DEF D
  <2>. QED  BY <1>1, <1>2, Least
<1>. QED  BY <1>3 DEF DescOf

\* A large one fits, with its header, into the pages asked for.
LEMMA LargeFits ==
    ASSUME NEW size \in Nat
    PROVE  PageCount(size) \in Nat \ {0} /\ size + Header <= PageCount(size) * PG_SIZE
<1>. DEFINE x == size + Header + PG_SIZE - 1
            n == x \div PG_SIZE
<1>1. PG_SIZE \in Nat \ {0} /\ Header \in Nat \ {0} /\ x \in Nat /\ PG_SIZE <= x
  BY Ranges
<1>2. PageCount(size) = n
  BY DEF PageCount
<1>3. x = size + Header + PG_SIZE - 1
  OBVIOUS
<1>. HIDE DEF x
<1>4. n \in Nat /\ x % PG_SIZE \in 0 .. PG_SIZE - 1 /\ x = PG_SIZE * n + (x % PG_SIZE)
  BY <1>1
<1>. HIDE DEF n
<1>5. PG_SIZE * n = n * PG_SIZE
  BY <1>1, <1>4
<1>. DEFINE m == n * PG_SIZE
<1>6. m \in Nat /\ x <= m + PG_SIZE - 1
  BY <1>1, <1>4, <1>5
<1>7. n # 0
  <2>1. n = 0 => x = x % PG_SIZE
    BY <1>1, <1>4
  <2>. QED  BY <1>1, <1>4, <2>1
<1>. HIDE DEF m
<1>8. size + Header <= m
  BY <1>1, <1>3, <1>6
<1>. QED  BY <1>2, <1>4, <1>7, <1>8 DEF m

\* Without keeps the elements outside B, and each once if they were.
LEMMA WithoutSet ==
    ASSUME NEW A, NEW list \in Seq(A), IsInjective(list), NEW B
    PROVE  /\ Without(list, B) \in Seq(A)
           /\ ToSet(Without(list, B)) = ToSet(list) \ B
           /\ IsInjective(Without(list, B))
<1>. DEFINE kept == {i \in DOMAIN list : list[i] \notin B}
            upto(i) == {j \in kept : j <= i}
            Place(i) == Cardinality(upto(i))
            m == Cardinality(kept)
            place == [i \in kept |-> Place(i)]
            at(n) == CHOOSE i \in kept : Place(i) = n
            w == Without(list, B)
<1>1. w = [n \in 1 .. m |-> list[at(n)]]
  BY DEF Without
<1>2. Len(list) \in Nat /\ DOMAIN list = 1 .. Len(list) /\ \A i \in DOMAIN list : list[i] \in A
  OBVIOUS
<1>3. IsFiniteSet(kept) /\ kept \in SUBSET Nat /\ m \in Nat
  <2>1. IsFiniteSet(1 .. Len(list))
    BY <1>2, FS_Interval
  <2>2. kept \in SUBSET (1 .. Len(list))
    BY <1>2
  <2>3. IsFiniteSet(kept)
    BY <2>1, <2>2, FS_Subset
  <2>. QED  BY <2>2, <2>3, FS_CardinalityType
<1>4. \A i \in kept : IsFiniteSet(upto(i)) /\ Place(i) \in 1 .. m
  <2>. SUFFICES ASSUME NEW i \in kept PROVE IsFiniteSet(upto(i)) /\ Place(i) \in 1 .. m
    OBVIOUS
  <2>. HIDE DEF kept
  <2>1. upto(i) \in SUBSET kept /\ i \in upto(i)
    BY <1>3
  <2>. HIDE DEF upto
  <2>2. IsFiniteSet(upto(i)) /\ Cardinality(upto(i)) <= m
    BY <1>3, <2>1, FS_Subset
  <2>3. Cardinality(upto(i)) \in Nat /\ Cardinality(upto(i)) # 0
    BY <2>1, <2>2, FS_EmptySet, FS_CardinalityType
  <2>. QED  BY <1>3, <2>2, <2>3
<1>5. \A i, j \in kept : i < j => Place(i) # Place(j)
  <2>. SUFFICES ASSUME NEW i \in kept, NEW j \in kept, i < j PROVE Place(i) # Place(j)
    OBVIOUS
  <2>. HIDE DEF kept
  <2>0. i \in Nat /\ j \in Nat /\ \A x \in kept : x \in Nat /\ (x <= i => x <= j)
    BY <1>3
  <2>1. upto(i) \in SUBSET upto(j) /\ j \in upto(j) /\ j \notin upto(i)
    <3>1. \A x \in upto(i) : x \in kept /\ x <= i
      OBVIOUS
    <3>2. \A x \in upto(i) : x \in upto(j)
      BY <2>0, <3>1
    <3>3. j \in upto(j)
      BY <2>0
    <3>4. ~(j <= i)
      BY <2>0
    <3>. HIDE DEF upto
    <3>. QED  BY <3>1, <3>2, <3>3, <3>4
  <2>2. IsFiniteSet(upto(j))
    BY <1>4
  <2>. HIDE DEF upto
  <2>. QED  BY <2>1, <2>2, FS_Subset
<1>6. place \in Injection(kept, 1 .. m)
  <2>. HIDE DEF kept, Place, m
  <2>1. \A i, j \in kept : Place(i) = Place(j) => i = j
    BY <1>3, <1>5
  <2>. QED  BY <1>4, <2>1 DEF Injection, IsInjective
<1>7. \A n \in 1 .. m : \E i \in kept : Place(i) = n
  <2>1. IsFiniteSet(1 .. m) /\ Cardinality(1 .. m) = m
    <3>. HIDE DEF m
    <3>1. 1 \in Int /\ m \in Int
      BY <1>3
    <3>2. IsFiniteSet(1 .. m) /\ Cardinality(1 .. m) = IF 1 > m THEN 0 ELSE m - 1 + 1
      BY <3>1, FS_Interval
    <3>. QED  BY <1>3, <3>2
  <2>2. place \in Surjection(kept, 1 .. m)
    <3>. HIDE DEF place, kept
    <3>. QED  BY <1>6, <2>1, FS_Injection
  <2>. HIDE DEF kept, Place, m
  <2>. QED  BY <2>2 DEF Surjection
<1>8. \A n \in 1 .. m : at(n) \in kept /\ Place(at(n)) = n
  <2>. HIDE DEF kept, Place, m
  <2>. QED  BY <1>7
<1>9. \A i \in kept : at(Place(i)) = i /\ Place(i) \in 1 .. m
  <2>. HIDE DEF kept, Place, m
  <2>. SUFFICES ASSUME NEW i \in kept PROVE at(Place(i)) = i /\ Place(i) \in 1 .. m
    OBVIOUS
  <2>1. Place(i) \in 1 .. m
    BY <1>4
  <2>2. at(Place(i)) \in kept /\ Place(at(Place(i))) = Place(i)
    BY <1>8, <2>1
  <2>. HIDE DEF at
  <2>3. i \in Nat /\ at(Place(i)) \in Nat
    BY <1>3, <2>2
  <2>4. ~(i < at(Place(i))) /\ ~(at(Place(i)) < i)
    BY <1>5, <2>2
  <2>. QED  BY <2>1, <2>3, <2>4
<1>10. w \in Seq(A)
  <2>1. \A n \in 1 .. m : list[at(n)] \in A
    BY <1>2, <1>8
  <2>. HIDE DEF m, at, w
  <2>2. w \in [1 .. m -> A]
    BY <1>1, <2>1
  <2>. QED  BY <1>3, <2>2
<1>11. ToSet(w) = ToSet(list) \ B
  <2>1. \A n \in 1 .. m : w[n] \in ToSet(list) \ B
    BY <1>1, <1>8 DEF ToSet
  <2>2. \A i \in kept : w[Place(i)] = list[i]
    BY <1>1, <1>9
  <2>3. DOMAIN w = 1 .. m
    BY <1>1
  <2>. HIDE DEF w, m, Place
  <2>4. ToSet(w) \subseteq ToSet(list) \ B
    BY <2>1, <2>3 DEF ToSet
  <2>5. ToSet(list) \ B \subseteq ToSet(w)
    <3>. SUFFICES ASSUME NEW i \in kept PROVE list[i] \in ToSet(w)
      BY DEF ToSet
    <3>. QED  BY <1>9, <2>2, <2>3 DEF ToSet
  <2>. QED  BY <2>4, <2>5
<1>12. IsInjective(w)
  <2>. SUFFICES ASSUME NEW n \in 1 .. m, NEW k \in 1 .. m, list[at(n)] = list[at(k)]
                PROVE  n = k
    BY <1>1 DEF IsInjective
  <2>1. at(n) = at(k)
    <3>1. at(n) \in DOMAIN list /\ at(k) \in DOMAIN list
      BY <1>8
    <3>. HIDE DEF at
    <3>. QED  BY <3>1 DEF IsInjective
  <2>. HIDE DEF at, Place, kept, m
  <2>. QED  BY <1>8, <2>1
<1>. QED  BY <1>10, <1>11, <1>12

-----------------------------------------------------------------------------
(* What the invariant says of a state. *)

\* While t has the lock and has not finished, no other thread has it; so no
\* block but t's is uncounted and no arena but t's is new.
LEMMA LockExcludes ==
    ASSUME IInv, NEW t \in Threads, pc[t] \in {"get", "pop", "give", "count"}
    PROVE  /\ holder = t
           /\ \A u \in Threads : u # t => pc[u] \in {"out", "malloc", "free"}
           /\ \A p : Uncounted(p) => pc[t] = "count" /\ block2arena(call[t]) = p
           /\ \A p : JustCut(p) => /\ pc[t] = "pop" /\ arena[p].desc = DescOf(call[t])
                                   /\ Free(arena[p].desc) \subseteq Blocks(p, arena[p].desc)
<1>1. holder = t
  BY DEF IInv, CallInv
<1>2. \A u \in Threads : u # t => pc[u] \in {"out", "malloc", "free"}
  BY <1>1 DEF IInv, TypeOK, CallInv
<1>3. \A u \in Threads : pc[u] \in {"pop", "count"} => u = t
  BY <1>2
<1>4. \A p : Uncounted(p) => pc[t] = "count" /\ block2arena(call[t]) = p
  BY <1>3 DEF Uncounted
<1>5. \A p : JustCut(p) => /\ pc[t] = "pop" /\ arena[p].desc = DescOf(call[t])
                           /\ Free(arena[p].desc) \subseteq Blocks(p, arena[p].desc)
  BY <1>3 DEF JustCut
<1>. QED  BY <1>1, <1>2, <1>4, <1>5

\* An arena is of one kind, and its own page is mapped.
LEMMA ArenaKinds ==
    ASSUME IInv, NEW p \in Pages
    PROVE  /\ arena[p].cnt \in Nat /\ arena[p].large \in BOOLEAN
           /\ arena[p].desc \in Desc
           /\ SmallAt(p) => arena[p].desc \in Descs /\ ~LargeAt(p) /\ arena[p] # NoArena
           /\ LargeAt(p) => ~SmallAt(p) /\ arena[p] # NoArena /\ arena[p].cnt > 0
           /\ arena[p] # NoArena => SmallAt(p) \/ LargeAt(p)
           /\ arena[p] # NoArena => p \in OwnRun(p) /\ OwnRun(p) \subseteq mapped
<1>1. arena[p] \in [desc : Desc, cnt : Nat, large : BOOLEAN]
  BY DEF IInv, TypeOK
<1>2. arena[p].cnt \in Nat /\ arena[p].large \in BOOLEAN /\ arena[p].desc \in Desc
  BY <1>1
<1>3. \/ arena[p] = NoArena
      \/ LargeAt(p) /\ ~SmallAt(p) /\ arena[p].cnt > 0
      \/ SmallAt(p) /\ ~LargeAt(p)
  BY DEF IInv, HeaderInv
<1>4. NoArena.desc = None /\ NoArena.large = FALSE
  BY DEF NoArena
<1>5. SmallAt(p) => arena[p].desc \in Descs /\ ~LargeAt(p) /\ arena[p] # NoArena
  BY <1>2, <1>3, <1>4 DEF SmallAt, LargeAt, Desc
<1>6. LargeAt(p) => ~SmallAt(p) /\ arena[p] # NoArena /\ arena[p].cnt > 0
  BY <1>3, <1>4 DEF SmallAt, LargeAt
<1>7. arena[p] # NoArena => SmallAt(p) \/ LargeAt(p)
  BY <1>3
<1>8. p \in Nat
  BY Ranges
<1>9. arena[p] # NoArena => p \in OwnRun(p)
  BY <1>2, <1>6, <1>8 DEF OwnRun
<1>10. arena[p] # NoArena => OwnRun(p) \subseteq mapped
  BY DEF IInv, PageInv
<1>. QED  BY <1>2, <1>5, <1>6, <1>7, <1>9, <1>10

\* The block of a run of pages.
LEMMA LargeBlock ==
    ASSUME NEW p \in Pages
    PROVE  /\ p * PG_SIZE \in Nat /\ p * PG_SIZE + Header \in Addresses
           /\ block2arena(p * PG_SIZE + Header) = p
<1>1. p \in Nat /\ Header \in Nat /\ PG_SIZE \in Nat /\ Header < PG_SIZE
  BY Ranges
<1>. DEFINE base == p * PG_SIZE
            c == Cardinality(Pages)
<1>2. base \in Nat
  BY <1>1
<1>3. base <= base + Header /\ base + Header < base + PG_SIZE /\ base + Header \in Nat
  <2>. HIDE DEF base
  <2>. QED  BY <1>1, <1>2
<1>4. block2arena(base + Header) = p
  BY <1>1, <1>3, InPage
<1>5. base + Header \in Addresses
  <2>1. c \in Nat /\ p < c
    BY Ranges DEF Pages
  <2>. HIDE DEF c
  <2>2. base + PG_SIZE <= c * PG_SIZE /\ c * PG_SIZE \in Nat
    BY <1>1, <2>1, Multiples
  <2>3. c * PG_SIZE = PG_SIZE * c
    BY <1>1, <2>1
  <2>. HIDE DEF base
  <2>4. base + Header \in 0 .. PG_SIZE * c - 1
    BY <1>1, <1>2, <2>2, <2>3
  <2>. QED  BY <2>4 DEF Addresses, c
<1>. QED  BY <1>2, <1>4, <1>5

\* What has been given lies in an arena's page, and is on no list.
LEMMA GivenPlace ==
    ASSUME IInv, NEW t \in Threads, NEW a \in Given(t)
    PROVE  /\ a \in Nat /\ block2arena(a) \in Pages /\ arena[block2arena(a)] # NoArena
           /\ IsBlock(a) /\ \A d \in Descs : a \notin Free(d)
<1>. DEFINE p == block2arena(a)
<1>1. IsBlock(a) /\ \A d \in Descs : a \notin Free(d)
  BY DEF IInv, GivenInv
<1>2. /\ p \in Pages
      /\ \/ SmallAt(p) /\ a \in Blocks(p, arena[p].desc)
         \/ LargeAt(p) /\ a = p * PG_SIZE + Header
  BY <1>1 DEF IsBlock
<1>. HIDE DEF p
<1>3. arena[p] # NoArena
  BY <1>2, ArenaKinds
<1>4. CASE SmallAt(p) /\ a \in Blocks(p, arena[p].desc)
  <2>1. arena[p].desc \in Descs
    BY <1>2, <1>4, ArenaKinds
  <2>2. a \in Nat
    BY <1>2, <1>4, <2>1, BlockPlace
  <2>. QED  BY <1>1, <1>2, <1>3, <2>2 DEF p
<1>5. CASE LargeAt(p) /\ a = p * PG_SIZE + Header
  <2>1. a \in Nat
    BY <1>2, <1>5, LargeBlock, Ranges DEF Addresses
  <2>. QED  BY <1>1, <1>2, <1>3, <2>1 DEF p
<1>. QED  BY <1>2, <1>4, <1>5

\* A listed block lies in an arena's page.
LEMMA FreePlace ==
    ASSUME IInv, NEW d \in Descs, NEW a \in Free(d)
    PROVE  /\ block2arena(a) \in Pages /\ a \in Blocks(block2arena(a), d)
           /\ SmallAt(block2arena(a)) /\ arena[block2arena(a)].desc = d
           /\ arena[block2arena(a)] # NoArena
<1>. DEFINE p == block2arena(a)
<1>1. p \in Pages /\ arena[p].desc = d /\ a \in Blocks(p, d)
  BY DEF IInv, ListInv
<1>2. SmallAt(p)
  BY <1>1, Ranges DEF SmallAt
<1>3. arena[p] # NoArena
  <2>. HIDE DEF p
  <2>. QED  BY <1>1, <1>2, ArenaKinds
<1>. QED  BY <1>1, <1>2, <1>3

-----------------------------------------------------------------------------
(* The steps that leave the heap alone. *)

\* A step that leaves the arenas and the lists alone, and the pages of the
\* arenas mapped, keeps what it does not decide itself.
LEMMA BlocksUnchanged ==
    ASSUME IInv, UNCHANGED <<arena, free_list>>, mapped \subseteq mapped',
           \A u \in Threads : Given(u)' = Given(u) /\ held'[u] \subseteq held[u],
           \A u \in Threads : pc'[u] \in {"free", "give"} =>
                                  \A b \in held'[u] : b[1] # call'[u],
           \A p : Uncounted(p)' = Uncounted(p),
           \A p : JustCut(p) => JustCut(p)'
    PROVE  HeaderInv' /\ PageInv' /\ ListInv' /\ GivenInv' /\ CountInv'
<1>1. HeaderInv' /\ PageInv' /\ ListInv'
  <2>1. \A p \in Pages : OwnRun(p)' = OwnRun(p)
    BY DEF OwnRun, LargeAt
  <2>2. PageInv'
    BY <2>1 DEF IInv, PageInv
  <2>. QED  BY <2>2 DEF IInv, HeaderInv, ListInv, LargeAt, SmallAt, Free
<1>2. GivenInv'
  <2>1. \A u \in Threads : \A a \in Given(u)' :
            IsBlock(a)' /\ \A d \in Descs : a \notin Free(d)'
    BY DEF IInv, GivenInv, IsBlock, SmallAt, LargeAt, Free
  <2>2. \A u, w \in Threads : u # w => Given(u)' \cap Given(w)' = {}
    BY DEF IInv, GivenInv
  <2>3. \A u \in Threads : \A b, c \in held'[u] : b[1] = c[1] => b = c
    BY DEF IInv, GivenInv
  <2>4. \A u \in Threads : \A b \in held'[u] : Fits(b[1], b[2])'
    BY DEF IInv, GivenInv, Fits, LargeAt
  <2>. QED  BY <2>1, <2>2, <2>3, <2>4 DEF GivenInv
<1>3. CountInv'
  <2>. SUFFICES ASSUME NEW p \in Pages, SmallAt(p)
                PROVE  LET d == arena[p].desc
                           free == Blocks(p, d) \cap Free(d)
                       IN  /\ Cardinality(free) = arena[p].cnt + (IF Uncounted(p)' THEN 1 ELSE 0)
                           /\ \A a \in Blocks(p, d) \ free : \E t \in Threads : a \in Given(t)'
                           /\ arena[p].cnt < block_per_arena[d] \/ JustCut(p)'
    BY DEF CountInv, SmallAt, Free
  <2>. QED  BY DEF IInv, CountInv
<1>. QED  BY <1>1, <1>2, <1>3

LEMMA HeapUnchanged ==
    ASSUME IInv, UNCHANGED heap,
           \A u \in Threads : Given(u)' = Given(u) /\ held'[u] \subseteq held[u],
           \A u \in Threads : pc'[u] \in {"free", "give"} =>
                                  \A b \in held'[u] : b[1] # call'[u],
           \A p : Uncounted(p)' = Uncounted(p),
           \A p : JustCut(p) => JustCut(p)'
    PROVE  HeaderInv' /\ PageInv' /\ ListInv' /\ GivenInv' /\ CountInv' /\ MarkedInv'
<1>1. MarkedInv'
  BY DEF IInv, MarkedInv, heap
<1>2. UNCHANGED <<arena, free_list>> /\ mapped \subseteq mapped'
  BY DEF heap
<1>. QED  BY <1>1, <1>2, BlocksUnchanged

LEMMA MallocStep ==
    ASSUME IInv, NEW t \in Threads, NEW size \in Sizes, sys_malloc(t, size)
    PROVE  IInv'
<1>. USE DEF sys_malloc, At, Goto
<1>1. TypeOK'
  BY Ranges DEF IInv, TypeOK, heap
<1>2. HaltsOnlyForMemory'
  BY DEF IInv, HaltsOnlyForMemory, heap
<1>3. \A u \in Threads : Given(u)' = Given(u)
  BY DEF Given, IInv, TypeOK
<1>4. \A p : Uncounted(p)' = Uncounted(p)
  BY DEF Uncounted, IInv, TypeOK, heap
<1>5. \A p : JustCut(p) => JustCut(p)'
  BY DEF JustCut, IInv, TypeOK, heap, Free
<1>6. \A u \in Threads : pc'[u] \in {"free", "give"} => \A b \in held'[u] : b[1] # call'[u]
  BY DEF IInv, TypeOK, GivenInv
<1>7. CallInv'
  BY DEF IInv, TypeOK, CallInv, heap, Free, SmallAt
<1>8. HeaderInv' /\ PageInv' /\ ListInv' /\ GivenInv' /\ CountInv' /\ MarkedInv'
  BY <1>3, <1>4, <1>5, <1>6, HeapUnchanged
<1>. QED  BY <1>1, <1>2, <1>7, <1>8 DEF IInv

LEMMA FreeStep ==
    ASSUME IInv, NEW t \in Threads, NEW block \in held[t], sys_free(t, block)
    PROVE  IInv'
<1>. USE DEF sys_free, At, Goto
<1>0. block \in Addresses \X Sizes /\ block[1] \in Nat
  BY DEF IInv, TypeOK, Addresses
<1>1. TypeOK'
  BY <1>0 DEF IInv, TypeOK, heap
<1>2. HaltsOnlyForMemory'
  BY DEF IInv, HaltsOnlyForMemory, heap
<1>3. \A u \in Threads : Given(u)' = Given(u)
  <2>1. \A u \in Threads : u # t => Given(u)' = Given(u)
    BY DEF Given, IInv, TypeOK
  <2>2. Given(t)' = {b[1] : b \in held[t] \ {block}} \cup {block[1]}
    BY DEF Given, IInv, TypeOK
  <2>3. Given(t) = {b[1] : b \in held[t]}
    BY DEF Given
  <2>. QED  BY <2>1, <2>2, <2>3
<1>4. \A p : Uncounted(p)' = Uncounted(p)
  BY DEF Uncounted, IInv, TypeOK, heap
<1>5. \A p : JustCut(p) => JustCut(p)'
  BY DEF JustCut, IInv, TypeOK, heap, Free
<1>6. \A u \in Threads : pc'[u] \in {"free", "give"} => \A b \in held'[u] : b[1] # call'[u]
  BY DEF IInv, TypeOK, GivenInv
<1>7. CallInv'
  BY DEF IInv, TypeOK, CallInv, heap, Free, SmallAt
<1>8. HeaderInv' /\ PageInv' /\ ListInv' /\ GivenInv' /\ CountInv' /\ MarkedInv'
  <2>1. \A u \in Threads : held'[u] \subseteq held[u]
    BY DEF IInv, TypeOK
  <2>. QED  BY <1>3, <1>4, <1>5, <1>6, <2>1, HeapUnchanged
<1>. QED  BY <1>1, <1>2, <1>7, <1>8 DEF IInv

LEMMA LockStep ==
    ASSUME IInv, NEW t \in Threads, Lock(t)
    PROVE  IInv'
<1>. USE DEF Lock, Goto
<1>1. TypeOK'
  BY DEF IInv, TypeOK, heap
<1>2. HaltsOnlyForMemory'
  BY DEF IInv, HaltsOnlyForMemory, heap
<1>3. \A u \in Threads : Given(u)' = Given(u)
  BY DEF Given, IInv, TypeOK
<1>4. \A p : Uncounted(p)' = Uncounted(p)
  BY DEF Uncounted, IInv, TypeOK, heap
<1>5. \A p : JustCut(p) => JustCut(p)'
  BY DEF JustCut, IInv, TypeOK, heap, Free
<1>6. \A u \in Threads : pc'[u] \in {"free", "give"} => \A b \in held'[u] : b[1] # call'[u]
  BY DEF IInv, TypeOK, GivenInv
<1>7. CallInv'
  BY Ranges DEF IInv, TypeOK, CallInv, heap, Free, SmallAt
<1>8. HeaderInv' /\ PageInv' /\ ListInv' /\ GivenInv' /\ CountInv' /\ MarkedInv'
  BY <1>3, <1>4, <1>5, <1>6, HeapUnchanged
<1>. QED  BY <1>1, <1>2, <1>7, <1>8 DEF IInv

LEMMA HasBlockStep ==
    ASSUME IInv, NEW t \in Threads, HasBlock(t)
    PROVE  IInv'
<1>. USE DEF HasBlock, At, Goto
<1>1. TypeOK'
  BY DEF IInv, TypeOK, heap
<1>2. HaltsOnlyForMemory'
  BY DEF IInv, HaltsOnlyForMemory, heap
<1>3. \A u \in Threads : Given(u)' = Given(u)
  BY DEF Given, IInv, TypeOK
<1>4. \A p : Uncounted(p)' = Uncounted(p)
  BY DEF Uncounted, IInv, TypeOK, heap
<1>5. \A p : JustCut(p) => JustCut(p)'
  BY DEF JustCut, IInv, TypeOK, heap, Free
<1>6. \A u \in Threads : pc'[u] \in {"free", "give"} => \A b \in held'[u] : b[1] # call'[u]
  BY DEF IInv, TypeOK, GivenInv
<1>7. CallInv'
  BY DEF IInv, TypeOK, CallInv, heap, Free, SmallAt
<1>8. HeaderInv' /\ PageInv' /\ ListInv' /\ GivenInv' /\ CountInv' /\ MarkedInv'
  BY <1>3, <1>4, <1>5, <1>6, HeapUnchanged
<1>. QED  BY <1>1, <1>2, <1>7, <1>8 DEF IInv

LEMMA NoPagesStep ==
    ASSUME IInv, NEW t \in Threads, NoPages(t)
    PROVE  IInv'
<1>. USE DEF NoPages, NeedsPages, At, Done, Goto
<1>1. TypeOK'
  BY DEF IInv, TypeOK, heap
<1>2. HaltsOnlyForMemory'
  BY DEF IInv, HaltsOnlyForMemory, heap
<1>3. \A u \in Threads : Given(u)' = Given(u)
  BY DEF Given, IInv, TypeOK
<1>4. \A p : Uncounted(p)' = Uncounted(p)
  BY DEF Uncounted, IInv, TypeOK, heap
<1>5. \A p : JustCut(p) => JustCut(p)'
  BY DEF JustCut, IInv, TypeOK, heap, Free
<1>6. \A u \in Threads : pc'[u] \in {"free", "give"} => \A b \in held'[u] : b[1] # call'[u]
  BY DEF IInv, TypeOK, GivenInv
<1>7. CallInv'
  BY DEF IInv, TypeOK, CallInv, heap, Free, SmallAt
<1>8. HeaderInv' /\ PageInv' /\ ListInv' /\ GivenInv' /\ CountInv' /\ MarkedInv'
  BY <1>3, <1>4, <1>5, <1>6, HeapUnchanged
<1>. QED  BY <1>1, <1>2, <1>7, <1>8 DEF IInv

LEMMA UnlockStep ==
    ASSUME IInv, NEW t \in Threads, Unlock(t)
    PROVE  IInv'
<1>. USE DEF Unlock, At, Goto
<1>1. TypeOK'
  BY DEF IInv, TypeOK, heap
<1>2. HaltsOnlyForMemory'
  BY DEF IInv, HaltsOnlyForMemory, heap
<1>3. \A u \in Threads : Given(u)' = Given(u)
  BY DEF Given, IInv, TypeOK
<1>4. \A p : Uncounted(p)' = Uncounted(p)
  BY DEF Uncounted, IInv, TypeOK, heap
<1>5. \A p : JustCut(p) => JustCut(p)'
  BY DEF JustCut, IInv, TypeOK, heap, Free
<1>6. \A u \in Threads : pc'[u] \in {"free", "give"} => \A b \in held'[u] : b[1] # call'[u]
  BY DEF IInv, TypeOK, GivenInv
<1>7. CallInv'
  BY Ranges DEF IInv, TypeOK, CallInv, heap, Free, SmallAt
<1>8. HeaderInv' /\ PageInv' /\ ListInv' /\ GivenInv' /\ CountInv' /\ MarkedInv'
  BY <1>3, <1>4, <1>5, <1>6, HeapUnchanged
<1>. QED  BY <1>1, <1>2, <1>7, <1>8 DEF IInv

-----------------------------------------------------------------------------
(* The steps that take pages. *)

\* The pages that malloc_page finds and maps are nobody's.
LEMMA FreshRun ==
    ASSUME IInv, NEW t \in Threads, NeedsPages(t), Found(t) \notin {None, Halts}
    PROVE  /\ Wanted(t) \in Nat \ {0}
           /\ Found(t) \in Pages /\ Found(t) \in Run(t)
           /\ Run(t) \subseteq Pages /\ Run(t) \cap bits = {}
           /\ Run(t) \cap mapped = {} =>
                 /\ \A q \in Pages : arena[q] # NoArena =>
                       q # Found(t) /\ OwnRun(q) \cap Run(t) = {}
                 /\ arena[Found(t)] = NoArena
<1>1. call[t] \in Nat
  BY DEF IInv, TypeOK
<1>2. Wanted(t) \in Nat \ {0}
  BY <1>1, LargeFits DEF Wanted
<1>. DEFINE p == Found(t)
            n == Wanted(t)
<1>3. /\ p \in Nat /\ p + n - 1 \in 0 .. len * ByteBits
      /\ \A i \in p .. p + n - 1 : i \notin bits
  BY <1>2, ScanRun, ArenaAssumption DEF Found
<1>4. Run(t) = p .. p + n - 1
  BY DEF Run
<1>. HIDE DEF p, n
<1>5. p \in p .. p + n - 1 /\ p .. p + n - 1 \subseteq 0 .. len * ByteBits
  BY <1>2, <1>3, Ranges DEF n
<1>6. p \in Pages /\ p \in Run(t) /\ Run(t) \subseteq Pages
  BY <1>4, <1>5 DEF Pages
<1>7. Run(t) \cap bits = {}
  BY <1>3, <1>4
<1>8. ASSUME Run(t) \cap mapped = {}
      PROVE  \A q \in Pages : arena[q] # NoArena => q # p /\ OwnRun(q) \cap Run(t) = {}
  BY <1>6, <1>8, ArenaKinds
<1>9. Run(t) \cap mapped = {} => arena[p] = NoArena
  BY <1>6, <1>8
<1>. QED  BY <1>2, <1>6, <1>7, <1>8, <1>9 DEF p

LEMMA HaltStep ==
    ASSUME IInv, NEW t \in Threads, HaltInMalloc(t)
    PROVE  IInv'
<1>1. /\ mapped \subseteq mapped' /\ mapped' \subseteq Pages /\ bits' \subseteq Pages
      /\ MarkedInv' /\ HaltsOnlyForMemory' /\ frames' \in Nat /\ raced' = raced
      /\ panic' \in {"bitmap_scan", "palloc", "page_table_add"}
  <2>1. CASE NeedsPages(t) /\ Found(t) = Halts /\ Panic("bitmap_scan")
    <3>1. call[t] \in Nat
      BY DEF IInv, TypeOK
    <3>2. Wanted(t) \in Nat
      BY <3>1, LargeFits DEF Wanted
    <3>3. Map \subseteq bits
      BY <2>1, <3>2, FullMap, ArenaAssumption DEF Found, Map
    <3>4. UNCHANGED heap /\ panic' = "bitmap_scan"
      BY <2>1 DEF Panic
    <3>5. HaltsOnlyForMemory'
      BY <3>3, <3>4 DEF HaltsOnlyForMemory, heap
    <3>6. MarkedInv'
      BY <3>4 DEF IInv, MarkedInv, heap
    <3>7. mapped' = mapped /\ bits' = bits /\ frames' = frames /\ raced' = raced
      BY <3>4 DEF heap
    <3>. QED  BY <3>4, <3>5, <3>6, <3>7 DEF IInv, TypeOK
  <2>2. ASSUME NeedsPages(t), Found(t) \notin {None, Halts}, NEW k \in 0 .. Wanted(t) - 1,
               LET first == Found(t) .. Found(t) + k - 1
               IN  /\ k <= frames /\ first \cap mapped = {}
                   /\ \/ k = frames /\ panic' = "palloc" /\ frames' = 0
                      \/ /\ k < frames /\ Found(t) + k \in mapped
                         /\ panic' = "page_table_add" /\ frames' = frames - k - 1
                   /\ bits' = SetRun(bits, Found(t), Wanted(t), 1)
                   /\ mapped' = mapped \cup first,
               raced' = raced
        PROVE  /\ mapped \subseteq mapped' /\ mapped' \subseteq Pages /\ bits' \subseteq Pages
               /\ MarkedInv' /\ HaltsOnlyForMemory' /\ frames' \in Nat
               /\ panic' \in {"bitmap_scan", "palloc", "page_table_add"}
    <3>. DEFINE p == Found(t)
                first == p .. p + k - 1
    <3>1. /\ Wanted(t) \in Nat \ {0} /\ p \in Pages /\ p \in Nat /\ Pages \subseteq Nat
          /\ Run(t) \subseteq Pages /\ Run(t) \cap bits = {}
      BY <2>2, FreshRun, Ranges
    <3>2. Run(t) = p .. p + Wanted(t) - 1
      BY DEF Run
    <3>. HIDE DEF p
    <3>3. k \in Nat /\ k < Wanted(t) /\ p + k \in Run(t) /\ first \subseteq Run(t)
      BY <3>1, <3>2
    <3>4. bits' = bits \cup Run(t)
      BY <2>2, <3>1, <3>2, SetRunOnes, Ranges DEF p
    <3>5. frames' \in Nat
      BY <2>2, <3>3 DEF IInv, TypeOK
    <3>6. panic' = "page_table_add" => raced'
      BY <2>2, <3>1, <3>3 DEF IInv, MarkedInv, p
    <3>7. HaltsOnlyForMemory'
      BY <2>2, <3>6 DEF HaltsOnlyForMemory
    <3>8. bits \subseteq Pages /\ mapped \subseteq Pages
      BY DEF IInv, TypeOK
    <3>9. mapped' = mapped \cup first
      BY <2>2 DEF p
    <3>10. MarkedInv'
      BY <2>2, <3>3, <3>4, <3>9 DEF IInv, MarkedInv
    <3>. QED  BY <2>2, <3>1, <3>3, <3>4, <3>5, <3>7, <3>8, <3>9, <3>10
  <2>. QED  BY <2>1, <2>2 DEF HaltInMalloc
<1>2. UNCHANGED <<arena, free_list, held, holder, pc, call>>
  BY DEF HaltInMalloc, Panic, heap
<1>5. TypeOK'
  BY <1>1, <1>2 DEF IInv, TypeOK
<1>6. HeaderInv' /\ PageInv' /\ ListInv' /\ GivenInv' /\ CountInv'
  <2>1. \A u \in Threads : Given(u)' = Given(u)
    BY <1>2 DEF Given
  <2>2. \A p : Uncounted(p)' = Uncounted(p)
    BY <1>2 DEF Uncounted
  <2>3. \A p : JustCut(p) => JustCut(p)'
    BY <1>2 DEF JustCut, Free
  <2>4. \A u \in Threads : pc'[u] \in {"free", "give"} => \A b \in held'[u] : b[1] # call'[u]
    BY <1>2 DEF IInv, GivenInv
  <2>. QED  BY <1>1, <1>2, <2>1, <2>2, <2>3, <2>4, BlocksUnchanged
<1>7. CallInv'
  BY <1>2 DEF IInv, CallInv, SmallAt, Free
<1>. QED  BY <1>1, <1>5, <1>6, <1>7 DEF IInv

\* A new arena leaves the others, and what lies in them, as they are.
LEMMA PagesTaken ==
    ASSUME IInv, NEW t \in Threads, NEW header \in [desc : Desc, cnt : Nat, large : BOOLEAN],
           malloc_page(t, header),
           \/ header.large /\ header.desc = None /\ header.cnt = Wanted(t)
           \/ ~header.large /\ header.desc # None
    PROVE  /\ Found(t) \in Pages /\ arena[Found(t)] = NoArena
           /\ arena' \in [Pages -> [desc : Desc, cnt : Nat, large : BOOLEAN]]
           /\ arena'[Found(t)] = header
           /\ \A q \in Pages : q # Found(t) => arena'[q] = arena[q]
           /\ bits' \subseteq Pages /\ bits \subseteq bits' /\ mapped' \subseteq Pages
           /\ frames' \in Nat
           /\ HeaderInv' /\ PageInv' /\ (raced' = raced => MarkedInv')
           /\ \A a : IsBlock(a) => IsBlock(a)' /\ block2arena(a) # Found(t)
           /\ \A u \in Threads : \A b \in held[u] : Fits(b[1], b[2])'
           /\ \A u \in Threads : \A a \in Given(u) : block2arena(a) # Found(t)
<1>0. PICK p : p = Found(t)
  OBVIOUS
<1>1. /\ NeedsPages(t) /\ Found(t) \notin {None, Halts}
      /\ bits' = SetRun(bits, Found(t), Wanted(t), 1)
      /\ Wanted(t) <= frames /\ Run(t) \cap mapped = {}
      /\ mapped' = mapped \cup Run(t) /\ frames' = frames - Wanted(t)
      /\ arena' = [arena EXCEPT ![p] = header]
  BY <1>0 DEF malloc_page
<1>2. /\ Wanted(t) \in Nat \ {0} /\ p \in Pages /\ p \in Run(t)
      /\ Run(t) \subseteq Pages /\ Run(t) \cap mapped = {}
      /\ \A q \in Pages : arena[q] # NoArena => q # p /\ OwnRun(q) \cap Run(t) = {}
      /\ arena[p] = NoArena
  BY <1>0, <1>1, FreshRun
<1>3. Run(t) = p .. p + Wanted(t) - 1
  BY <1>0 DEF Run
<1>4. bits' = bits \cup Run(t)
  BY <1>0, <1>1, <1>2, <1>3, SetRunOnes, Ranges
<1>5. /\ bits' \subseteq Pages /\ bits \subseteq bits' /\ mapped' \subseteq Pages
      /\ frames' \in Nat /\ (raced' = raced => MarkedInv')
  <2>1. frames' \in Nat
    BY <1>1, <1>2 DEF IInv, TypeOK
  <2>. QED  BY <1>1, <1>2, <1>4, <2>1 DEF IInv, TypeOK, MarkedInv
<1>6. /\ arena' \in [Pages -> [desc : Desc, cnt : Nat, large : BOOLEAN]]
      /\ arena'[p] = header
      /\ \A q \in Pages : q # p => arena'[q] = arena[q]
  BY <1>1, <1>2 DEF IInv, TypeOK
<1>7. HeaderInv'
  <2>. SUFFICES ASSUME NEW q \in Pages
                PROVE  \/ arena'[q] = NoArena
                       \/ arena'[q].large /\ arena'[q].desc = None /\ arena'[q].cnt > 0
                       \/ arena'[q].desc # None /\ ~arena'[q].large
    BY DEF HeaderInv, SmallAt, LargeAt
  <2>1. CASE q = p
    BY <1>2, <1>6, <2>1
  <2>2. CASE q # p
    BY <1>6, <2>2 DEF IInv, HeaderInv, SmallAt, LargeAt
  <2>. QED  BY <2>1, <2>2
<1>8. \A q \in Pages : q # p => OwnRun(q)' = OwnRun(q)
  BY <1>6 DEF OwnRun, LargeAt
<1>9. OwnRun(p)' \subseteq Run(t)
  <2>1. CASE header.large /\ header.cnt = Wanted(t)
    BY <1>3, <1>6, <2>1 DEF OwnRun, LargeAt
  <2>2. CASE ~header.large
    BY <1>2, <1>6, <2>2 DEF OwnRun, LargeAt
  <2>. QED  BY <2>1, <2>2
<1>10. PageInv'
  <2>1. \A q \in Pages : arena'[q] # NoArena => OwnRun(q)' \subseteq mapped'
    <3>. SUFFICES ASSUME NEW q \in Pages, arena'[q] # NoArena
                  PROVE  OwnRun(q)' \subseteq mapped'
      OBVIOUS
    <3>1. CASE q = p
      BY <1>1, <1>9, <3>1
    <3>2. CASE q # p
      BY <1>1, <1>6, <1>8, <3>2 DEF IInv, PageInv
    <3>. QED  BY <3>1, <3>2
  <2>2. \A q \in Pages : arena'[q] # NoArena /\ q # p => OwnRun(q)' \cap Run(t) = {}
    BY <1>2, <1>6, <1>8
  <2>3. \A q, r \in Pages : arena'[q] # NoArena /\ arena'[r] # NoArena /\ q # r =>
            OwnRun(q)' \cap OwnRun(r)' = {}
    <3>. SUFFICES ASSUME NEW q \in Pages, NEW r \in Pages,
                         arena'[q] # NoArena, arena'[r] # NoArena, q # r
                  PROVE  OwnRun(q)' \cap OwnRun(r)' = {}
      OBVIOUS
    <3>1. CASE q = p
      BY <1>9, <2>2, <3>1
    <3>2. CASE r = p
      BY <1>9, <2>2, <3>2
    <3>3. CASE q # p /\ r # p
      BY <1>6, <1>8, <3>3 DEF IInv, PageInv
    <3>. QED  BY <3>1, <3>2, <3>3
  <2>. QED  BY <2>1, <2>3 DEF PageInv
<1>11. \A a : IsBlock(a) => IsBlock(a)' /\ block2arena(a) # p
  <2>. SUFFICES ASSUME NEW a, IsBlock(a) PROVE IsBlock(a)' /\ block2arena(a) # p
    OBVIOUS
  <2>1. block2arena(a) \in Pages /\ arena[block2arena(a)] # NoArena
    BY ArenaKinds DEF IsBlock
  <2>2. block2arena(a) # p
    BY <1>2, <2>1
  <2>. QED  BY <1>6, <2>1, <2>2 DEF IsBlock, SmallAt, LargeAt
<1>12. \A u \in Threads : \A a \in Given(u) : block2arena(a) # p
  BY <1>2, GivenPlace
<1>13. \A u \in Threads : \A b \in held[u] : Fits(b[1], b[2])'
  <2>. SUFFICES ASSUME NEW u \in Threads, NEW b \in held[u] PROVE Fits(b[1], b[2])'
    OBVIOUS
  <2>1. b[1] \in Given(u)
    BY DEF Given
  <2>2. block2arena(b[1]) # p /\ block2arena(b[1]) \in Pages
    BY <1>12, <2>1, GivenPlace
  <2>3. Fits(b[1], b[2])
    BY DEF IInv, GivenInv
  <2>. QED  BY <1>6, <2>2, <2>3 DEF Fits, LargeAt
<1>. QED  BY <1>0, <1>2, <1>5, <1>6, <1>7, <1>10, <1>11, <1>12, <1>13

\* A thread that is given a block has it alone, and in one size.
LEMMA BlockGiven ==
    ASSUME IInv, NEW t \in Threads, NEW a, NEW size,
           pc[t] # "free" /\ pc[t] # "give",
           held' = [held EXCEPT ![t] = @ \cup {<<a, size>>}],
           pc' = [pc EXCEPT ![t] = "unlock"], call' = [call EXCEPT ![t] = 0],
           \A u \in Threads : \A c \in Given(u) :
               c # a /\ IsBlock(c)' /\ \A d \in Descs : c \notin Free(d)',
           IsBlock(a)' /\ Fits(a, size)' /\ \A d \in Descs : a \notin Free(d)',
           \A u \in Threads : \A b \in held[u] : Fits(b[1], b[2])'
    PROVE  /\ GivenInv'
           /\ \A u \in Threads : Given(u)' = IF u = t THEN Given(t) \cup {a} ELSE Given(u)
<1>1. held'[t] = held[t] \cup {<<a, size>>} /\ pc'[t] = "unlock"
  BY DEF IInv, TypeOK
<1>2. \A u \in Threads : u # t => held'[u] = held[u] /\ pc'[u] = pc[u] /\ call'[u] = call[u]
  BY DEF IInv, TypeOK
<1>3. \A u \in Threads : u # t => Given(u)' = Given(u)
  BY <1>2 DEF Given
<1>4. Given(t)' = Given(t) \cup {a}
  <2>1. Given(t) = {b[1] : b \in held[t]}
    BY DEF Given
  <2>2. Given(t)' = {b[1] : b \in held'[t]}
    BY <1>1 DEF Given
  <2>3. <<a, size>> \in held'[t] /\ <<a, size>>[1] = a
    BY <1>1
  <2>4. a \in Given(t)'
    BY <2>2, <2>3
  <2>5. \A b \in held[t] : b[1] \in Given(t)'
    BY <1>1, <2>2
  <2>6. \A b \in held'[t] : b[1] \in Given(t) \cup {a}
    BY <1>1, <2>1, <2>3
  <2>. QED  BY <2>1, <2>2, <2>4, <2>5, <2>6
<1>5. \A u \in Threads : \A c \in Given(u)' : IsBlock(c)' /\ \A d \in Descs : c \notin Free(d)'
  BY <1>3, <1>4
<1>6. \A u, w \in Threads : u # w => Given(u)' \cap Given(w)' = {}
  BY <1>3, <1>4 DEF IInv, GivenInv
<1>7. \A u \in Threads : \A b, c \in held'[u] : b[1] = c[1] => b = c
  <2>1. \A b \in held[t] : b[1] # a
    BY DEF Given
  <2>2. \A b, c \in held'[t] : b[1] = c[1] => b = c
    BY <1>1, <2>1 DEF IInv, GivenInv
  <2>. QED  BY <1>2, <2>2 DEF IInv, GivenInv
<1>8. \A u \in Threads : pc'[u] \in {"free", "give"} => \A b \in held'[u] : b[1] # call'[u]
  BY <1>1, <1>2 DEF IInv, GivenInv
<1>9. \A u \in Threads : \A b \in held'[u] : Fits(b[1], b[2])'
  <2>1. \A b \in held'[t] : Fits(b[1], b[2])'
    <3>. SUFFICES ASSUME NEW b \in held'[t] PROVE Fits(b[1], b[2])'
      OBVIOUS
    <3>1. CASE b \in held[t]
      BY <3>1
    <3>2. CASE b = <<a, size>>
      BY <3>2
    <3>. QED  BY <1>1, <3>1, <3>2
  <2>. QED  BY <1>2, <2>1
<1>10. GivenInv'
  BY <1>5, <1>6, <1>7, <1>8, <1>9 DEF GivenInv
<1>. QED  BY <1>3, <1>4, <1>10

\* CountInv, arena by arena.
LEMMA CountsKept ==
    ASSUME IInv, TypeOK',
           \A q \in Pages, d \in Descs : arena'[q].desc = d =>
               /\ Uncounted(q)' => Cardinality(Blocks(q, d) \cap Free(d)') = arena'[q].cnt + 1
               /\ ~Uncounted(q)' => Cardinality(Blocks(q, d) \cap Free(d)') = arena'[q].cnt
               /\ \A c \in Blocks(q, d) \ Free(d)' : \E u \in Threads : c \in Given(u)'
               /\ arena'[q].cnt < block_per_arena[d] \/ JustCut(q)'
    PROVE  CountInv'
<1>. SUFFICES ASSUME NEW q \in Pages, arena'[q].desc # None
              PROVE  LET d == arena'[q].desc
                         free == Blocks(q, d) \cap ToSet(free_list'[d])
                     IN  /\ Cardinality(free) = arena'[q].cnt + (IF Uncounted(q)' THEN 1 ELSE 0)
                         /\ \A c \in Blocks(q, d) \ free : \E u \in Threads : c \in Given(u)'
                         /\ arena'[q].cnt < block_per_arena[d] \/ JustCut(q)'
  BY DEF CountInv, SmallAt, Free
<1>1. PICK d : d = arena'[q].desc
  OBVIOUS
<1>2. d \in Descs
  BY <1>1 DEF TypeOK, Desc
<1>3. Free(d)' = ToSet(free_list'[d])
  BY DEF Free
<1>4. /\ Uncounted(q)' => Cardinality(Blocks(q, d) \cap Free(d)') = arena'[q].cnt + 1
      /\ ~Uncounted(q)' => Cardinality(Blocks(q, d) \cap Free(d)') = arena'[q].cnt
      /\ \A c \in Blocks(q, d) \ Free(d)' : \E u \in Threads : c \in Given(u)'
      /\ arena'[q].cnt < block_per_arena[d] \/ JustCut(q)'
  BY <1>1, <1>2
<1>5. arena'[q].cnt + (IF Uncounted(q)' THEN 1 ELSE 0) =
          IF Uncounted(q)' THEN arena'[q].cnt + 1 ELSE arena'[q].cnt
  <2>1. arena'[q].cnt \in Nat
    BY DEF TypeOK
  <2>2. PICK n \in Nat : n = arena'[q].cnt
    BY <2>1
  <2>3. n + 0 = n
    OBVIOUS
  <2>4. CASE Uncounted(q)'
    BY <2>4
  <2>5. CASE ~Uncounted(q)'
    BY <2>2, <2>3, <2>5
  <2>. QED  BY <2>4, <2>5
<1>. QED  BY <1>1, <1>3, <1>4, <1>5

\* What CountInv says of an arena.
LEMMA CountOf ==
    ASSUME IInv, NEW q \in Pages, NEW d \in Descs, arena[q].desc = d
    PROVE  /\ arena[q].cnt \in Nat
           /\ Uncounted(q) => Cardinality(Blocks(q, d) \cap Free(d)) = arena[q].cnt + 1
           /\ ~Uncounted(q) => Cardinality(Blocks(q, d) \cap Free(d)) = arena[q].cnt
           /\ \A c \in Blocks(q, d) \ Free(d) : \E u \in Threads : c \in Given(u)
           /\ arena[q].cnt < block_per_arena[d] \/ JustCut(q)
<1>1. SmallAt(q) /\ arena[q].cnt \in Nat
  BY Ranges, ArenaKinds DEF SmallAt
<1>2. LET free == Blocks(q, d) \cap Free(d)
      IN  /\ Cardinality(free) = arena[q].cnt + (IF Uncounted(q) THEN 1 ELSE 0)
          /\ \A a \in Blocks(q, d) \ free : \E u \in Threads : a \in Given(u)
          /\ arena[q].cnt < block_per_arena[d] \/ JustCut(q)
  BY <1>1 DEF IInv, CountInv
<1>3. Uncounted(q) => Cardinality(Blocks(q, d) \cap Free(d)) = arena[q].cnt + 1
  BY <1>2
<1>4. ~Uncounted(q) => Cardinality(Blocks(q, d) \cap Free(d)) = arena[q].cnt
  <2>1. ~Uncounted(q) => Cardinality(Blocks(q, d) \cap Free(d)) = arena[q].cnt + 0
    BY <1>2
  <2>2. arena[q].cnt + 0 = arena[q].cnt
    BY <1>1
  <2>. QED  BY <2>1, <2>2
<1>. QED  BY <1>1, <1>2, <1>3, <1>4

LEMMA MallocLargeStep ==
    ASSUME IInv, NEW t \in Threads, MallocLarge(t)
    PROVE  IInv'
<1>0. PICK p, size, a : p = Found(t) /\ size = call[t] /\ a = p * PG_SIZE + Header
  OBVIOUS
<1>. DEFINE h == [desc |-> None, cnt |-> Wanted(t), large |-> TRUE]
<1>1. /\ Large(size) /\ malloc_page(t, h) /\ pc[t] = "get" /\ panic = "no"
      /\ held' = [held EXCEPT ![t] = @ \cup {<<a, size>>}]
      /\ pc' = [pc EXCEPT ![t] = "unlock"] /\ call' = [call EXCEPT ![t] = 0]
      /\ UNCHANGED <<raced, free_list, holder, panic>>
  BY <1>0 DEF MallocLarge, malloc_page, NeedsPages, At, Give, Done, Goto
<1>2. /\ holder = t
      /\ \A u \in Threads : u # t => pc[u] \in {"out", "malloc", "free"}
      /\ \A q : ~Uncounted(q) /\ ~JustCut(q)
  BY <1>1, LockExcludes
<1>3. size \in Sizes /\ size \in Nat
  BY <1>0, <1>1 DEF IInv, CallInv, TypeOK
<1>4. Wanted(t) = PageCount(size) /\ Wanted(t) \in Nat \ {0}
  BY <1>0, <1>1, <1>3, LargeFits DEF Wanted
<1>5. h \in [desc : Desc, cnt : Nat, large : BOOLEAN]
  BY <1>4 DEF Desc
<1>6. /\ p \in Pages /\ arena[p] = NoArena
      /\ arena' \in [Pages -> [desc : Desc, cnt : Nat, large : BOOLEAN]]
      /\ arena'[p] = h
      /\ \A q \in Pages : q # p => arena'[q] = arena[q]
      /\ bits' \subseteq Pages /\ mapped' \subseteq Pages /\ frames' \in Nat
      /\ HeaderInv' /\ PageInv' /\ MarkedInv'
      /\ \A c : IsBlock(c) => IsBlock(c)' /\ block2arena(c) # p
      /\ \A u \in Threads : \A b \in held[u] : Fits(b[1], b[2])'
      /\ \A u \in Threads : \A c \in Given(u) : block2arena(c) # p
  <2>. HIDE DEF h
  <2>. QED  BY <1>0, <1>1, <1>5, PagesTaken DEF h
<1>7. a \in Addresses /\ block2arena(a) = p
  BY <1>0, <1>6, LargeBlock
<1>8. TypeOK'
  BY <1>1, <1>3, <1>6, <1>7 DEF IInv, TypeOK
<1>9. ListInv'
  <2>. SUFFICES ASSUME NEW d \in Descs, NEW c \in Free(d)
                PROVE  arena'[block2arena(c)].desc = d
    BY <1>1 DEF IInv, ListInv, Free
  <2>. QED  BY <1>6, FreePlace
<1>10. \A d \in Descs : Free(d)' = Free(d) /\ a \notin Free(d)
  BY <1>1, <1>6, <1>7, FreePlace DEF Free
<1>11. IsBlock(a)' /\ Fits(a, size)'
  <2>1. IsBlock(a)'
    BY <1>0, <1>6, <1>7 DEF IsBlock, LargeAt
  <2>2. arena'[p].large /\ arena'[p].cnt = PageCount(size)
    BY <1>4, <1>6
  <2>3. size + Header <= arena'[p].cnt * PG_SIZE
    BY <1>3, <2>2, LargeFits
  <2>. QED  BY <1>7, <2>1, <2>2, <2>3 DEF Fits, LargeAt
<1>12. /\ GivenInv'
       /\ \A u \in Threads : Given(u)' = IF u = t THEN Given(t) \cup {a} ELSE Given(u)
  <2>1. \A u \in Threads : \A c \in Given(u) :
            c # a /\ IsBlock(c)' /\ \A d \in Descs : c \notin Free(d)'
    BY <1>6, <1>7, <1>10, GivenPlace
  <2>2. \A d \in Descs : a \notin Free(d)'
    BY <1>10
  <2>3. \A u \in Threads : \A b \in held[u] : Fits(b[1], b[2])'
    BY <1>6
  <2>4. pc[t] # "free" /\ pc[t] # "give"
    BY <1>1
  <2>5. held' = [held EXCEPT ![t] = @ \cup {<<a, size>>}]
    BY <1>1
  <2>6. pc' = [pc EXCEPT ![t] = "unlock"] /\ call' = [call EXCEPT ![t] = 0]
    BY <1>1
  <2>7. IsBlock(a)' /\ Fits(a, size)' /\ \A d \in Descs : a \notin Free(d)'
    BY <1>11, <2>2
  <2>. QED  BY <2>1, <2>3, <2>4, <2>5, <2>6, <2>7, BlockGiven
<1>13. CountInv'
  <2>1. SUFFICES ASSUME NEW q \in Pages, NEW d \in Descs, arena'[q].desc = d
                 PROVE  /\ ~Uncounted(q)'
                        /\ Cardinality(Blocks(q, d) \cap Free(d)') = arena'[q].cnt
                        /\ \A c \in Blocks(q, d) \ Free(d)' : \E u \in Threads : c \in Given(u)'
                        /\ arena'[q].cnt < block_per_arena[d]
    BY <1>8, CountsKept
  <2>2. arena'[q] = arena[q]
    BY <1>6, <2>1, Ranges
  <2>3. ~Uncounted(q)'
    BY <1>1, <1>2 DEF Uncounted, IInv, TypeOK
  <2>4. /\ Cardinality(Blocks(q, d) \cap Free(d)) = arena'[q].cnt
        /\ \A c \in Blocks(q, d) \ Free(d) : \E u \in Threads : c \in Given(u)
        /\ arena'[q].cnt < block_per_arena[d]
    BY <1>2, <2>1, <2>2, CountOf
  <2>5. \A c \in Blocks(q, d) \ Free(d)' : \E u \in Threads : c \in Given(u)'
    <3>1. \A u \in Threads : Given(u) \subseteq Given(u)'
      BY <1>12
    <3>. QED  BY <1>10, <2>4, <3>1
  <2>. QED  BY <1>10, <2>3, <2>4, <2>5
<1>14. CallInv'
  BY <1>1, <1>2 DEF IInv, TypeOK, CallInv
<1>15. HaltsOnlyForMemory'
  BY <1>1 DEF HaltsOnlyForMemory
<1>. QED  BY <1>6, <1>8, <1>9, <1>12, <1>13, <1>14, <1>15 DEF IInv

LEMMA NewArenaStep ==
    ASSUME IInv, NEW t \in Threads, NewArena(t)
    PROVE  IInv'
<1>0. PICK p, d, h : p = Found(t) /\ d = DescOf(call[t]) /\ h = NewHeader(d)
  OBVIOUS
<1>1. /\ ~Large(call[t]) /\ malloc_page(t, h) /\ NeedsPages(t) /\ pc[t] = "get" /\ panic = "no"
      /\ free_list' = [free_list EXCEPT ![d] = CutList(p, d)]
      /\ pc' = [pc EXCEPT ![t] = "pop"]
      /\ UNCHANGED <<raced, held, holder, call, panic>>
  BY <1>0 DEF NewArena, malloc_page, NeedsPages, At, Goto, CutList
<1>2. /\ holder = t
      /\ \A u \in Threads : u # t => pc[u] \in {"out", "malloc", "free"}
      /\ \A q : ~Uncounted(q) /\ ~JustCut(q)
  BY <1>1, LockExcludes
<1>3. call[t] \in Nat /\ call[t] \in Sizes \ {0}
  BY <1>1 DEF IInv, TypeOK, CallInv
<1>4. d \in Descs /\ d # None
  BY <1>0, <1>1, <1>3, SmallFits, Ranges
<1>5. block_per_arena[d] \in Nat \ {0} /\ h.cnt = block_per_arena[d] /\ h.desc = d /\ ~h.large
  BY <1>0, <1>4, PerArena DEF NewHeader
<1>6. h \in [desc : Desc, cnt : Nat, large : BOOLEAN]
  BY <1>0, <1>4, <1>5 DEF NewHeader, Desc
<1>7. /\ p \in Pages /\ arena[p] = NoArena
      /\ arena' \in [Pages -> [desc : Desc, cnt : Nat, large : BOOLEAN]]
      /\ arena'[p] = h
      /\ \A q \in Pages : q # p => arena'[q] = arena[q]
      /\ bits' \subseteq Pages /\ mapped' \subseteq Pages /\ frames' \in Nat
      /\ HeaderInv' /\ PageInv' /\ MarkedInv'
      /\ \A c : IsBlock(c) => IsBlock(c)' /\ block2arena(c) # p
      /\ \A u \in Threads : \A b \in held[u] : Fits(b[1], b[2])'
      /\ \A u \in Threads : \A c \in Given(u) : block2arena(c) # p
  BY <1>0, <1>1, <1>4, <1>5, <1>6, PagesTaken
<1>8. /\ CutList(p, d) \in Seq(Addresses) /\ IsInjective(CutList(p, d))
      /\ ToSet(CutList(p, d)) = Blocks(p, d)
      /\ IsFiniteSet(Blocks(p, d)) /\ Cardinality(Blocks(p, d)) = block_per_arena[d]
  BY <1>4, <1>7, Cut
<1>9. TypeOK'
  BY <1>1, <1>4, <1>7, <1>8 DEF IInv, TypeOK
<1>10. Free(d) = {} /\ Free(d)' = Blocks(p, d)
  <2>1. free_list[d] = <<>>
    BY <1>0, <1>1 DEF NeedsPages
  <2>2. free_list'[d] = CutList(p, d)
    BY <1>1, <1>4 DEF IInv, TypeOK
  <2>. QED  BY <1>8, <2>1, <2>2 DEF Free, ToSet
<1>11. \A e \in Descs : e # d => free_list'[e] = free_list[e] /\ Free(e)' = Free(e)
  BY <1>1, <1>4 DEF IInv, TypeOK, Free
<1>12. ListInv'
  <2>. SUFFICES ASSUME NEW e \in Descs
                PROVE  /\ IsInjective(free_list'[e])
                       /\ \A a \in Free(e)' :
                             LET q == block2arena(a)
                             IN  q \in Pages /\ arena'[q].desc = e /\ a \in Blocks(q, e)
    BY DEF ListInv
  <2>1. CASE e = d
    <3>1. free_list'[d] = CutList(p, d)
      BY <1>1, <1>4 DEF IInv, TypeOK
    <3>2. \A a \in Blocks(p, d) : block2arena(a) = p
      BY <1>4, <1>7, BlockPlace
    <3>. QED  BY <1>5, <1>7, <1>8, <1>10, <2>1, <3>1, <3>2
  <2>2. CASE e # d
    <3>1. IsInjective(free_list'[e])
      BY <1>11, <2>2 DEF IInv, ListInv
    <3>2. \A a \in Free(e) : block2arena(a) \in Pages /\ a \in Blocks(block2arena(a), e)
                             /\ arena'[block2arena(a)].desc = e
      BY <1>7, FreePlace
    <3>. QED  BY <1>11, <2>2, <3>1, <3>2
  <2>. QED  BY <2>1, <2>2
<1>13. \A u \in Threads : Given(u)' = Given(u)
  BY <1>1 DEF Given, IInv, TypeOK
<1>14. GivenInv'
  <2>1. \A u \in Threads : \A a \in Given(u) : \A e \in Descs : a \notin Free(e)'
    <3>. SUFFICES ASSUME NEW u \in Threads, NEW a \in Given(u), NEW e \in Descs
                  PROVE  a \notin Free(e)'
      OBVIOUS
    <3>1. a \notin Free(e) /\ block2arena(a) # p
      BY <1>7, GivenPlace
    <3>2. a \notin Blocks(p, d)
      BY <1>4, <1>7, <3>1, BlockPlace
    <3>. QED  BY <1>10, <1>11, <3>1, <3>2
  <2>2. \A u \in Threads : \A a \in Given(u)' :
            IsBlock(a)' /\ \A e \in Descs : a \notin Free(e)'
    BY <1>7, <1>13, <2>1, GivenPlace
  <2>3. \A u, w \in Threads : u # w => Given(u)' \cap Given(w)' = {}
    BY <1>13 DEF IInv, GivenInv
  <2>4. \A u \in Threads : \A b, c \in held'[u] : b[1] = c[1] => b = c
    BY <1>1 DEF IInv, GivenInv
  <2>5. \A u \in Threads : pc'[u] \in {"free", "give"} => \A b \in held'[u] : b[1] # call'[u]
    BY <1>1 DEF IInv, GivenInv, TypeOK
  <2>6. \A u \in Threads : \A b \in held'[u] : Fits(b[1], b[2])'
    BY <1>1, <1>7
  <2>. QED  BY <2>2, <2>3, <2>4, <2>5, <2>6 DEF GivenInv
<1>15. CountInv'
  <2>1. SUFFICES ASSUME NEW q \in Pages, NEW e \in Descs, arena'[q].desc = e
                 PROVE  /\ ~Uncounted(q)'
                        /\ Cardinality(Blocks(q, e) \cap Free(e)') = arena'[q].cnt
                        /\ \A c \in Blocks(q, e) \ Free(e)' : \E u \in Threads : c \in Given(u)'
                        /\ arena'[q].cnt < block_per_arena[e] \/ JustCut(q)'
    BY <1>9, CountsKept
  <2>2. ~Uncounted(q)'
    BY <1>1, <1>2 DEF Uncounted, IInv, TypeOK
  <2>3. CASE q = p
    <3>1. e = d /\ arena'[q].cnt = block_per_arena[d]
      BY <1>5, <1>7, <2>1, <2>3
    <3>2. JustCut(q)'
      <4>1. pc'[t] = "pop" /\ DescOf(call'[t]) = d
        BY <1>0, <1>1 DEF IInv, TypeOK
      <4>2. arena'[q].desc = d /\ ToSet(free_list'[d]) \subseteq Blocks(q, d)
        BY <1>10, <2>1, <2>3, <3>1 DEF Free
      <4>. QED  BY <4>1, <4>2 DEF JustCut, Free
    <3>3. Blocks(q, e) \cap Free(e)' = Blocks(p, d) /\ Blocks(q, e) \ Free(e)' = {}
      BY <1>10, <2>3, <3>1
    <3>. QED  BY <1>5, <1>8, <2>2, <3>1, <3>2, <3>3
  <2>4. CASE q # p
    <3>1. arena'[q] = arena[q] /\ arena[q].desc = e
      BY <1>7, <2>1, <2>4
    <3>2. Blocks(q, e) \cap Free(e)' = Blocks(q, e) \cap Free(e)
      <4>1. \A c \in Blocks(q, e) : block2arena(c) = q
        BY BlockPlace
      <4>2. \A c \in Blocks(p, d) : block2arena(c) = p
        BY <1>4, <1>7, BlockPlace
      <4>. QED  BY <1>10, <1>11, <2>4, <4>1, <4>2
    <3>3. /\ Cardinality(Blocks(q, e) \cap Free(e)) = arena[q].cnt
          /\ \A c \in Blocks(q, e) \ Free(e) : \E u \in Threads : c \in Given(u)
          /\ arena[q].cnt < block_per_arena[e]
      BY <1>2, <3>1, CountOf
    <3>4. \A c \in Blocks(q, e) \ Free(e)' : \E u \in Threads : c \in Given(u)'
      BY <1>13, <3>2, <3>3
    <3>5. arena'[q].cnt = arena[q].cnt
      BY <3>1
    <3>6. Cardinality(Blocks(q, e) \cap Free(e)') = arena'[q].cnt
      BY <3>2, <3>3, <3>5
    <3>. QED  BY <2>2, <3>3, <3>4, <3>5, <3>6
  <2>. QED  BY <2>3, <2>4
<1>16. CallInv'
  <2>1. free_list'[d] # <<>>
    <3>1. free_list'[d] = CutList(p, d)
      BY <1>1, <1>4 DEF IInv, TypeOK
    <3>2. CutList(p, d) # <<>>
      BY <1>5 DEF CutList
    <3>. QED  BY <3>1, <3>2
  <2>. QED  BY <1>0, <1>1, <1>2, <1>3, <2>1 DEF IInv, TypeOK, CallInv
<1>17. HaltsOnlyForMemory'
  BY <1>1 DEF HaltsOnlyForMemory
<1>. QED  BY <1>7, <1>9, <1>12, <1>14, <1>15, <1>16, <1>17 DEF IInv

-----------------------------------------------------------------------------
(* The steps that take a block and give one back. *)

\* The list after its first element was taken.
LEMMA TailSet ==
    ASSUME NEW A, NEW s \in Seq(A), s # <<>>, IsInjective(s)
    PROVE  /\ Tail(s) \in Seq(A) /\ IsInjective(Tail(s))
           /\ Head(s) \in ToSet(s) /\ ToSet(Tail(s)) = ToSet(s) \ {Head(s)}
<1>. DEFINE n == Len(s)
<1>1. n \in Nat \ {0} /\ DOMAIN s = 1 .. n /\ Head(s) = s[1]
  OBVIOUS
<1>2. Tail(s) \in Seq(A) /\ DOMAIN Tail(s) = 1 .. n - 1
  BY <1>1
<1>3. \A i \in 1 .. n - 1 : Tail(s)[i] = s[i + 1]
  BY <1>1
<1>4. \A i, j \in 1 .. n : s[i] = s[j] => i = j
  BY <1>1 DEF IsInjective
<1>5. IsInjective(Tail(s))
  BY <1>1, <1>2, <1>3, <1>4 DEF IsInjective
<1>6. Head(s) \in ToSet(s)
  BY <1>1 DEF ToSet
<1>7. \A i \in 1 .. n - 1 : Tail(s)[i] \in ToSet(s) \ {Head(s)}
  BY <1>1, <1>3, <1>4 DEF ToSet
<1>8. \A i \in 2 .. n : i - 1 \in 1 .. n - 1 /\ s[i] = Tail(s)[i - 1]
  BY <1>1, <1>3
<1>9. \A i \in 1 .. n : i = 1 \/ i \in 2 .. n
  BY <1>1
<1>10. ToSet(Tail(s)) = ToSet(s) \ {Head(s)}
  <2>1. \A x \in ToSet(Tail(s)) : x \in ToSet(s) \ {Head(s)}
    BY <1>2, <1>7 DEF ToSet
  <2>2. \A x \in ToSet(s) \ {Head(s)} : x \in ToSet(Tail(s))
    <3>. SUFFICES ASSUME NEW i \in 1 .. n, s[i] # s[1] PROVE s[i] \in ToSet(Tail(s))
      BY <1>1 DEF ToSet
    <3>1. i \in 2 .. n
      BY <1>9
    <3>2. i - 1 \in DOMAIN Tail(s) /\ s[i] = Tail(s)[i - 1]
      BY <1>2, <1>8, <3>1
    <3>. QED  BY <3>2 DEF ToSet
  <2>. QED  BY <2>1, <2>2
<1>. QED  BY <1>2, <1>5, <1>6, <1>10

\* The list after an element was put behind it.
LEMMA AppendSet ==
    ASSUME NEW A, NEW s \in Seq(A), NEW a \in A, a \notin ToSet(s), IsInjective(s)
    PROVE  /\ Append(s, a) \in Seq(A) /\ IsInjective(Append(s, a))
           /\ ToSet(Append(s, a)) = ToSet(s) \cup {a}
<1>. DEFINE n == Len(s)
            r == Append(s, a)
<1>1. /\ n \in Nat /\ DOMAIN s = 1 .. n /\ r \in Seq(A) /\ DOMAIN r = 1 .. n + 1
      /\ r[n + 1] = a /\ \A i \in 1 .. n : r[i] = s[i]
  OBVIOUS
<1>2. \A i \in 1 .. n + 1 : i = n + 1 \/ i \in 1 .. n
  BY <1>1
<1>3. \A i \in 1 .. n : s[i] # a /\ s[i] \in ToSet(s)
  BY <1>1 DEF ToSet
<1>4. \A i, j \in 1 .. n : s[i] = s[j] => i = j
  BY <1>1 DEF IsInjective
<1>. HIDE DEF r
<1>5. IsInjective(r)
  BY <1>1, <1>2, <1>3, <1>4 DEF IsInjective
<1>6. ToSet(r) = ToSet(s) \cup {a}
  <2>1. \A i \in 1 .. n + 1 : r[i] \in ToSet(s) \cup {a}
    BY <1>1, <1>2, <1>3
  <2>2. \A i \in 1 .. n : i \in 1 .. n + 1 /\ r[i] = s[i]
    BY <1>1
  <2>3. n + 1 \in 1 .. n + 1
    BY <1>1
  <2>. QED  BY <1>1, <2>1, <2>2, <2>3 DEF ToSet
<1>. QED  BY <1>1, <1>5, <1>6 DEF r

\* An arena's count says nothing of its pages and of the blocks in them.
LEMMA CountChanged ==
    ASSUME IInv, NEW p \in Pages, SmallAt(p), NEW n \in Nat,
           arena' = [arena EXCEPT ![p].cnt = n], UNCHANGED mapped
    PROVE  /\ arena' \in [Pages -> [desc : Desc, cnt : Nat, large : BOOLEAN]]
           /\ arena'[p].cnt = n
           /\ \A q \in Pages : q # p => arena'[q] = arena[q]
           /\ \A q \in Pages : arena'[q].desc = arena[q].desc /\ arena'[q].large = arena[q].large
           /\ HeaderInv' /\ PageInv'
           /\ \A c : IsBlock(c)' = IsBlock(c)
           /\ \A u \in Threads : \A b \in held[u] : Fits(b[1], b[2])'
<1>1. /\ arena' \in [Pages -> [desc : Desc, cnt : Nat, large : BOOLEAN]]
      /\ arena'[p] = [arena[p] EXCEPT !.cnt = n]
      /\ \A q \in Pages : q # p => arena'[q] = arena[q]
  BY DEF IInv, TypeOK
<1>2. arena'[p].cnt = n /\ arena'[p].desc = arena[p].desc /\ arena'[p].large = arena[p].large
  <2>1. arena[p] \in [desc : Desc, cnt : Nat, large : BOOLEAN]
    BY DEF IInv, TypeOK
  <2>. QED  BY <1>1, <2>1
<1>3. \A q \in Pages : arena'[q].desc = arena[q].desc /\ arena'[q].large = arena[q].large
  BY <1>1, <1>2
<1>4. arena[p] # NoArena /\ ~LargeAt(p)
  BY ArenaKinds
<1>5. HeaderInv'
  <2>. SUFFICES ASSUME NEW q \in Pages
                PROVE  \/ arena'[q] = NoArena
                       \/ arena'[q].large /\ arena'[q].desc = None /\ arena'[q].cnt > 0
                       \/ arena'[q].desc # None /\ ~arena'[q].large
    BY DEF HeaderInv, SmallAt, LargeAt
  <2>1. CASE q = p
    BY <1>2, <1>4, <2>1 DEF SmallAt, LargeAt
  <2>2. CASE q # p
    BY <1>1, <2>2 DEF IInv, HeaderInv, SmallAt, LargeAt
  <2>. QED  BY <2>1, <2>2
<1>6. \A q \in Pages : OwnRun(q)' = OwnRun(q)
  <2>1. \A q \in Pages : q # p => OwnRun(q)' = OwnRun(q)
    BY <1>1 DEF OwnRun, LargeAt
  <2>2. OwnRun(p)' = OwnRun(p)
    BY <1>3, <1>4 DEF OwnRun, LargeAt
  <2>. QED  BY <2>1, <2>2
<1>7. PageInv'
  <2>1. \A q \in Pages : arena'[q] # NoArena => arena[q] # NoArena
    BY <1>1, <1>4
  <2>. QED  BY <1>6, <2>1 DEF IInv, PageInv
<1>8. \A c : IsBlock(c)' = IsBlock(c)
  BY <1>3 DEF IsBlock, SmallAt, LargeAt
<1>9. \A u \in Threads : \A b \in held[u] : Fits(b[1], b[2])'
  <2>. SUFFICES ASSUME NEW u \in Threads, NEW b \in held[u] PROVE Fits(b[1], b[2])'
    OBVIOUS
  <2>1. b[1] \in Given(u)
    BY DEF Given
  <2>2. PICK q : q = block2arena(b[1])
    OBVIOUS
  <2>3. q \in Pages
    BY <2>1, <2>2, GivenPlace
  <2>4. Fits(b[1], b[2])
    BY DEF IInv, GivenInv
  <2>5. CASE q = p
    BY <1>3, <1>4, <2>2, <2>3, <2>4, <2>5 DEF Fits, LargeAt
  <2>6. CASE q # p
    BY <1>1, <2>2, <2>3, <2>4, <2>6 DEF Fits, LargeAt
  <2>. QED  BY <2>5, <2>6
<1>. QED  BY <1>1, <1>2, <1>3, <1>5, <1>7, <1>8, <1>9

LEMMA PopStep ==
    ASSUME IInv, NEW t \in Threads, Pop(t)
    PROVE  IInv'
<1>0. PICK d, a, p, size : /\ d = DescOf(call[t]) /\ a = Head(free_list[d])
                           /\ p = block2arena(a) /\ size = call[t]
  OBVIOUS
<1>1. /\ pc[t] = "pop" /\ panic = "no"
      /\ free_list' = [free_list EXCEPT ![d] = Tail(free_list[d])]
      /\ arena' = [arena EXCEPT ![p].cnt = arena[p].cnt - 1]
      /\ held' = [held EXCEPT ![t] = @ \cup {<<a, size>>}]
      /\ pc' = [pc EXCEPT ![t] = "unlock"] /\ call' = [call EXCEPT ![t] = 0]
      /\ UNCHANGED <<bits, mapped, frames, raced, holder, panic>>
      /\ free_list[d] # <<>>
  <2>1. pc[t] = "pop" /\ free_list[d] # <<>>
    BY <1>0 DEF Pop, At, IInv, CallInv
  <2>. QED  BY <1>0, <2>1 DEF Pop, At, Give, Done, Goto
<1>2. /\ holder = t
      /\ \A u \in Threads : u # t => pc[u] \in {"out", "malloc", "free"}
      /\ \A q : ~Uncounted(q)
      /\ \A q : JustCut(q) => /\ arena[q].desc = d
                              /\ Free(arena[q].desc) \subseteq Blocks(q, arena[q].desc)
  BY <1>0, <1>1, LockExcludes
<1>3. size \in Nat /\ size \in Sizes /\ ~Large(size)
  BY <1>0, <1>1 DEF IInv, TypeOK, CallInv
<1>4. d \in Descs /\ size <= block_size[d]
  BY <1>0, <1>3, SmallFits
<1>5. free_list[d] \in Seq(Addresses) /\ IsInjective(free_list[d])
  BY <1>4 DEF IInv, TypeOK, ListInv
<1>6. /\ Tail(free_list[d]) \in Seq(Addresses) /\ IsInjective(Tail(free_list[d]))
      /\ a \in Free(d) /\ ToSet(Tail(free_list[d])) = Free(d) \ {a}
  BY <1>0, <1>1, <1>5, TailSet DEF Free
<1>7. /\ free_list'[d] = Tail(free_list[d]) /\ Free(d)' = Free(d) \ {a}
      /\ \A e \in Descs : e # d => free_list'[e] = free_list[e] /\ Free(e)' = Free(e)
  BY <1>1, <1>4, <1>6 DEF IInv, TypeOK, Free
<1>8. p \in Pages /\ a \in Blocks(p, d) /\ SmallAt(p) /\ arena[p].desc = d /\ ~LargeAt(p)
  BY <1>0, <1>4, <1>6, FreePlace, ArenaKinds
<1>9. a \in Addresses /\ a \in Nat
  BY <1>4, <1>8, BlockPlace
<1>. DEFINE free == Blocks(p, d) \cap Free(d)
<1>10. /\ IsFiniteSet(free) /\ arena[p].cnt \in Nat /\ Cardinality(free) = arena[p].cnt
       /\ arena[p].cnt - 1 \in Nat /\ arena[p].cnt - 1 < block_per_arena[d]
  <2>1. IsFiniteSet(Blocks(p, d)) /\ Cardinality(Blocks(p, d)) = block_per_arena[d]
    BY <1>4, <1>8, Cut
  <2>2. free \in SUBSET Blocks(p, d) /\ a \in free
    BY <1>6, <1>8
  <2>3. arena[p].cnt \in Nat /\ Cardinality(free) = arena[p].cnt
    BY <1>2, <1>4, <1>8, CountOf
  <2>. HIDE DEF free
  <2>4. IsFiniteSet(free) /\ Cardinality(free) <= block_per_arena[d] /\ Cardinality(free) # 0
    BY <2>1, <2>2, FS_Subset, FS_EmptySet
  <2>5. block_per_arena[d] \in Nat
    BY <1>4, PerArena
  <2>. QED  BY <2>3, <2>4, <2>5
<1>11. /\ arena' \in [Pages -> [desc : Desc, cnt : Nat, large : BOOLEAN]]
       /\ arena'[p].cnt = arena[p].cnt - 1
       /\ \A q \in Pages : q # p => arena'[q] = arena[q]
       /\ \A q \in Pages : arena'[q].desc = arena[q].desc /\ arena'[q].large = arena[q].large
       /\ HeaderInv' /\ PageInv'
       /\ \A c : IsBlock(c)' = IsBlock(c)
       /\ \A u \in Threads : \A b \in held[u] : Fits(b[1], b[2])'
  BY <1>1, <1>8, <1>10, CountChanged
<1>12. TypeOK'
  BY <1>1, <1>3, <1>4, <1>6, <1>9, <1>11 DEF IInv, TypeOK
<1>13. ListInv'
  <2>. SUFFICES ASSUME NEW e \in Descs
                PROVE  /\ IsInjective(free_list'[e])
                       /\ \A c \in Free(e)' :
                             LET q == block2arena(c)
                             IN  q \in Pages /\ arena'[q].desc = e /\ c \in Blocks(q, e)
    BY DEF ListInv
  <2>1. IsInjective(free_list'[e])
    BY <1>6, <1>7 DEF IInv, ListInv
  <2>2. Free(e)' \subseteq Free(e)
    BY <1>7
  <2>3. \A c \in Free(e) : block2arena(c) \in Pages /\ c \in Blocks(block2arena(c), e)
                           /\ arena'[block2arena(c)].desc = e
    BY <1>11, FreePlace
  <2>. QED  BY <2>1, <2>2, <2>3
<1>14. /\ GivenInv'
       /\ \A u \in Threads : Given(u)' = IF u = t THEN Given(t) \cup {a} ELSE Given(u)
  <2>1. \A u \in Threads : \A c \in Given(u) :
            c # a /\ IsBlock(c)' /\ \A e \in Descs : c \notin Free(e)'
    BY <1>4, <1>6, <1>7, <1>11, GivenPlace
  <2>2. \A u \in Threads : \A b \in held[u] : Fits(b[1], b[2])'
    BY <1>11
  <2>3. pc[t] # "free" /\ pc[t] # "give"
    BY <1>1
  <2>4. held' = [held EXCEPT ![t] = @ \cup {<<a, size>>}]
    BY <1>1
  <2>5. pc' = [pc EXCEPT ![t] = "unlock"] /\ call' = [call EXCEPT ![t] = 0]
    BY <1>1
  <2>6. IsBlock(a)'
    BY <1>0, <1>8, <1>11 DEF IsBlock
  <2>7. Fits(a, size)'
    BY <1>0, <1>4, <1>8, <1>11 DEF Fits, LargeAt
  <2>8. \A e \in Descs : a \notin Free(e)'
    <3>1. \A e \in Descs : a \in Free(e) => e = d
      BY <1>0, <1>8, FreePlace
    <3>. QED  BY <1>7, <3>1
  <2>9. IsBlock(a)' /\ Fits(a, size)' /\ \A e \in Descs : a \notin Free(e)'
    BY <2>6, <2>7, <2>8
  <2>. QED  BY <2>1, <2>2, <2>3, <2>4, <2>5, <2>9, BlockGiven
<1>15. CountInv'
  <2>1. SUFFICES ASSUME NEW q \in Pages, NEW e \in Descs, arena'[q].desc = e
                 PROVE  /\ ~Uncounted(q)'
                        /\ Cardinality(Blocks(q, e) \cap Free(e)') = arena'[q].cnt
                        /\ \A c \in Blocks(q, e) \ Free(e)' : \E u \in Threads : c \in Given(u)'
                        /\ arena'[q].cnt < block_per_arena[e]
    BY <1>12, CountsKept
  <2>2. ~Uncounted(q)'
    BY <1>1, <1>2 DEF Uncounted, IInv, TypeOK
  <2>3. arena[q].desc = e
    BY <1>11, <2>1
  <2>4. /\ Cardinality(Blocks(q, e) \cap Free(e)) = arena[q].cnt
        /\ \A c \in Blocks(q, e) \ Free(e) : \E u \in Threads : c \in Given(u)
        /\ arena[q].cnt < block_per_arena[e] \/ JustCut(q)
    BY <1>2, <2>3, CountOf
  <2>5. \A c \in Blocks(q, e) \ Free(e)' : \E u \in Threads : c \in Given(u)'
    <3>1. \A u \in Threads : Given(u) \subseteq Given(u)'
      BY <1>14
    <3>2. a \in Given(t)'
      BY <1>14
    <3>3. \A c \in Blocks(q, e) \ Free(e)' : c = a \/ c \notin Free(e)
      BY <1>7
    <3>. QED  BY <2>4, <3>1, <3>2, <3>3
  <2>6. CASE q = p
    <3>1. e = d
      BY <1>8, <2>3, <2>6
    <3>2. Blocks(q, e) \cap Free(e)' = free \ {a} /\ a \in free
      BY <1>6, <1>7, <1>8, <2>6, <3>1
    <3>. HIDE DEF free
    <3>3. Cardinality(free \ {a}) = Cardinality(free) - 1
      BY <1>10, <3>2, FS_RemoveElement
    <3>4. Cardinality(Blocks(q, e) \cap Free(e)') = arena'[q].cnt
      BY <1>10, <1>11, <2>6, <3>2, <3>3
    <3>. QED  BY <1>10, <1>11, <2>2, <2>5, <2>6, <3>1, <3>4
  <2>7. CASE q # p
    <3>1. arena'[q] = arena[q]
      BY <1>11, <2>7
    <3>2. a \notin Blocks(q, e)
      BY <1>0, <2>7, BlockPlace
    <3>3. Blocks(q, e) \cap Free(e)' = Blocks(q, e) \cap Free(e)
      BY <1>7, <3>2
    <3>4. ~JustCut(q)
      BY <1>2, <1>6, <2>3, <3>2
    <3>5. Cardinality(Blocks(q, e) \cap Free(e)') = arena'[q].cnt
      BY <2>4, <3>1, <3>3
    <3>. QED  BY <2>2, <2>4, <2>5, <3>1, <3>4, <3>5
  <2>. QED  BY <2>6, <2>7
<1>16. CallInv'
  BY <1>1, <1>2 DEF IInv, TypeOK, CallInv
<1>17. HaltsOnlyForMemory'
  BY <1>1 DEF HaltsOnlyForMemory
<1>18. MarkedInv'
  BY <1>1 DEF IInv, MarkedInv
<1>. QED  BY <1>11, <1>12, <1>13, <1>14, <1>15, <1>16, <1>17, <1>18 DEF IInv

\* Pages given back leave the other arenas, and what lies in them, as they are.
LEMMA PagesFreed ==
    ASSUME IInv, NEW p \in Pages, arena[p] # NoArena,
           NEW n, OwnRun(p) = p .. p + n - 1, FreePages(p, n)
    PROVE  /\ arena' \in [Pages -> [desc : Desc, cnt : Nat, large : BOOLEAN]]
           /\ arena'[p] = NoArena
           /\ \A q \in Pages : q # p => arena'[q] = arena[q]
           /\ UNCHANGED <<bits, frames, raced>> /\ mapped' \subseteq mapped
           /\ HeaderInv' /\ PageInv' /\ MarkedInv'
           /\ \A c : IsBlock(c) /\ block2arena(c) # p => IsBlock(c)'
           /\ \A u \in Threads : \A b \in held[u] :
                  block2arena(b[1]) # p => Fits(b[1], b[2])'
<1>1. /\ UNCHANGED <<bits, frames, raced>>
      /\ mapped' = mapped \ OwnRun(p)
      /\ arena' = [q \in Pages |-> IF q \in OwnRun(p) THEN NoArena ELSE arena[q]]
  BY SetRunZeros DEF FreePages
<1>2. p \in OwnRun(p)
  BY ArenaKinds
<1>3. \A q \in Pages : q # p /\ q \in OwnRun(p) => arena[q] = NoArena
  <2>1. \A q \in Pages : arena[q] # NoArena => q \in OwnRun(q)
    BY ArenaKinds
  <2>. QED  BY <2>1 DEF IInv, PageInv
<1>4. arena'[p] = NoArena /\ \A q \in Pages : q # p => arena'[q] = arena[q]
  BY <1>1, <1>2, <1>3
<1>5. NoArena \in [desc : Desc, cnt : Nat, large : BOOLEAN]
  BY DEF NoArena, Desc
<1>6. arena' \in [Pages -> [desc : Desc, cnt : Nat, large : BOOLEAN]]
  <2>1. \A q \in Pages : arena'[q] \in [desc : Desc, cnt : Nat, large : BOOLEAN]
    BY <1>4, <1>5 DEF IInv, TypeOK
  <2>. QED  BY <1>1, <2>1
<1>7. HeaderInv'
  <2>. SUFFICES ASSUME NEW q \in Pages
                PROVE  \/ arena'[q] = NoArena
                       \/ arena'[q].large /\ arena'[q].desc = None /\ arena'[q].cnt > 0
                       \/ arena'[q].desc # None /\ ~arena'[q].large
    BY DEF HeaderInv, SmallAt, LargeAt
  <2>1. CASE q = p
    BY <1>4, <2>1
  <2>2. CASE q # p
    BY <1>4, <2>2 DEF IInv, HeaderInv, SmallAt, LargeAt
  <2>. QED  BY <2>1, <2>2
<1>8. \A q \in Pages : q # p => OwnRun(q)' = OwnRun(q)
  BY <1>4 DEF OwnRun, LargeAt
<1>9. PageInv'
  <2>1. \A q \in Pages : arena'[q] # NoArena => q # p /\ arena[q] # NoArena
    BY <1>4
  <2>2. \A q \in Pages : arena'[q] # NoArena => OwnRun(q)' \subseteq mapped'
    <3>. SUFFICES ASSUME NEW q \in Pages, q # p, arena[q] # NoArena
                  PROVE  OwnRun(q) \subseteq mapped \ OwnRun(p)
      BY <1>1, <1>8, <2>1
    <3>. QED  BY DEF IInv, PageInv
  <2>3. \A q, r \in Pages : arena'[q] # NoArena /\ arena'[r] # NoArena /\ q # r =>
            OwnRun(q)' \cap OwnRun(r)' = {}
    BY <1>8, <2>1 DEF IInv, PageInv
  <2>. QED  BY <2>2, <2>3 DEF PageInv
<1>10. \A c : IsBlock(c) /\ block2arena(c) # p => IsBlock(c)'
  BY <1>4 DEF IsBlock, SmallAt, LargeAt
<1>11. \A u \in Threads : \A b \in held[u] : block2arena(b[1]) # p => Fits(b[1], b[2])'
  <2>. SUFFICES ASSUME NEW u \in Threads, NEW b \in held[u], block2arena(b[1]) # p
                PROVE  Fits(b[1], b[2])'
    OBVIOUS
  <2>1. block2arena(b[1]) \in Pages
    <3>1. b[1] \in Given(u)
      BY DEF Given
    <3>. QED  BY <3>1, GivenPlace
  <2>2. Fits(b[1], b[2])
    BY DEF IInv, GivenInv
  <2>. QED  BY <1>4, <2>1, <2>2 DEF Fits, LargeAt
<1>12. MarkedInv'
  BY <1>1 DEF IInv, MarkedInv
<1>. QED  BY <1>1, <1>4, <1>6, <1>7, <1>9, <1>10, <1>11, <1>12

\* A step that gives no block keeps GivenInv if what is given stays a block.
LEMMA NothingGiven ==
    ASSUME IInv, UNCHANGED held,
           \A u \in Threads : Given(u)' \subseteq Given(u),
           \A u \in Threads : pc'[u] \in {"free", "give"} =>
               pc[u] \in {"free", "give"} /\ call'[u] = call[u],
           \A u \in Threads : \A c \in Given(u)' :
               IsBlock(c)' /\ \A d \in Descs : c \notin Free(d)',
           \A u \in Threads : \A b \in held[u] : Fits(b[1], b[2])'
    PROVE  GivenInv'
<1>1. \A u, w \in Threads : u # w => Given(u)' \cap Given(w)' = {}
  <2>1. \A u, w \in Threads : u # w => Given(u) \cap Given(w) = {}
    BY DEF IInv, GivenInv
  <2>. QED  BY <2>1
<1>2. \A u \in Threads : \A b, c \in held'[u] : b[1] = c[1] => b = c
  BY DEF IInv, GivenInv
<1>3. \A u \in Threads : pc'[u] \in {"free", "give"} => \A b \in held'[u] : b[1] # call'[u]
  BY DEF IInv, GivenInv
<1>. QED  BY <1>1, <1>2, <1>3 DEF GivenInv

\* When sys_free takes the block it was passed, t has it no longer.
LEMMA BlockReturned ==
    ASSUME IInv, NEW t \in Threads, pc[t] = "give", UNCHANGED held,
           pc'[t] # "free" /\ pc'[t] # "give",
           \A u \in Threads : u # t => pc'[u] = pc[u] /\ call'[u] = call[u]
    PROVE  /\ \A u \in Threads : u # t => Given(u)' = Given(u)
           /\ Given(t)' = Given(t) \ {call[t]} /\ call[t] \in Given(t)
           /\ \A u \in Threads : call[t] \notin Given(u)'
           /\ \A u \in Threads : \A b \in held[u] : b[1] \in Given(u)'
<1>1. \A u \in Threads : u # t => Given(u)' = Given(u)
  BY DEF Given
<1>2. Given(t) = {b[1] : b \in held[t]} \cup {call[t]}
  BY DEF Given
<1>3. Given(t)' = {b[1] : b \in held[t]}
  BY DEF Given
<1>4. \A b \in held[t] : b[1] # call[t]
  BY DEF IInv, GivenInv
<1>5. Given(t)' = Given(t) \ {call[t]} /\ call[t] \in Given(t)
  BY <1>2, <1>3, <1>4
<1>6. \A u \in Threads : call[t] \notin Given(u)'
  BY <1>1, <1>5 DEF IInv, GivenInv
<1>7. \A u \in Threads : \A b \in held[u] : b[1] \in Given(u)'
  BY DEF Given
<1>. QED  BY <1>1, <1>5, <1>6, <1>7

LEMMA FreeLargeStep ==
    ASSUME IInv, NEW t \in Threads, FreeLarge(t)
    PROVE  IInv'
<1>0. PICK a, p, n : a = call[t] /\ p = block2arena(a) /\ n = arena[p].cnt
  OBVIOUS
<1>1. /\ pc[t] = "give" /\ panic = "no" /\ arena[p].desc = None /\ arena[p].large
      /\ FreePages(p, n)
      /\ pc' = [pc EXCEPT ![t] = "unlock"] /\ call' = [call EXCEPT ![t] = 0]
      /\ UNCHANGED <<free_list, held, holder, panic>>
  BY <1>0 DEF FreeLarge, At, Done, Goto
<1>2. /\ holder = t
      /\ \A u \in Threads : u # t => pc[u] \in {"out", "malloc", "free"}
      /\ \A q : ~Uncounted(q) /\ ~JustCut(q)
  BY <1>1, LockExcludes
<1>3. pc'[t] = "unlock" /\ \A u \in Threads : u # t => pc'[u] = pc[u] /\ call'[u] = call[u]
  BY <1>1 DEF IInv, TypeOK
<1>4. /\ \A u \in Threads : u # t => Given(u)' = Given(u)
      /\ Given(t)' = Given(t) \ {a} /\ a \in Given(t)
      /\ \A u \in Threads : a \notin Given(u)'
      /\ \A u \in Threads : \A b \in held[u] : b[1] \in Given(u)'
  BY <1>0, <1>1, <1>3, BlockReturned
<1>5. p \in Pages /\ IsBlock(a) /\ LargeAt(p) /\ ~SmallAt(p) /\ arena[p] # NoArena
  BY <1>0, <1>1, <1>4, GivenPlace, ArenaKinds DEF LargeAt
<1>6. a = p * PG_SIZE + Header
  BY <1>0, <1>5 DEF IsBlock
<1>7. OwnRun(p) = p .. p + n - 1
  BY <1>0, <1>5 DEF OwnRun
<1>8. /\ arena' \in [Pages -> [desc : Desc, cnt : Nat, large : BOOLEAN]]
      /\ arena'[p] = NoArena
      /\ \A q \in Pages : q # p => arena'[q] = arena[q]
      /\ UNCHANGED <<bits, frames, raced>> /\ mapped' \subseteq mapped
      /\ HeaderInv' /\ PageInv' /\ MarkedInv'
      /\ \A c : IsBlock(c) /\ block2arena(c) # p => IsBlock(c)'
      /\ \A u \in Threads : \A b \in held[u] : block2arena(b[1]) # p => Fits(b[1], b[2])'
  BY <1>1, <1>5, <1>7, PagesFreed
<1>9. TypeOK'
  BY <1>1, <1>8 DEF IInv, TypeOK
<1>10. \A d \in Descs : free_list'[d] = free_list[d] /\ Free(d)' = Free(d)
  BY <1>1 DEF Free
<1>11. ListInv'
  <2>1. \A d \in Descs : \A c \in Free(d) : /\ block2arena(c) \in Pages
                                            /\ c \in Blocks(block2arena(c), d)
                                            /\ arena'[block2arena(c)].desc = d
    BY <1>5, <1>8, FreePlace
  <2>. QED  BY <1>10, <2>1 DEF IInv, ListInv
<1>12. \A u \in Threads : \A c \in Given(u)' : c \in Given(u) /\ block2arena(c) # p
  <2>1. \A u \in Threads : \A c \in Given(u)' : c \in Given(u) /\ c # a
    BY <1>4
  <2>2. \A u \in Threads : \A c \in Given(u) : IsBlock(c)
    BY GivenPlace
  <2>3. \A c : IsBlock(c) /\ block2arena(c) = p => c = a
    BY <1>5, <1>6 DEF IsBlock
  <2>. QED  BY <2>1, <2>2, <2>3
<1>13. GivenInv'
  <2>1. \A u \in Threads : \A c \in Given(u)' : IsBlock(c)' /\ \A d \in Descs : c \notin Free(d)'
    BY <1>8, <1>10, <1>12, GivenPlace
  <2>2. \A u \in Threads : \A b \in held[u] : Fits(b[1], b[2])'
    BY <1>4, <1>8, <1>12
  <2>3. \A u \in Threads : Given(u)' \subseteq Given(u)
    BY <1>12
  <2>4. \A u \in Threads : pc'[u] \in {"free", "give"} =>
            pc[u] \in {"free", "give"} /\ call'[u] = call[u]
    BY <1>3
  <2>. QED  BY <1>1, <2>1, <2>2, <2>3, <2>4, NothingGiven
<1>14. CountInv'
  <2>1. SUFFICES ASSUME NEW q \in Pages, NEW e \in Descs, arena'[q].desc = e
                 PROVE  /\ ~Uncounted(q)'
                        /\ Cardinality(Blocks(q, e) \cap Free(e)') = arena'[q].cnt
                        /\ \A c \in Blocks(q, e) \ Free(e)' : \E u \in Threads : c \in Given(u)'
                        /\ arena'[q].cnt < block_per_arena[e]
    BY <1>9, CountsKept
  <2>2. ~Uncounted(q)'
    BY <1>2, <1>3 DEF Uncounted
  <2>3. q # p
    BY <1>8, <2>1, Ranges DEF NoArena
  <2>4. arena'[q] = arena[q] /\ arena[q].desc = e
    BY <1>8, <2>1, <2>3
  <2>5. /\ Cardinality(Blocks(q, e) \cap Free(e)) = arena[q].cnt
        /\ \A c \in Blocks(q, e) \ Free(e) : \E u \in Threads : c \in Given(u)
        /\ arena[q].cnt < block_per_arena[e]
    BY <1>2, <2>4, CountOf
  <2>6. \A c \in Blocks(q, e) \ Free(e)' : \E u \in Threads : c \in Given(u)'
    <3>1. \A c \in Blocks(q, e) : c # a
      BY <1>0, <2>3, BlockPlace
    <3>2. \A u \in Threads : Given(u) \ {a} \subseteq Given(u)'
      BY <1>4
    <3>. QED  BY <1>10, <2>5, <3>1, <3>2
  <2>. QED  BY <1>10, <2>2, <2>4, <2>5, <2>6
<1>15. CallInv'
  BY <1>1, <1>2 DEF IInv, TypeOK, CallInv
<1>16. HaltsOnlyForMemory'
  BY <1>1 DEF HaltsOnlyForMemory
<1>. QED  BY <1>8, <1>9, <1>11, <1>13, <1>14, <1>15, <1>16 DEF IInv

LEMMA FreeBlockStep ==
    ASSUME IInv, NEW t \in Threads, FreeBlock(t)
    PROVE  IInv'
<1>0. PICK a, p, d : a = call[t] /\ p = block2arena(a) /\ d = arena[p].desc
  OBVIOUS
<1>1. /\ pc[t] = "give" /\ panic = "no" /\ ~arena[p].large
      /\ free_list' = [free_list EXCEPT ![d] = Append(free_list[d], a)]
      /\ pc' = [pc EXCEPT ![t] = "count"]
      /\ UNCHANGED <<bits, mapped, frames, raced, arena, held, holder, call, panic>>
  BY <1>0 DEF FreeBlock, At, Goto
<1>2. /\ holder = t
      /\ \A u \in Threads : u # t => pc[u] \in {"out", "malloc", "free"}
      /\ \A q : ~Uncounted(q) /\ ~JustCut(q)
  BY <1>1, LockExcludes
<1>3. pc'[t] = "count" /\ \A u \in Threads : u # t => pc'[u] = pc[u] /\ call'[u] = call[u]
  BY <1>1 DEF IInv, TypeOK
<1>4. /\ \A u \in Threads : u # t => Given(u)' = Given(u)
      /\ Given(t)' = Given(t) \ {a} /\ a \in Given(t)
      /\ \A u \in Threads : a \notin Given(u)'
      /\ \A u \in Threads : \A b \in held[u] : b[1] \in Given(u)'
  BY <1>0, <1>1, <1>3, BlockReturned
<1>5. p \in Pages /\ IsBlock(a) /\ \A e \in Descs : a \notin Free(e)
  BY <1>0, <1>4, GivenPlace
<1>6. SmallAt(p) /\ a \in Blocks(p, d)
  BY <1>0, <1>1, <1>5 DEF IsBlock, LargeAt
<1>7. d \in Descs /\ a \in Addresses
  BY <1>0, <1>5, <1>6, ArenaKinds, BlockPlace
<1>8. free_list[d] \in Seq(Addresses) /\ IsInjective(free_list[d])
  BY <1>7 DEF IInv, TypeOK, ListInv
<1>9. /\ Append(free_list[d], a) \in Seq(Addresses) /\ IsInjective(Append(free_list[d], a))
      /\ ToSet(Append(free_list[d], a)) = Free(d) \cup {a}
  BY <1>5, <1>7, <1>8, AppendSet DEF Free
<1>10. /\ free_list'[d] = Append(free_list[d], a) /\ Free(d)' = Free(d) \cup {a}
       /\ \A e \in Descs : e # d => free_list'[e] = free_list[e] /\ Free(e)' = Free(e)
  BY <1>1, <1>7, <1>9 DEF IInv, TypeOK, Free
<1>11. TypeOK'
  BY <1>1, <1>7, <1>9 DEF IInv, TypeOK
<1>12. HeaderInv' /\ PageInv'
  BY <1>1 DEF IInv, HeaderInv, PageInv, OwnRun, LargeAt, SmallAt
<1>13. ListInv'
  <2>. SUFFICES ASSUME NEW e \in Descs
                PROVE  /\ IsInjective(free_list'[e])
                       /\ \A c \in Free(e)' :
                             LET q == block2arena(c)
                             IN  q \in Pages /\ arena'[q].desc = e /\ c \in Blocks(q, e)
    BY DEF ListInv
  <2>1. IsInjective(free_list'[e])
    BY <1>9, <1>10 DEF IInv, ListInv
  <2>2. \A c \in Free(e) : block2arena(c) \in Pages /\ c \in Blocks(block2arena(c), e)
                           /\ arena'[block2arena(c)].desc = e
    BY <1>1, FreePlace
  <2>3. \A c \in Free(e)' : c \in Free(e) \/ (c = a /\ e = d)
    BY <1>10
  <2>. QED  BY <1>0, <1>1, <1>5, <1>6, <2>1, <2>2, <2>3
<1>14. GivenInv'
  <2>1. \A u \in Threads : Given(u)' \subseteq Given(u)
    BY <1>4
  <2>2. \A u \in Threads : \A c \in Given(u)' : IsBlock(c)' /\ \A e \in Descs : c \notin Free(e)'
    <3>1. \A c : IsBlock(c)' = IsBlock(c)
      BY <1>1 DEF IsBlock, SmallAt, LargeAt
    <3>. QED  BY <1>4, <1>10, <2>1, <3>1, GivenPlace
  <2>3. \A u \in Threads : \A b \in held[u] : Fits(b[1], b[2])'
    BY <1>1 DEF IInv, GivenInv, Fits, LargeAt
  <2>4. \A u \in Threads : pc'[u] \in {"free", "give"} =>
            pc[u] \in {"free", "give"} /\ call'[u] = call[u]
    BY <1>3
  <2>. QED  BY <1>1, <2>1, <2>2, <2>3, <2>4, NothingGiven
<1>15. CountInv'
  <2>1. SUFFICES ASSUME NEW q \in Pages, NEW e \in Descs, arena'[q].desc = e
                 PROVE  /\ Uncounted(q)' => Cardinality(Blocks(q, e) \cap Free(e)') = arena'[q].cnt + 1
                        /\ ~Uncounted(q)' => Cardinality(Blocks(q, e) \cap Free(e)') = arena'[q].cnt
                        /\ \A c \in Blocks(q, e) \ Free(e)' : \E u \in Threads : c \in Given(u)'
                        /\ arena'[q].cnt < block_per_arena[e]
    BY <1>11, CountsKept
  <2>2. Uncounted(q)' <=> q = p
    BY <1>0, <1>1, <1>2, <1>3 DEF Uncounted
  <2>3. arena'[q] = arena[q] /\ arena[q].desc = e
    BY <1>1, <2>1
  <2>4. /\ Cardinality(Blocks(q, e) \cap Free(e)) = arena[q].cnt
        /\ \A c \in Blocks(q, e) \ Free(e) : \E u \in Threads : c \in Given(u)
        /\ arena[q].cnt < block_per_arena[e]
    BY <1>2, <2>3, CountOf
  <2>5. \A c \in Blocks(q, e) \ Free(e)' : \E u \in Threads : c \in Given(u)'
    <3>1. \A u \in Threads : Given(u) \ {a} \subseteq Given(u)'
      BY <1>4
    <3>2. \A c \in Blocks(q, e) : c = a => e = d
      BY <1>0, <2>3, BlockPlace
    <3>3. \A c \in Blocks(q, e) \ Free(e)' : c # a /\ c \notin Free(e)
      BY <1>10, <3>2
    <3>. QED  BY <2>4, <3>1, <3>3
  <2>6. CASE q = p
    <3>. DEFINE free == Blocks(p, d) \cap Free(d)
    <3>1. e = d
      BY <1>0, <2>3, <2>6
    <3>2. Blocks(q, e) \cap Free(e)' = free \cup {a} /\ a \notin free
      BY <1>5, <1>6, <1>7, <1>10, <2>6, <3>1
    <3>3. IsFiniteSet(free)
      <4>1. IsFiniteSet(Blocks(p, d))
        BY <1>5, <1>7, Cut
      <4>2. free \in SUBSET Blocks(p, d)
        OBVIOUS
      <4>. HIDE DEF free
      <4>. QED  BY <4>1, <4>2, FS_Subset
    <3>4. Cardinality(free) = arena[q].cnt
      BY <2>4, <2>6, <3>1
    <3>. HIDE DEF free
    <3>5. Cardinality(free \cup {a}) = Cardinality(free) + 1
      BY <3>2, <3>3, FS_AddElement
    <3>6. Cardinality(Blocks(q, e) \cap Free(e)') = arena'[q].cnt + 1
      BY <2>3, <3>2, <3>4, <3>5
    <3>. QED  BY <2>2, <2>3, <2>4, <2>5, <2>6, <3>6
  <2>7. CASE q # p
    <3>1. a \notin Blocks(q, e)
      BY <1>0, <2>7, BlockPlace
    <3>2. Blocks(q, e) \cap Free(e)' = Blocks(q, e) \cap Free(e)
      BY <1>10, <3>1
    <3>3. Cardinality(Blocks(q, e) \cap Free(e)') = arena'[q].cnt
      BY <2>3, <2>4, <3>2
    <3>. QED  BY <2>2, <2>3, <2>4, <2>5, <2>7, <3>3
  <2>. QED  BY <2>6, <2>7
<1>16. CallInv'
  <2>1. LET q == block2arena(call'[t])
        IN  q \in Pages /\ arena'[q].desc # None /\ call'[t] \in ToSet(free_list'[arena'[q].desc])
    <3>1. call'[t] = a /\ arena'[p].desc = d /\ a \in ToSet(free_list'[d])
      BY <1>0, <1>1, <1>9, <1>10
    <3>. QED  BY <1>0, <1>5, <1>7, <3>1, Ranges
  <2>. QED  BY <1>1, <1>2, <1>3, <2>1 DEF IInv, TypeOK, CallInv, SmallAt, Free
<1>17. HaltsOnlyForMemory'
  BY <1>1 DEF HaltsOnlyForMemory
<1>18. MarkedInv'
  BY <1>1 DEF IInv, MarkedInv
<1>. QED  BY <1>11, <1>12, <1>13, <1>14, <1>15, <1>16, <1>17, <1>18 DEF IInv

LEMMA CountBlockStep ==
    ASSUME IInv, NEW t \in Threads, CountBlock(t)
    PROVE  IInv'
<1>0. PICK p, d : p = block2arena(call[t]) /\ d = arena[p].desc
  OBVIOUS
<1>1. pc[t] = "count" /\ panic = "no" /\ UNCHANGED <<held, holder>>
  BY DEF CountBlock, At
<1>2. /\ holder = t
      /\ \A u \in Threads : u # t => pc[u] \in {"out", "malloc", "free"}
      /\ \A q : Uncounted(q) => q = p
      /\ \A q : ~JustCut(q)
  BY <1>0, <1>1, LockExcludes
<1>3. p \in Pages /\ SmallAt(p) /\ Uncounted(p)
  BY <1>0, <1>1 DEF IInv, CallInv, Uncounted
<1>4. d \in Descs /\ ~LargeAt(p) /\ arena[p] # NoArena
  BY <1>0, <1>3, ArenaKinds
<1>5. /\ arena[p].cnt \in Nat /\ arena[p].cnt < block_per_arena[d]
      /\ Cardinality(Blocks(p, d) \cap Free(d)) = arena[p].cnt + 1
      /\ block_per_arena[d] \in Nat
      /\ IsFiniteSet(Blocks(p, d)) /\ Cardinality(Blocks(p, d)) = block_per_arena[d]
  BY <1>0, <1>2, <1>3, <1>4, CountOf, Cut, PerArena
<1>6. AllFree(p) <=> arena[p].cnt + 1 = block_per_arena[d]
  BY <1>0 DEF AllFree
<1>7. AllFree(p) => Blocks(p, d) \subseteq Free(d)
  <2>1. SUFFICES ASSUME AllFree(p) PROVE Blocks(p, d) \subseteq Free(d)
    OBVIOUS
  <2>. DEFINE all == Blocks(p, d)
              free == all \cap Free(d)
  <2>2. free \in SUBSET all /\ Cardinality(all) = Cardinality(free) /\ IsFiniteSet(all)
    BY <1>5, <1>6, <2>1
  <2>3. free \subseteq Free(d)
    OBVIOUS
  <2>. HIDE DEF all, free
  <2>4. all = free
    BY <2>2, FS_Subset
  <2>. QED  BY <2>3, <2>4 DEF all
<1>8. panic' = "no"
  BY <1>0, <1>1, <1>7 DEF CountBlock, Free
<1>9. pc' = [pc EXCEPT ![t] = "unlock"] /\ call' = [call EXCEPT ![t] = 0]
  BY <1>0, <1>1, <1>8 DEF CountBlock, Done, Goto
<1>10. pc'[t] = "unlock" /\ \A u \in Threads : u # t => pc'[u] = pc[u] /\ call'[u] = call[u]
  BY <1>9 DEF IInv, TypeOK
<1>11. \A u \in Threads : Given(u)' = Given(u)
  BY <1>1, <1>10 DEF Given
<1>12. \A q : ~Uncounted(q)'
  BY <1>2, <1>10 DEF Uncounted
<1>13. CallInv'
  BY <1>1, <1>2, <1>9, <1>10 DEF IInv, TypeOK, CallInv
<1>14. HaltsOnlyForMemory'
  BY <1>8 DEF HaltsOnlyForMemory
<1>15. \A u \in Threads : pc'[u] \in {"free", "give"} =>
           pc[u] \in {"free", "give"} /\ call'[u] = call[u]
  BY <1>10
<1>16. CASE ~AllFree(p)
  <2>1. /\ arena' = [arena EXCEPT ![p].cnt = arena[p].cnt + 1]
        /\ UNCHANGED <<bits, mapped, frames, raced, free_list, panic>>
    BY <1>0, <1>16 DEF CountBlock
  <2>2. arena[p].cnt + 1 \in Nat /\ arena[p].cnt + 1 < block_per_arena[d]
    BY <1>5, <1>6, <1>16
  <2>3. /\ arena' \in [Pages -> [desc : Desc, cnt : Nat, large : BOOLEAN]]
        /\ arena'[p].cnt = arena[p].cnt + 1
        /\ \A q \in Pages : q # p => arena'[q] = arena[q]
        /\ \A q \in Pages : arena'[q].desc = arena[q].desc /\ arena'[q].large = arena[q].large
        /\ HeaderInv' /\ PageInv'
        /\ \A c : IsBlock(c)' = IsBlock(c)
        /\ \A u \in Threads : \A b \in held[u] : Fits(b[1], b[2])'
    BY <1>3, <2>1, <2>2, CountChanged
  <2>4. TypeOK'
    BY <1>1, <1>9, <2>1, <2>3 DEF IInv, TypeOK
  <2>5. \A e \in Descs : free_list'[e] = free_list[e] /\ Free(e)' = Free(e)
    BY <2>1 DEF Free
  <2>6. ListInv'
    BY <2>3, <2>5 DEF IInv, ListInv
  <2>7. GivenInv'
    <3>1. \A u \in Threads : Given(u)' \subseteq Given(u)
      BY <1>11
    <3>2. \A u \in Threads : \A c \in Given(u)' :
              IsBlock(c)' /\ \A e \in Descs : c \notin Free(e)'
      BY <1>11, <2>3, <2>5, GivenPlace
    <3>3. \A u \in Threads : \A b \in held[u] : Fits(b[1], b[2])'
      BY <2>3
    <3>. QED  BY <1>1, <1>15, <3>1, <3>2, <3>3, NothingGiven
  <2>8. CountInv'
    <3>1. SUFFICES ASSUME NEW q \in Pages, NEW e \in Descs, arena'[q].desc = e
                   PROVE  /\ ~Uncounted(q)'
                          /\ Cardinality(Blocks(q, e) \cap Free(e)') = arena'[q].cnt
                          /\ \A c \in Blocks(q, e) \ Free(e)' : \E u \in Threads : c \in Given(u)'
                          /\ arena'[q].cnt < block_per_arena[e]
      BY <2>4, CountsKept
    <3>2. arena[q].desc = e
      BY <2>3, <3>1
    <3>3. \A c \in Blocks(q, e) \ Free(e)' : \E u \in Threads : c \in Given(u)'
      <4>1. \A c \in Blocks(q, e) \ Free(e) : \E u \in Threads : c \in Given(u)
        BY <3>2, CountOf
      <4>2. Free(e)' = Free(e)
        BY <2>5
      <4>. QED  BY <1>11, <4>1, <4>2
    <3>4. CASE q = p
      <4>1. e = d
        BY <1>0, <3>2, <3>4
      <4>2. Cardinality(Blocks(q, e) \cap Free(e)') = arena'[q].cnt
        BY <1>4, <1>5, <2>3, <2>5, <3>4, <4>1
      <4>. QED  BY <1>12, <2>2, <2>3, <3>3, <3>4, <4>1, <4>2
    <3>5. CASE q # p
      <4>1. arena'[q] = arena[q] /\ ~Uncounted(q)
        BY <1>2, <2>3, <3>5
      <4>2. Cardinality(Blocks(q, e) \cap Free(e)) = arena[q].cnt
            /\ arena[q].cnt < block_per_arena[e]
        BY <1>2, <3>2, <4>1, CountOf
      <4>3. Cardinality(Blocks(q, e) \cap Free(e)') = arena'[q].cnt
        BY <2>5, <4>1, <4>2
      <4>. QED  BY <1>12, <3>3, <4>1, <4>2, <4>3
    <3>. QED  BY <3>4, <3>5
  <2>9. MarkedInv'
    BY <2>1 DEF IInv, MarkedInv
  <2>. QED  BY <1>13, <1>14, <2>3, <2>4, <2>6, <2>7, <2>8, <2>9 DEF IInv
<1>17. CASE AllFree(p)
  <2>1. /\ free_list' = [free_list EXCEPT ![d] = Without(free_list[d], Blocks(p, d))]
        /\ FreePages(p, 1) /\ UNCHANGED panic
    BY <1>0, <1>7, <1>17 DEF CountBlock, Free
  <2>2. OwnRun(p) = p .. p + 1 - 1
    BY <1>3, <1>4, Ranges DEF OwnRun
  <2>3. /\ arena' \in [Pages -> [desc : Desc, cnt : Nat, large : BOOLEAN]]
        /\ arena'[p] = NoArena
        /\ \A q \in Pages : q # p => arena'[q] = arena[q]
        /\ UNCHANGED <<bits, frames, raced>> /\ mapped' \subseteq mapped
        /\ HeaderInv' /\ PageInv' /\ MarkedInv'
        /\ \A c : IsBlock(c) /\ block2arena(c) # p => IsBlock(c)'
        /\ \A u \in Threads : \A b \in held[u] : block2arena(b[1]) # p => Fits(b[1], b[2])'
    BY <1>3, <1>4, <2>1, <2>2, PagesFreed
  <2>4. free_list[d] \in Seq(Addresses) /\ IsInjective(free_list[d])
    BY <1>4 DEF IInv, TypeOK, ListInv
  <2>5. PICK w : w = Without(free_list[d], Blocks(p, d))
    OBVIOUS
  <2>6. w \in Seq(Addresses) /\ IsInjective(w) /\ ToSet(w) = Free(d) \ Blocks(p, d)
    BY <2>4, <2>5, WithoutSet DEF Free
  <2>7. /\ free_list'[d] = w /\ Free(d)' = Free(d) \ Blocks(p, d)
        /\ \A e \in Descs : e # d => free_list'[e] = free_list[e] /\ Free(e)' = Free(e)
    BY <1>4, <2>1, <2>5, <2>6 DEF IInv, TypeOK, Free
  <2>8. TypeOK'
    BY <1>1, <1>9, <2>1, <2>3, <2>5, <2>6 DEF IInv, TypeOK
  <2>9. ListInv'
    <3>. SUFFICES ASSUME NEW e \in Descs
                  PROVE  /\ IsInjective(free_list'[e])
                         /\ \A c \in Free(e)' :
                               LET q == block2arena(c)
                               IN  q \in Pages /\ arena'[q].desc = e /\ c \in Blocks(q, e)
      BY DEF ListInv
    <3>1. IsInjective(free_list'[e])
      BY <2>6, <2>7 DEF IInv, ListInv
    <3>2. \A c \in Free(e) : /\ block2arena(c) \in Pages
                             /\ c \in Blocks(block2arena(c), e)
                             /\ arena[block2arena(c)].desc = e
      BY FreePlace
    <3>3. \A c \in Free(e)' : c \in Free(e) /\ block2arena(c) # p
      BY <1>0, <2>7, <3>2
    <3>. QED  BY <2>3, <3>1, <3>2, <3>3
  <2>10. \A u \in Threads : \A c \in Given(u) : block2arena(c) # p
    <3>1. SUFFICES ASSUME NEW u \in Threads, NEW c \in Given(u), block2arena(c) = p
                   PROVE  FALSE
      OBVIOUS
    <3>2. c \in Blocks(p, d)
      BY <1>0, <1>4, <3>1, GivenPlace DEF IsBlock
    <3>. QED  BY <1>4, <1>7, <1>17, <3>1, <3>2, GivenPlace
  <2>11. GivenInv'
    <3>1. \A u \in Threads : Given(u)' \subseteq Given(u)
      BY <1>11
    <3>2. \A u \in Threads : \A c \in Given(u)' :
              IsBlock(c)' /\ \A e \in Descs : c \notin Free(e)'
      <4>1. \A e \in Descs : Free(e)' \subseteq Free(e)
        BY <2>7
      <4>. QED  BY <1>11, <2>3, <2>10, <4>1, GivenPlace
    <3>3. \A u \in Threads : \A b \in held[u] : Fits(b[1], b[2])'
      <4>1. \A u \in Threads : \A b \in held[u] : b[1] \in Given(u)
        BY DEF Given
      <4>. QED  BY <2>3, <2>10, <4>1
    <3>. QED  BY <1>1, <1>15, <3>1, <3>2, <3>3, NothingGiven
  <2>12. CountInv'
    <3>1. SUFFICES ASSUME NEW q \in Pages, NEW e \in Descs, arena'[q].desc = e
                   PROVE  /\ ~Uncounted(q)'
                          /\ Cardinality(Blocks(q, e) \cap Free(e)') = arena'[q].cnt
                          /\ \A c \in Blocks(q, e) \ Free(e)' : \E u \in Threads : c \in Given(u)'
                          /\ arena'[q].cnt < block_per_arena[e]
      BY <2>8, CountsKept
    <3>2. q # p
      BY <2>3, <3>1, Ranges DEF NoArena
    <3>3. arena'[q] = arena[q] /\ arena[q].desc = e /\ ~Uncounted(q)
      BY <1>2, <2>3, <3>1, <3>2
    <3>4. Blocks(q, e) \cap Free(e)' = Blocks(q, e) \cap Free(e)
      <4>1. \A c \in Blocks(q, e) : block2arena(c) = q
        BY BlockPlace
      <4>2. \A c \in Blocks(p, d) : block2arena(c) = p
        BY <1>3, <1>4, BlockPlace
      <4>. QED  BY <2>7, <3>2, <4>1, <4>2
    <3>5. /\ Cardinality(Blocks(q, e) \cap Free(e)) = arena[q].cnt
          /\ \A c \in Blocks(q, e) \ Free(e) : \E u \in Threads : c \in Given(u)
          /\ arena[q].cnt < block_per_arena[e]
      BY <1>2, <3>3, CountOf
    <3>6. Cardinality(Blocks(q, e) \cap Free(e)') = arena'[q].cnt
      BY <3>3, <3>4, <3>5
    <3>7. \A c \in Blocks(q, e) \ Free(e)' : \E u \in Threads : c \in Given(u)'
      <4>1. \A c \in Blocks(q, e) \ Free(e)' : c \notin Free(e)
        BY <3>4
      <4>2. \A c \in Blocks(q, e) \ Free(e)' : \E u \in Threads : c \in Given(u)
        BY <3>5, <4>1
      <4>. QED  BY <1>11, <4>2
    <3>. QED  BY <1>12, <3>3, <3>5, <3>6, <3>7
  <2>. QED  BY <1>13, <1>14, <2>3, <2>8, <2>9, <2>11, <2>12 DEF IInv
<1>. QED  BY <1>16, <1>17

-----------------------------------------------------------------------------
(* The steps beside the lock. *)

\* They concern no block.
LEMMA BesideTheLock ==
    ASSUME IInv, panic = "no",
           bits' \subseteq Pages, mapped' \subseteq Pages, mapped \subseteq mapped',
           frames' \in Nat, raced' \in BOOLEAN, MarkedInv',
           UNCHANGED <<arena, free_list, held, holder, pc, call, panic>>
    PROVE  IInv'
<1>1. TypeOK' /\ HaltsOnlyForMemory'
  BY DEF IInv, TypeOK, HaltsOnlyForMemory
<1>2. \A u \in Threads : Given(u)' = Given(u)
  BY DEF Given
<1>3. \A p : Uncounted(p)' = Uncounted(p)
  BY DEF Uncounted
<1>4. \A p : JustCut(p) => JustCut(p)'
  BY DEF JustCut, Free
<1>5. \A u \in Threads : pc'[u] \in {"free", "give"} => \A b \in held'[u] : b[1] # call'[u]
  BY DEF IInv, GivenInv
<1>6. HeaderInv' /\ PageInv' /\ ListInv' /\ GivenInv' /\ CountInv'
  BY <1>2, <1>3, <1>4, <1>5, BlocksUnchanged
<1>7. CallInv'
  BY DEF IInv, CallInv, SmallAt, Free
<1>. QED  BY <1>1, <1>6, <1>7 DEF IInv

LEMMA GetPagesStep ==
    ASSUME IInv, NEW cnt \in 1 .. MaxTaken, NEW unseen \in SUBSET Pages,
           get_kernel_pages(cnt, unseen)
    PROVE  IInv'
<1>. DEFINE first == bitmap_scan(bits, len, cnt)
            run == first .. first + cnt - 1
<1>1. /\ panic = "no" /\ first \notin {None, Halts} /\ cnt <= frames
      /\ bits' = SetRun(bits, first, cnt, 1) \ unseen
      /\ mapped' = mapped \cup run /\ frames' = frames - cnt
      /\ raced' = (raced \/ unseen # {})
      /\ UNCHANGED <<arena, free_list, held, holder, pc, call, panic>>
  BY DEF get_kernel_pages
<1>2. cnt \in Nat \ {0} /\ MaxTaken \in Nat /\ len \in Nat /\ Pages = 0 .. len * ByteBits
  BY ArenaAssumption DEF Pages
<1>3. /\ first \in Nat /\ first + cnt - 1 \in 0 .. len * ByteBits
      /\ \A i \in first .. first + cnt - 1 : i \notin bits
  BY <1>1, <1>2, ScanRun
<1>4. SetRun(bits, first, cnt, 1) = bits \cup run
  BY <1>2, <1>3, SetRunOnes
<1>5. run \subseteq Pages
  <2>. DEFINE n == len * ByteBits
  <2>1. n \in Nat
    BY Ranges
  <2>. HIDE DEF first, n
  <2>. QED  BY <1>2, <1>3, <2>1 DEF n
<1>. HIDE DEF first, run
<1>6. frames' \in Nat /\ raced' \in BOOLEAN
  BY <1>1, <1>2 DEF IInv, TypeOK
<1>7. bits' \subseteq Pages /\ mapped' \subseteq Pages /\ mapped \subseteq mapped'
  BY <1>1, <1>4, <1>5 DEF IInv, TypeOK
<1>8. MarkedInv'
  BY <1>1, <1>4 DEF IInv, MarkedInv
<1>. QED  BY <1>1, <1>6, <1>7, <1>8, BesideTheLock

LEMMA TakeTableStep ==
    ASSUME IInv, TakeTable
    PROVE  IInv'
<1>1. /\ panic = "no" /\ frames' = frames - 1 /\ frames > 0
      /\ UNCHANGED <<bits, mapped, raced, arena, free_list, held, holder, pc, call, panic>>
  BY DEF TakeTable
<1>2. frames' \in Nat /\ bits' \subseteq Pages /\ mapped' \subseteq Pages /\ raced' \in BOOLEAN
  BY <1>1 DEF IInv, TypeOK
<1>3. MarkedInv'
  BY <1>1 DEF IInv, MarkedInv
<1>. QED  BY <1>1, <1>2, <1>3, BesideTheLock

-----------------------------------------------------------------------------
(* The invariant holds, and implies what the runs check. *)

LEMMA MapCard == Cardinality(Map) \in Nat
<1>. DEFINE n == len * ByteBits
<1>1. n \in Nat /\ Map = 0 .. n - 1
  BY Ranges DEF Map
<1>. HIDE DEF n
<1>2. IsFiniteSet(0 .. n - 1)
  BY <1>1, FS_Interval
<1>. QED  BY <1>1, <1>2, FS_CardinalityType

LEMMA InitIInv == Init => IInv
<1>. SUFFICES ASSUME Init PROVE IInv
  OBVIOUS
<1>. USE DEF Init
<1>1. NoArena \in [desc : Desc, cnt : Nat, large : BOOLEAN]
  BY DEF NoArena, Desc
<1>2. TypeOK
  <2>1. arena \in [Pages -> [desc : Desc, cnt : Nat, large : BOOLEAN]]
    BY <1>1
  <2>2. /\ bits \subseteq Pages /\ mapped \subseteq Pages /\ raced \in BOOLEAN /\ frames \in Nat
        /\ panic \in {"no", "bitmap_scan", "palloc", "page_table_add", "list"}
    BY MapCard
  <2>3. free_list \in [Descs -> Seq(Addresses)]
    OBVIOUS
  <2>4. held \in [Threads -> SUBSET (Addresses \X Sizes)] /\ holder \in Threads \cup {None}
    OBVIOUS
  <2>5. pc \in [Threads -> {"out", "malloc", "free", "get", "pop", "give", "count", "unlock"}]
        /\ call \in [Threads -> Nat]
    OBVIOUS
  <2>. QED  BY <2>1, <2>2, <2>3, <2>4, <2>5 DEF TypeOK
<1>3. HeaderInv /\ PageInv
  BY DEF HeaderInv, PageInv
<1>4. \A d \in Descs : free_list[d] = <<>> /\ Free(d) = {}
  BY DEF Free, ToSet
<1>5. ListInv
  BY <1>4 DEF ListInv, IsInjective
<1>6. \A t \in Threads : Given(t) = {}
  BY DEF Given
<1>7. GivenInv
  BY <1>6 DEF GivenInv
<1>8. CountInv
  BY DEF CountInv, SmallAt, NoArena
<1>9. CallInv
  BY Ranges DEF CallInv
<1>10. HaltsOnlyForMemory /\ MarkedInv
  BY DEF HaltsOnlyForMemory, MarkedInv
<1>. QED  BY <1>2, <1>3, <1>5, <1>7, <1>8, <1>9, <1>10 DEF IInv

LEMMA NextIInv == IInv /\ [Next]_vars => IInv'
<1>. SUFFICES ASSUME IInv, [Next]_vars PROVE IInv'
  OBVIOUS
<1>1. CASE UNCHANGED vars
  <2>. USE <1>1 DEF vars, heap
  <2>1. TypeOK' /\ HaltsOnlyForMemory'
    BY DEF IInv, TypeOK, HaltsOnlyForMemory
  <2>2. HeaderInv' /\ PageInv' /\ ListInv'
    BY DEF IInv, HeaderInv, PageInv, ListInv, OwnRun, SmallAt, LargeAt, Free
  <2>3. GivenInv'
    BY DEF IInv, GivenInv, Given, IsBlock, SmallAt, LargeAt, Fits, Free
  <2>4. CountInv'
    BY DEF IInv, CountInv, SmallAt, Free, Given, Uncounted, JustCut
  <2>5. CallInv' /\ MarkedInv'
    BY DEF IInv, CallInv, MarkedInv, SmallAt, Free
  <2>. QED  BY <2>1, <2>2, <2>3, <2>4, <2>5 DEF IInv
<1>2. CASE \E cnt \in 1 .. MaxTaken, unseen \in SUBSET Pages : get_kernel_pages(cnt, unseen)
  BY <1>2, GetPagesStep
<1>3. CASE TakeTable
  BY <1>3, TakeTableStep
<1>4. CASE \E t \in Threads :
           \/ \E size \in Sizes : sys_malloc(t, size)
           \/ \E block \in held[t] : sys_free(t, block)
           \/ Lock(t) \/ MallocLarge(t) \/ NewArena(t) \/ HasBlock(t) \/ Pop(t)
           \/ NoPages(t) \/ HaltInMalloc(t)
           \/ FreeLarge(t) \/ FreeBlock(t) \/ CountBlock(t) \/ Unlock(t)
  <2>. PICK t \in Threads :
           \/ \E size \in Sizes : sys_malloc(t, size)
           \/ \E block \in held[t] : sys_free(t, block)
           \/ Lock(t) \/ MallocLarge(t) \/ NewArena(t) \/ HasBlock(t) \/ Pop(t)
           \/ NoPages(t) \/ HaltInMalloc(t)
           \/ FreeLarge(t) \/ FreeBlock(t) \/ CountBlock(t) \/ Unlock(t)
    BY <1>4
  <2>1. CASE \E size \in Sizes : sys_malloc(t, size)
    BY <2>1, MallocStep
  <2>2. CASE \E block \in held[t] : sys_free(t, block)
    BY <2>2, FreeStep
  <2>3. CASE Lock(t)
    BY <2>3, LockStep
  <2>4. CASE MallocLarge(t)
    BY <2>4, MallocLargeStep
  <2>5. CASE NewArena(t)
    BY <2>5, NewArenaStep
  <2>6. CASE HasBlock(t)
    BY <2>6, HasBlockStep
  <2>7. CASE Pop(t)
    BY <2>7, PopStep
  <2>8. CASE NoPages(t)
    BY <2>8, NoPagesStep
  <2>9. CASE HaltInMalloc(t)
    BY <2>9, HaltStep
  <2>10. CASE FreeLarge(t)
    BY <2>10, FreeLargeStep
  <2>11. CASE FreeBlock(t)
    BY <2>11, FreeBlockStep
  <2>12. CASE CountBlock(t)
    BY <2>12, CountBlockStep
  <2>13. CASE Unlock(t)
    BY <2>13, UnlockStep
  <2>. QED  BY <2>1, <2>2, <2>3, <2>4, <2>5, <2>6, <2>7, <2>8, <2>9, <2>10, <2>11, <2>12, <2>13
<1>. QED  BY <1>1, <1>2, <1>3, <1>4 DEF Next

\* Every state that sys_malloc and sys_free reach satisfies the invariant.
THEOREM Invariant == Spec => []IInv
<1>1. Init => IInv
  BY InitIInv
<1>2. IInv /\ [Next]_vars => IInv'
  BY NextIInv
<1>. QED  BY <1>1, <1>2, PTL DEF Spec

\* The variables of the small blocks' allocator stay in their ranges.
THEOREM TypeCorrect == Spec => []TypeOK
<1>1. IInv => TypeOK
  BY DEF IInv
<1>. QED  BY <1>1, Invariant, PTL

\* No assertion about the free lists fails.  sys_malloc halts the machine where
\* the address map or the pool of frames is used up, or at a page whose bit a
\* call beside the lock has cost it, and sys_free never.
THEOREM OnlyMemoryHalts == Spec => []HaltsOnlyForMemory
<1>1. IInv => HaltsOnlyForMemory
  BY DEF IInv
<1>. QED  BY <1>1, Invariant, PTL

\* Where no call is under way the counts are exact: an arena's count is the
\* number of its listed blocks, at least one block is held and none is lost.
THEOREM BlocksCounted == Spec => []EveryBlockCounted
<1>1. IInv => EveryBlockCounted
  <2>. SUFFICES ASSUME IInv, holder = None, \A t \in Threads : pc[t] # "free",
                       NEW p \in SmallArenas
                PROVE  LET d == arena[p].desc
                           free == Blocks(p, d) \cap Free(d)
                       IN  /\ arena[p].cnt = Cardinality(free)
                           /\ arena[p].cnt < block_per_arena[d]
                           /\ Blocks(p, d) \ free = {b[1] : b \in Held} \cap Blocks(p, d)
    BY DEF EveryBlockCounted, Free
  <2>1. p \in Pages /\ SmallAt(p)
    <3>1. p \in Pages /\ arena[p] # NoArena /\ ~LargeAt(p)
      BY DEF SmallArenas, Arenas, LargeAt, IInv, TypeOK
    <3>. QED  BY <3>1, ArenaKinds
  <2>2. PICK d : d = arena[p].desc
    OBVIOUS
  <2>3. d \in Descs
    BY <2>1, <2>2, ArenaKinds
  <2>4. \A t \in Threads : pc[t] \in {"out", "malloc"}
    <3>1. \A t \in Threads : holder # t
      BY Ranges
    <3>. QED  BY <3>1 DEF IInv, TypeOK, CallInv
  <2>5. ~Uncounted(p) /\ ~JustCut(p)
    BY <2>4 DEF Uncounted, JustCut
  <2>6. \A t \in Threads : Given(t) = {b[1] : b \in held[t]}
    BY <2>4 DEF Given
  <2>7. /\ Cardinality(Blocks(p, d) \cap Free(d)) = arena[p].cnt
        /\ \A c \in Blocks(p, d) \ Free(d) : \E t \in Threads : c \in Given(t)
        /\ arena[p].cnt < block_per_arena[d]
    BY <2>1, <2>2, <2>3, <2>5, CountOf
  <2>8. {b[1] : b \in Held} = UNION {Given(t) : t \in Threads}
    BY <2>6 DEF Held
  <2>9. \A c \in {b[1] : b \in Held} : c \notin Free(d)
    BY <2>3, <2>8, GivenPlace
  <2>10. \A c \in Blocks(p, d) \ Free(d) : c \in {b[1] : b \in Held}
    BY <2>7, <2>8
  <2>. QED  BY <2>2, <2>7, <2>9, <2>10
<1>. QED  BY <1>1, Invariant, PTL

\* n bytes at a lie in the arena of page q, behind its header.
InArena(q, a, n) ==
    \/ LargeAt(q) /\ a = q * PG_SIZE + Header /\ n + Header <= arena[q].cnt * PG_SIZE
    \/ SmallAt(q) /\ a \in Blocks(q, arena[q].desc) /\ n <= block_size[arena[q].desc]

\* The bytes of n pages lie in these pages.
LEMMA BytesOfPages ==
    ASSUME NEW q \in Nat, NEW n \in Nat, NEW z \in Nat,
           q * PG_SIZE <= z, z < q * PG_SIZE + n * PG_SIZE
    PROVE  block2arena(z) \in q .. q + n - 1
<1>. PG_SIZE \in Nat \ {0}
  BY Ranges
<1>1. PICK r \in Nat : r = block2arena(z)
  BY PageOf
<1>2. r * PG_SIZE \in Nat /\ r * PG_SIZE <= z /\ z < r * PG_SIZE + PG_SIZE
  BY <1>1, PageOf
<1>3. q * PG_SIZE \in Nat /\ (q + n) * PG_SIZE = q * PG_SIZE + n * PG_SIZE /\ n * PG_SIZE \in Nat
  OBVIOUS
<1>4. ~(r < q)
  <2>1. SUFFICES ASSUME r < q PROVE FALSE
    OBVIOUS
  <2>2. r * PG_SIZE + PG_SIZE <= q * PG_SIZE
    BY <2>1, Multiples
  <2>. QED  BY <1>2, <1>3, <2>2
<1>5. r < q + n
  <2>1. SUFFICES ASSUME ~(r < q + n) PROVE FALSE
    OBVIOUS
  <2>2. PICK k \in Nat : r = (q + n) + k
    <3>. r - (q + n) \in Nat /\ r = (q + n) + (r - (q + n))
      BY <2>1
    <3>. QED  OBVIOUS
  <2>3. r * PG_SIZE = (q + n) * PG_SIZE + k * PG_SIZE /\ k * PG_SIZE \in Nat
    BY <2>2
  <2>. QED  BY <1>2, <1>3, <2>3
<1>. QED  BY <1>1, <1>4, <1>5

LEMMA WithinArena ==
    ASSUME IInv, NEW q \in Pages, NEW a, NEW n \in Nat, InArena(q, a, n)
    PROVE  /\ a \in Nat /\ q * PG_SIZE \in Nat /\ q * PG_SIZE + Header <= a
           /\ arena[q] # NoArena
           /\ \A z \in Bytes(a, n) : block2arena(z) \in OwnRun(q)
<1>. DEFINE base == q * PG_SIZE
<1>1. q \in Nat /\ Header \in Nat /\ PG_SIZE \in Nat /\ base \in Nat
  BY Ranges
<1>2. CASE LargeAt(q) /\ a = base + Header /\ n + Header <= arena[q].cnt * PG_SIZE
  <2>1. arena[q].cnt \in Nat /\ arena[q] # NoArena
    BY <1>2, ArenaKinds
  <2>2. PICK m \in Nat : m = arena[q].cnt
    BY <2>1
  <2>. DEFINE all == m * PG_SIZE
  <2>3. all \in Nat /\ n + Header <= all
    BY <1>1, <1>2, <2>2
  <2>4. \A z \in Bytes(a, n) : z \in Nat /\ base <= z /\ z < base + all
    <3>. HIDE DEF base, all
    <3>. QED  BY <1>1, <1>2, <2>3 DEF Bytes
  <2>5. \A z \in Bytes(a, n) : block2arena(z) \in q .. q + m - 1
    BY <1>1, <2>4, BytesOfPages
  <2>6. a \in Nat /\ base + Header <= a
    <3>. HIDE DEF base
    <3>. QED  BY <1>1, <1>2
  <2>. QED  BY <1>1, <1>2, <2>1, <2>2, <2>5, <2>6 DEF OwnRun
<1>3. CASE SmallAt(q) /\ a \in Blocks(q, arena[q].desc) /\ n <= block_size[arena[q].desc]
  <2>1. arena[q].desc \in Descs /\ ~LargeAt(q) /\ arena[q] # NoArena
    BY <1>3, ArenaKinds
  <2>2. PICK b \in Nat : b = block_size[arena[q].desc]
    BY <2>1, Ranges
  <2>3. a \in Nat /\ base + Header <= a /\ a + b <= base + PG_SIZE
    BY <1>3, <2>1, <2>2, BlockPlace
  <2>4. \A z \in Bytes(a, n) : z \in Nat /\ base <= z /\ z < base + PG_SIZE
    <3>. HIDE DEF base
    <3>. QED  BY <1>1, <1>3, <2>2, <2>3 DEF Bytes
  <2>5. \A z \in Bytes(a, n) : block2arena(z) = q
    BY <1>1, <2>4, InPage
  <2>. QED  BY <1>1, <2>1, <2>3, <2>5 DEF OwnRun
<1>. QED  BY <1>2, <1>3 DEF InArena

\* What lies at a is the link of a free block or a block that a thread has.
UsedAs(kind, a, n) ==
    \/ kind = "link" /\ n = Link /\ \E d \in Descs : a \in Free(d)
    \/ kind = "block" /\ \E t \in Threads : <<a, n>> \in held[t]

\* Everything in the heap lies in an arena: its header at its start, the rest
\* behind the header.
LEMMA ExtentPlace ==
    ASSUME IInv, NEW x \in Extents
    PROVE  \E q \in Pages, a \in Nat, n \in Nat :
              /\ arena[q] # NoArena
              /\ \A z \in Bytes(a, n) : block2arena(z) \in OwnRun(q)
              /\ \/ x = <<"header", a, n>> /\ a = q * PG_SIZE /\ n = Header
                 \/ /\ InArena(q, a, n)
                    /\ \/ x = <<"link", a, n>> /\ UsedAs("link", a, n)
                       \/ x = <<"block", a, n>> /\ UsedAs("block", a, n)
<1>0. Header \in Nat /\ Link \in Nat /\ PG_SIZE \in Nat /\ Header < PG_SIZE
  BY Ranges
<1>1. CASE \E p \in Arenas : x = <<"header", p * PG_SIZE, Header>>
  <2>1. PICK p \in Arenas : x = <<"header", p * PG_SIZE, Header>>
    BY <1>1
  <2>2. p \in Pages /\ arena[p] # NoArena
    BY DEF Arenas, IInv, TypeOK
  <2>3. p \in Nat /\ p * PG_SIZE \in Nat
    BY <1>0, <2>2, Ranges
  <2>. DEFINE a == p * PG_SIZE
  <2>4. \A z \in Bytes(a, Header) : z \in Nat /\ a <= z /\ z < a + PG_SIZE
    <3>. HIDE DEF a
    <3>. QED  BY <1>0, <2>3 DEF Bytes, a
  <2>5. \A z \in Bytes(a, Header) : block2arena(z) = p
    BY <2>3, <2>4, InPage
  <2>6. p \in OwnRun(p)
    BY <2>2, ArenaKinds
  <2>. QED  BY <1>0, <2>1, <2>2, <2>3, <2>5, <2>6
<1>2. CASE \E a \in UNION {ToSet(free_list[d]) : d \in Descs} : x = <<"link", a, Link>>
  <2>0. PICK d \in Descs : \E a \in Free(d) : x = <<"link", a, Link>>
    BY <1>2 DEF Free
  <2>1. PICK a \in Free(d) : x = <<"link", a, Link>>
    BY <2>0
  <2>2. PICK q : q = block2arena(a)
    OBVIOUS
  <2>3. q \in Pages /\ a \in Blocks(q, d) /\ SmallAt(q) /\ arena[q].desc = d
    BY <2>2, FreePlace
  <2>4. Link <= block_size[d]
    BY BlockAssumption
  <2>5. InArena(q, a, Link)
    BY <2>3, <2>4 DEF InArena
  <2>6. UsedAs("link", a, Link)
    BY <2>1 DEF UsedAs
  <2>7. a \in Nat /\ arena[q] # NoArena /\ \A z \in Bytes(a, Link) : block2arena(z) \in OwnRun(q)
    BY <1>0, <2>3, <2>5, WithinArena
  <2>. QED  BY <1>0, <2>1, <2>3, <2>5, <2>6, <2>7
<1>3. CASE \E b \in Held : x = <<"block", b[1], b[2]>>
  <2>0. PICK t \in Threads : \E b \in held[t] : x = <<"block", b[1], b[2]>>
    BY <1>3 DEF Held
  <2>1. PICK b \in held[t] : x = <<"block", b[1], b[2]>>
    BY <2>0
  <2>2. b \in Addresses \X Sizes
    BY DEF IInv, TypeOK
  <2>3. PICK a, n : a = b[1] /\ n = b[2]
    OBVIOUS
  <2>4. n \in Nat /\ <<a, n>> \in held[t]
    <3>1. b = <<b[1], b[2]>> /\ b[2] \in Sizes
      BY <2>2
    <3>. QED  BY <2>1, <2>3, <3>1, Ranges
  <2>5. PICK q : q = block2arena(a)
    OBVIOUS
  <2>6. a \in Given(t)
    BY <2>3 DEF Given
  <2>7. q \in Pages /\ IsBlock(a) /\ Fits(a, n)
    BY <2>3, <2>5, <2>6, GivenPlace DEF IInv, GivenInv
  <2>8. \/ SmallAt(q) /\ a \in Blocks(q, arena[q].desc)
        \/ LargeAt(q) /\ a = q * PG_SIZE + Header
    BY <2>5, <2>7 DEF IsBlock
  <2>9. IF LargeAt(q) THEN n + Header <= arena[q].cnt * PG_SIZE
        ELSE n <= block_size[arena[q].desc]
    BY <2>5, <2>7 DEF Fits
  <2>10. SmallAt(q) => ~LargeAt(q)
    BY <2>7, ArenaKinds
  <2>11. InArena(q, a, n)
    BY <2>8, <2>9, <2>10 DEF InArena
  <2>12. UsedAs("block", a, n)
    BY <2>4 DEF UsedAs
  <2>13. a \in Nat /\ arena[q] # NoArena /\ \A z \in Bytes(a, n) : block2arena(z) \in OwnRun(q)
    BY <2>4, <2>7, <2>11, WithinArena
  <2>. QED  BY <2>1, <2>3, <2>4, <2>7, <2>11, <2>12, <2>13
<1>. QED  BY <1>1, <1>2, <1>3 DEF Extents

\* The pages of a block in use and of a free one are mapped: no arena is given
\* back under a block that a thread has or a list names.
THEOREM UsedIsMapped == Spec => []InUseMapped
<1>1. IInv => InUseMapped
  <2>. SUFFICES ASSUME IInv, NEW x \in Extents, NEW z \in Bytes(x[2], x[3])
                PROVE  block2arena(z) \in mapped
    BY DEF InUseMapped
  <2>1. PICK q \in Pages, a \in Nat, n \in Nat :
            /\ arena[q] # NoArena
            /\ \A y \in Bytes(a, n) : block2arena(y) \in OwnRun(q)
            /\ x[2] = a /\ x[3] = n
    BY ExtentPlace
  <2>2. OwnRun(q) \subseteq mapped
    BY <2>1, ArenaKinds
  <2>. QED  BY <2>1, <2>2
<1>. QED  BY <1>1, Invariant, PTL

\* What is used as a block or a link lies at one place only.
LEMMA OneUse ==
    ASSUME IInv, NEW a, NEW n, NEW m, NEW k, NEW l, UsedAs(k, a, n), UsedAs(l, a, m)
    PROVE  k = l /\ n = m
<1>1. \A t \in Threads : \A s : <<a, s>> \in held[t] => a \in Given(t)
  <2>. SUFFICES ASSUME NEW t \in Threads, NEW s, <<a, s>> \in held[t] PROVE a \in Given(t)
    OBVIOUS
  <2>1. <<a, s>>[1] = a
    OBVIOUS
  <2>. QED  BY <2>1 DEF Given
<1>2. CASE \E d \in Descs : a \in Free(d)
  <2>1. \A t \in Threads : a \notin Given(t)
    BY <1>2, GivenPlace
  <2>. QED  BY <1>1, <2>1 DEF UsedAs
<1>3. CASE \A d \in Descs : a \notin Free(d)
  <2>1. PICK t \in Threads : <<a, n>> \in held[t] /\ k = "block"
    BY <1>3 DEF UsedAs
  <2>2. PICK u \in Threads : <<a, m>> \in held[u] /\ l = "block"
    BY <1>3 DEF UsedAs
  <2>3. t = u
    BY <1>1, <2>1, <2>2 DEF IInv, GivenInv
  <2>4. <<a, n>> = <<a, m>>
    <3>1. \A b, c \in held[t] : b[1] = c[1] => b = c
      BY DEF IInv, GivenInv
    <3>2. <<a, n>>[1] = <<a, m>>[1]
      OBVIOUS
    <3>. QED  BY <2>1, <2>2, <2>3, <3>1, <3>2
  <2>. QED  BY <2>1, <2>2, <2>4
<1>. QED  BY <1>2, <1>3

\* No byte of the heap has two uses, and no block two owners.
THEOREM NothingOverlaps == Spec => []NoOverlap
<1>1. ASSUME IInv, NEW x \in Extents, NEW y \in Extents,
             NEW z \in Bytes(x[2], x[3]) \cap Bytes(y[2], y[3])
      PROVE  x = y
  <2>1. PICK q \in Pages, a \in Nat, n \in Nat :
            /\ arena[q] # NoArena
            /\ \A w \in Bytes(a, n) : block2arena(w) \in OwnRun(q)
            /\ \/ x = <<"header", a, n>> /\ a = q * PG_SIZE /\ n = Header
               \/ /\ InArena(q, a, n)
                  /\ \/ x = <<"link", a, n>> /\ UsedAs("link", a, n)
                     \/ x = <<"block", a, n>> /\ UsedAs("block", a, n)
    BY <1>1, ExtentPlace
  <2>2. PICK r \in Pages, c \in Nat, m \in Nat :
            /\ arena[r] # NoArena
            /\ \A w \in Bytes(c, m) : block2arena(w) \in OwnRun(r)
            /\ \/ y = <<"header", c, m>> /\ c = r * PG_SIZE /\ m = Header
               \/ /\ InArena(r, c, m)
                  /\ \/ y = <<"link", c, m>> /\ UsedAs("link", c, m)
                     \/ y = <<"block", c, m>> /\ UsedAs("block", c, m)
    BY <1>1, ExtentPlace
  <2>3. x[2] = a /\ x[3] = n /\ y[2] = c /\ y[3] = m
    BY <2>1, <2>2
  <2>4. z \in Bytes(a, n) /\ z \in Bytes(c, m)
    BY <1>1, <2>3
  <2>5. q = r
    BY <1>1, <2>1, <2>2, <2>4 DEF IInv, PageInv
  <2>6. z \in Int /\ a <= z /\ z < a + n /\ c <= z /\ z < c + m
    BY <2>4 DEF Bytes
  <2>7. PICK base : base = q * PG_SIZE
    OBVIOUS
  <2>8. Header \in Nat
    BY Ranges
  <2>9. InArena(q, a, n) => base \in Nat /\ base + Header <= a
    BY <1>1, <2>7, WithinArena
  <2>10. InArena(q, c, m) => base \in Nat /\ base + Header <= c
    BY <1>1, <2>7, WithinArena
  <2>11. CASE a = base /\ n = Header /\ c = base /\ m = Header
    <3>1. ~InArena(q, a, n) /\ ~InArena(q, c, m)
      <4>1. Header # 0
        BY Ranges
      <4>. QED  BY <2>8, <2>9, <2>10, <2>11, <4>1
    <3>. QED  BY <2>1, <2>2, <2>5, <2>11, <3>1
  <2>12. CASE a = base /\ n = Header /\ InArena(q, c, m)
    BY <2>6, <2>8, <2>10, <2>12
  <2>13. CASE c = base /\ m = Header /\ InArena(q, a, n)
    BY <2>6, <2>8, <2>9, <2>13
  <2>14. CASE /\ InArena(q, a, n) /\ InArena(q, c, m)
              /\ \/ x = <<"link", a, n>> /\ UsedAs("link", a, n)
                 \/ x = <<"block", a, n>> /\ UsedAs("block", a, n)
              /\ \/ y = <<"link", c, m>> /\ UsedAs("link", c, m)
                 \/ y = <<"block", c, m>> /\ UsedAs("block", c, m)
    <3>1. a = c
      <4>1. CASE LargeAt(q)
        <5>1. ~SmallAt(q)
          BY <1>1, <4>1, ArenaKinds
        <5>. QED  BY <2>14, <5>1 DEF InArena
      <4>2. CASE ~LargeAt(q)
        <5>1. PICK d : d = arena[q].desc
          OBVIOUS
        <5>2. /\ SmallAt(q) /\ a \in Blocks(q, d) /\ c \in Blocks(q, d)
              /\ n <= block_size[d] /\ m <= block_size[d]
          BY <2>14, <4>2, <5>1 DEF InArena
        <5>3. d \in Descs
          BY <1>1, <5>1, <5>2, ArenaKinds
        <5>4. block_size[d] \in Nat
          BY <5>3, Ranges
        <5>5. a # c => a + block_size[d] <= c \/ c + block_size[d] <= a
          BY <5>2, <5>3, BlocksApart
        <5>. QED  BY <2>6, <5>2, <5>4, <5>5
      <4>. QED  BY <4>1, <4>2
    <3>. QED  BY <1>1, <2>14, <3>1, OneUse
  <2>. QED  BY <2>1, <2>2, <2>5, <2>7, <2>11, <2>12, <2>13, <2>14
<1>2. IInv => NoOverlap
  <2>. SUFFICES ASSUME IInv PROVE NoOverlap
    OBVIOUS
  <2>1. \A x, y \in Extents : x # y => Bytes(x[2], x[3]) \cap Bytes(y[2], y[3]) = {}
    BY <1>1
  <2>2. \A t, u \in Threads : t # u => held[t] \cap held[u] = {}
    <3>1. \A t \in Threads : \A b \in held[t] : b[1] \in Given(t)
      BY DEF Given
    <3>. QED  BY <3>1 DEF IInv, GivenInv
  <2>. QED  BY <2>1, <2>2 DEF NoOverlap
<1>. QED  BY <1>2, Invariant, PTL
=============================================================================
