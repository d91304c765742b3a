-------------------------------- MODULE Arena --------------------------------
(***************************************************************************)
(* The small blocks of kernel/memory.c: sys_malloc cuts a page, an arena,  *)
(* into blocks of one size and keeps the free ones on the list of that     *)
(* size's descriptor; the list's links lie in the free blocks themselves.  *)
(* sys_free gives the page back when all its blocks are free.  Kernel      *)
(* threads share the descriptors under the kernel pool's lock and can lose *)
(* the CPU between any two steps.  Beside them get_kernel_pages and the    *)
(* page tables of processes take addresses and frames without that lock.   *)
(***************************************************************************)
EXTENDS BitmapOps, SequencesExt

CONSTANTS Threads,
          len,                  \* bytes of the address map
          PG_SIZE,              \* 4096
          Header,               \* sizeof(struct arena)
          Link,                 \* sizeof(struct list_elem)
          DESC_CNT,             \* 7
          SmallestBlock,        \* 16
          Sizes,                \* bound: the sizes asked for
          MaxHeld,              \* bound: blocks a thread holds at once
          MaxTaken              \* bound: pages get_kernel_pages is asked for

ASSUME ArenaAssumption ==
    /\ {len, PG_SIZE, Header, Link, DESC_CNT, SmallestBlock} \subseteq Nat \ {0}
    /\ Sizes \subseteq Nat /\ {MaxHeld, MaxTaken} \subseteq Nat
    /\ None \notin Threads

Descs == 1 .. DESC_CNT
block_size == [d \in Descs |-> SmallestBlock * 2 ^ (d - 1)]
block_per_arena == [d \in Descs |-> (PG_SIZE - Header) \div block_size[d]]

\* A page holds at least one block of every size.
ASSUME BlockAssumption ==
    \A d \in Descs : block_size[d] \in Nat \ {0} /\ Link <= block_size[d]
                    /\ Header + block_size[d] <= PG_SIZE

\* Pages are counted from the start of the heap, addresses in bytes.
Map == 0 .. len * ByteBits - 1
Pages == 0 .. len * ByteBits            \* a run may end behind the map
Addresses == 0 .. PG_SIZE * Cardinality(Pages) - 1
pool_size == PG_SIZE * Cardinality(Map)

VARIABLES bits,         \* the address map
          mapped,       \* the pages that are mapped
          frames,       \* how many frames of the pool are left
          raced,        \* a mapped page's bit may be missing (get_kernel_pages)
          arena,        \* arena[p]: the header at the start of page p
          free_list,    \* free_list[d]: the addresses of the free blocks
          held,         \* held[t]: the <<address, size>> t has been given
          holder,       \* the pool's lock
          pc, call,     \* where t stands; the size or the address it passed
          panic         \* where the machine has stopped

heap == <<bits, mapped, frames, raced, arena, free_list>>
vars == <<heap, held, holder, pc, call, panic>>

Desc == Descs \cup {None}               \* None: NULL
NoArena == [desc |-> None, cnt |-> 0, large |-> FALSE]

TypeOK ==
    /\ bits \subseteq Pages /\ mapped \subseteq Pages
    /\ frames \in Nat /\ raced \in BOOLEAN
    /\ arena \in [Pages -> [desc : Desc, cnt : Nat, large : BOOLEAN]]
    /\ free_list \in [Descs -> Seq(Addresses)]
    /\ held \in [Threads -> SUBSET (Addresses \X Sizes)]
    /\ holder \in Threads \cup {None}
    /\ pc \in [Threads -> {"out", "malloc", "free", "get", "pop", "give", "count", "unlock"}]
    /\ call \in [Threads -> Nat]
    /\ panic \in {"no", "bitmap_scan", "palloc", "page_table_add", "list"}

\* The pool has a frame for each address (mem_pool_init).
Init ==
    /\ bits = {} /\ mapped = {}
    /\ frames = Cardinality(Map) /\ raced = FALSE
    /\ arena = [p \in Pages |-> NoArena]
    /\ free_list = [d \in Descs |-> <<>>]
    /\ held = [t \in Threads |-> {}]
    /\ holder = None
    /\ pc = [t \in Threads |-> "out"] /\ call = [t \in Threads |-> 0]
    /\ panic = "no"

-----------------------------------------------------------------------------
\* Mutant: the first block starts where the header does.
arena2blockHeaderless(p, d, idx) == p * PG_SIZE + idx * block_size[d]

arena2block(p, d, idx) == p * PG_SIZE + Header + idx * block_size[d]
Blocks(p, d) == {arena2block(p, d, idx) : idx \in 0 .. block_per_arena[d] - 1}
block2arena(a) == a \div PG_SIZE

\* The list after list_remove of its elements in B: the others in their order.
Without(list, B) ==
    LET kept == {i \in DOMAIN list : list[i] \notin B}
        Place(i) == Cardinality({j \in kept : j <= i})
    IN  [n \in 1 .. Cardinality(kept) |-> list[CHOOSE i \in kept : Place(i) = n]]

\* The smallest blocks a size fits into.
DescOf(size) == Min({d \in Descs : size <= block_size[d]})
Large(size) == size > block_size[DESC_CNT]
PageCount(size) == (size + Header + PG_SIZE - 1) \div PG_SIZE

At(t, label) == pc[t] = label /\ panic = "no"
Goto(t, label) == pc' = [pc EXCEPT ![t] = label]
Done(t) == Goto(t, "unlock") /\ call' = [call EXCEPT ![t] = 0]
Panic(where) == panic' = where /\ UNCHANGED <<heap, held, holder, pc, call>>
Give(t, a) == held' = [held EXCEPT ![t] = @ \cup {<<a, call[t]>>}]

sys_malloc(t, size) ==
    /\ At(t, "out") /\ size > 0 /\ size < pool_size
    /\ Cardinality(held[t]) < MaxHeld
    /\ Goto(t, "malloc") /\ call' = [call EXCEPT ![t] = size]
    /\ UNCHANGED <<heap, held, holder, panic>>

sys_free(t, block) ==
    /\ At(t, "out") /\ block \in held[t]
    /\ held' = [held EXCEPT ![t] = @ \ {block}]
    /\ Goto(t, "free") /\ call' = [call EXCEPT ![t] = block[1]]
    /\ UNCHANGED <<heap, holder, panic>>

\* Mutant: nobody waits for the lock.
LockAtOnce(t) ==
    /\ pc[t] \in {"malloc", "free"} /\ panic = "no"
    /\ holder' = t
    /\ Goto(t, IF pc[t] = "malloc" THEN "get" ELSE "give")
    /\ UNCHANGED <<heap, held, call, panic>>

Lock(t) ==
    /\ pc[t] \in {"malloc", "free"} /\ panic = "no" /\ holder = None
    /\ holder' = t
    /\ Goto(t, IF pc[t] = "malloc" THEN "get" ELSE "give")
    /\ UNCHANGED <<heap, held, call, panic>>

\* malloc_page is called for a large request and when the list is empty.
NeedsPages(t) ==
    At(t, "get") /\ (~Large(call[t]) => free_list[DescOf(call[t])] = <<>>)
Wanted(t) == IF Large(call[t]) THEN PageCount(call[t]) ELSE 1
Found(t) == bitmap_scan(bits, len, Wanted(t))
Run(t) == Found(t) .. Found(t) + Wanted(t) - 1

malloc_page(t, header) ==
    /\ NeedsPages(t) /\ Found(t) \notin {None, Halts}
    /\ Wanted(t) <= frames /\ Run(t) \cap mapped = {}
    /\ bits' = SetRun(bits, Found(t), Wanted(t), 1)
    /\ mapped' = mapped \cup Run(t)
    /\ frames' = frames - Wanted(t)
    /\ arena' = [arena EXCEPT ![Found(t)] = header]

\* It fails when no run of clear bits is long enough ...
NoPages(t) ==
    /\ NeedsPages(t) /\ Found(t) = None
    /\ Done(t)
    /\ UNCHANGED <<heap, held, holder, panic>>

\* ... and halts when the map is full, when there is no frame for a page of the
\* run, the first k being mapped, or when that page is mapped already.
HaltInMalloc(t) ==
    \/ NeedsPages(t) /\ Found(t) = Halts /\ Panic("bitmap_scan")
    \/ /\ NeedsPages(t) /\ Found(t) \notin {None, Halts}
       /\ \E k \in 0 .. Wanted(t) - 1 :
             LET done == Found(t) .. Found(t) + k - 1
             IN  /\ k <= frames /\ done \cap mapped = {}
                 /\ \/ k = frames /\ panic' = "palloc" /\ frames' = 0
                    \/ /\ k < frames /\ Found(t) + k \in mapped
                       /\ panic' = "page_table_add" /\ frames' = frames - k - 1
                 /\ bits' = SetRun(bits, Found(t), Wanted(t), 1)
                 /\ mapped' = mapped \cup done
       /\ UNCHANGED <<raced, arena, free_list, held, holder, pc, call>>

MallocLarge(t) ==
    /\ Large(call[t])
    /\ malloc_page(t, [desc |-> None, cnt |-> Wanted(t), large |-> TRUE])
    /\ Give(t, Found(t) * PG_SIZE + Header)
    /\ Done(t)
    /\ UNCHANGED <<raced, free_list, holder, panic>>

NewHeader(d) == [desc |-> d, cnt |-> block_per_arena[d], large |-> FALSE]

\* A new arena, cut into free blocks, none of which may be on the list yet.
NewArena(t) ==
    LET d == DescOf(call[t])
    IN  /\ ~Large(call[t])
        /\ malloc_page(t, NewHeader(d))
        /\ free_list' = [free_list EXCEPT ![d] =
              [i \in 1 .. block_per_arena[d] |-> arena2block(Found(t), d, i - 1)]]
        /\ Goto(t, "pop")
        /\ UNCHANGED <<raced, held, holder, call, panic>>

HasBlock(t) ==
    /\ At(t, "get") /\ ~Large(call[t]) /\ free_list[DescOf(call[t])] # <<>>
    /\ Goto(t, "pop")
    /\ UNCHANGED <<heap, held, holder, call, panic>>

\* Mutant: the arena's count of free blocks is forgotten.
PopUncounted(t) ==
    LET d == DescOf(call[t])
    IN  /\ At(t, "pop")
        /\ IF free_list[d] = <<>> THEN Panic("list")
           ELSE /\ free_list' = [free_list EXCEPT ![d] = Tail(@)]
                /\ Give(t, Head(free_list[d]))
                /\ Done(t)
                /\ UNCHANGED <<bits, mapped, frames, raced, arena, holder, panic>>

\* The first free block is taken; there must be one.
Pop(t) ==
    LET d == DescOf(call[t])
        a == Head(free_list[d])
    IN  /\ At(t, "pop")
        /\ IF free_list[d] = <<>> THEN Panic("list")
           ELSE /\ free_list' = [free_list EXCEPT ![d] = Tail(@)]
                /\ arena' = [arena EXCEPT ![block2arena(a)].cnt = @ - 1]
                /\ Give(t, a)
                /\ Done(t)
                /\ UNCHANGED <<bits, mapped, frames, raced, holder, panic>>

\* mfree_page: the pages are unmapped; the bits of their addresses and of their
\* frames stay (BitmapOps).
FreePages(p, cnt) ==
    /\ UNCHANGED <<frames, raced>>
    /\ bits' = SetRun(bits, p, cnt, 0)
    /\ mapped' = mapped \ (p .. p + cnt - 1)
    /\ arena' = [q \in Pages |-> IF q \in p .. p + cnt - 1 THEN NoArena ELSE arena[q]]

FreeLarge(t) ==
    LET p == block2arena(call[t])
    IN  /\ At(t, "give") /\ arena[p].desc = None /\ arena[p].large
        /\ FreePages(p, arena[p].cnt)
        /\ Done(t)
        /\ UNCHANGED <<free_list, held, holder, panic>>

\* A small block goes to the end of the list ...
FreeBlock(t) ==
    LET d == arena[block2arena(call[t])].desc
    IN  /\ At(t, "give") /\ ~arena[block2arena(call[t])].large
        /\ free_list' = [free_list EXCEPT ![d] = Append(@, call[t])]
        /\ Goto(t, "count")
        /\ UNCHANGED <<bits, mapped, frames, raced, arena, held, holder, call, panic>>

AllFree(p) == arena[p].cnt + 1 = block_per_arena[arena[p].desc]

\* Mutant: the page is given back with its blocks still listed.
CountBlockListed(t) ==
    LET p == block2arena(call[t])
    IN  /\ At(t, "count")
        /\ IF AllFree(p) THEN FreePages(p, 1)
           ELSE arena' = [arena EXCEPT ![p].cnt = @ + 1] /\ UNCHANGED <<bits, mapped, frames, raced>>
        /\ Done(t)
        /\ UNCHANGED <<free_list, held, holder, panic>>

\* ... and is counted; with the last one all are taken off the list, where
\* they must be, and the page is given back.
CountBlock(t) ==
    LET p == block2arena(call[t])
        d == arena[p].desc
    IN  /\ At(t, "count")
        /\ IF ~AllFree(p)
           THEN /\ arena' = [arena EXCEPT ![p].cnt = @ + 1]
                /\ UNCHANGED <<bits, mapped, frames, raced, free_list, panic>> /\ Done(t)
           ELSE IF ~(Blocks(p, d) \subseteq ToSet(free_list[d]))
           THEN panic' = "list" /\ UNCHANGED <<heap, pc, call>>
           ELSE /\ free_list' = [free_list EXCEPT ![d] =
                                    Without(@, Blocks(p, d))]
                /\ FreePages(p, 1)
                /\ Done(t)
                /\ UNCHANGED panic
        /\ UNCHANGED <<held, holder>>

Unlock(t) ==
    /\ At(t, "unlock")
    /\ holder' = None
    /\ Goto(t, "out")
    /\ UNCHANGED <<heap, held, call, panic>>

-----------------------------------------------------------------------------
(* Beside the pool's lock *)

\* thread_start and process_execute take pages that are never given back.  The
\* bits in unseen are lost to a stale byte, this call's or another one's, or set
\* too late for another call's scan (PageAlloc has the steps); a later scan that
\* finds the page clear leads to page_table_add's assertion.
get_kernel_pages(cnt, unseen) ==
    LET first == bitmap_scan(bits, len, cnt)
        run == first .. first + cnt - 1
    IN  /\ panic = "no" /\ first \notin {None, Halts}
        /\ cnt <= frames /\ run \cap mapped = {}
        /\ \A i \in unseen : \E j \in run : i \div ByteBits = j \div ByteBits
        /\ bits' = SetRun(bits, first, cnt, 1) \ unseen
        /\ mapped' = mapped \cup run
        /\ frames' = frames - cnt
        /\ raced' = (raced \/ unseen # {})
        /\ UNCHANGED <<arena, free_list, held, holder, pc, call, panic>>

\* A page table of a process takes a frame of this pool and no address.
TakeTable ==
    /\ panic = "no" /\ frames > 0
    /\ frames' = frames - 1
    /\ UNCHANGED <<bits, mapped, raced, arena, free_list, held, holder, pc, call, panic>>

Next ==
    \/ \E cnt \in 1 .. MaxTaken, unseen \in SUBSET Pages : get_kernel_pages(cnt, unseen)
    \/ TakeTable
    \/ \E t \in Threads :
           \/ \E size \in Sizes : sys_malloc(t, size)
           \/ \E block \in held[t] : sys_free(t, block)
           \/ Lock(t) \/ MallocLarge(t) \/ NewArena(t) \/ HasBlock(t) \/ Pop(t)
           \/ NoPages(t) \/ HaltInMalloc(t)
           \/ FreeLarge(t) \/ FreeBlock(t) \/ CountBlock(t) \/ Unlock(t)

Spec == Init /\ [][Next]_vars

-----------------------------------------------------------------------------
(* Correctness *)

Bytes(a, n) == a .. a + n - 1
Held == UNION {held[t] : t \in Threads}
Arenas == {p \in mapped : arena[p] # NoArena}
SmallArenas == {p \in Arenas : ~arena[p].large}

\* Everything that lies in the heap: headers, the links of free blocks, and
\* what the threads have been given.
Extents ==
    {<<"header", p * PG_SIZE, Header>> : p \in Arenas}
    \cup {<<"link", a, Link>> : a \in UNION {ToSet(free_list[d]) : d \in Descs}}
    \cup {<<"block", b[1], b[2]>> : b \in Held}

\* No byte is used twice, and no block has two owners: a thread that fills its
\* block up to the size it asked for reaches no header, no link of the free
\* list and nobody else's block.
NoOverlap ==
    /\ \A x, y \in Extents : x # y => Bytes(x[2], x[3]) \cap Bytes(y[2], y[3]) = {}
    /\ \A t, u \in Threads : t # u => held[t] \cap held[u] = {}

\* The pages of a block in use and of a free one are mapped: an arena is not
\* given back under a block somebody still has, nor left on a list after it.
InUseMapped ==
    \A x \in Extents : \A a \in Bytes(x[2], x[3]) : block2arena(a) \in mapped

\* Where no call is under way an arena's count is the number of its blocks on
\* the free list, and its other blocks are held: none is lost, and an arena
\* without a block in use has been given back.
EveryBlockCounted ==
    holder = None /\ (\A t \in Threads : pc[t] # "free") =>
        \A p \in SmallArenas :
            LET d == arena[p].desc
                free == Blocks(p, d) \cap ToSet(free_list[d])
            IN  /\ arena[p].cnt = Cardinality(free)
                /\ arena[p].cnt < block_per_arena[d]
                /\ Blocks(p, d) \ free = {b[1] : b \in Held} \cap Blocks(p, d)

\* The machine stops for want of memory only, and never in an assertion about
\* the lists: where no address is left, where no frame is left although there
\* are addresses, which page tables can bring about, or at a page that a thread
\* creation has raced for.
HaltsOnlyForMemory ==
    /\ panic # "list"
    /\ panic = "bitmap_scan" => Map \subseteq bits
    /\ panic = "palloc" => frames = 0
    /\ panic = "page_table_add" => raced
=============================================================================
