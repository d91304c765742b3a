------------------------------ MODULE PageAlloc ------------------------------
(***************************************************************************)
(* The page level of kernel/memory.c: kernel threads and user processes    *)
(* take addresses and page frames out of shared bitmaps, map them, and     *)
(* give large blocks back.  sys_malloc, sys_free and get_a_page hold the   *)
(* lock of their pool; get_kernel_pages, which thread and process creation *)
(* use, holds none, and a page table is taken from the kernel's pool under *)
(* the user pool's lock.  A thread can lose the CPU between any two steps,  *)
(* and a byte of a bitmap is read in one step and written back in another. *)
(* A scan reads its map at one instant.                                    *)
(***************************************************************************)
EXTENDS BitmapOps

CONSTANTS KThreads,             \* threads without a pgdir
          Procs,                \* those with one
          KBytes,               \* length of the kernel's pool and address maps
          UBytes, VBytes,       \* of the user pool's, of a process's address map
          MaxPages              \* bound: pages asked for at once

ASSUME PageAllocAssumption ==
    /\ KThreads \cap Procs = {} /\ None \notin KThreads \cup Procs
    /\ {"kernel_pool", "user_pool", "kernel_vaddr"} \cap (KThreads \cup Procs) = {}
    /\ {KBytes, UBytes, VBytes, MaxPages} \subseteq Nat \ {0}

Threads == KThreads \cup Procs
Pools == {"kernel_pool", "user_pool"}
Maps == Pools \cup {"kernel_vaddr"} \cup Procs

BytesOf(m) == CASE m \in {"kernel_pool", "kernel_vaddr"} -> KBytes
             [] m = "user_pool" -> UBytes
             [] m \in Procs -> VBytes
Bits(m) == 0 .. BytesOf(m) * ByteBits - 1

\* Which pool and which address map a thread's requests go to.
Pool(t) == IF t \in KThreads THEN "kernel_pool" ELSE "user_pool"
AddressMap(t) == IF t \in KThreads THEN "kernel_vaddr" ELSE t
Spaces == {"kernel_vaddr"} \cup Procs

\* A page's number is its bit in the address map.  A multi-page run may end
\* one page behind the map.
Pages == 0 .. ByteBits * (IF KBytes > VBytes THEN KBytes ELSE VBytes)
Frames == Pools \X (Pages \cup Bits("user_pool"))
NoFrame == <<>>

\* USER_STACK3_VADDR, and the two page tables a process needs.
StackPage == VBytes * ByteBits - 1
Tables == {"heap", "stack"}
TableOf(v) == IF v = StackPage THEN "stack" ELSE "heap"

VARIABLES bits,         \* bits[m]: the 1 bits of bitmap m
          pt,           \* pt[s][v]: the frame page v of space s is mapped to
          table,        \* table[p][g]: the frame of p's page table g
          holder,       \* the locks of the two pools
          owned,        \* owned[t]: the runs <<page, cnt, kind>> t was given and keeps
          pc, call,     \* where t stands; the kind of call and its pages
          frame,        \* frame[t]: the bit palloc found for t's page ...
          table_frame,  \* ... and for the page table it goes into
          copy,         \* copy[t]: the byte that bitmap_set has read
          panic

shared == <<bits, pt, table>>
locals == <<frame, table_frame, copy>>
vars == <<shared, holder, owned, pc, call, locals, panic>>

Kinds == {"get_kernel_pages", "sys_malloc", "get_a_page", "sys_free"}
Labels == {"start", "out", "lock", "addresses", "mark", "mark_write", "palloc",
           "take", "take_write", "page_table_add", "map", "take_table", "take_table_write",
           "add_table", "pfree", "pfree_write", "pte_remove",
           "vaddr_remove", "vaddr_write", "unlock"}

TypeOK ==
    /\ bits \in [Maps -> SUBSET (Pages \cup Bits("user_pool"))]
    /\ pt \in [Spaces -> [Pages -> Frames \cup {NoFrame}]]
    /\ table \in [Procs -> [Tables -> Frames \cup {NoFrame}]]
    /\ holder \in [Pools -> Threads \cup {None}]
    /\ owned \in [Threads -> SUBSET (Pages \X (1 .. MaxPages) \X Kinds)]
    /\ pc \in [Threads -> Labels]
    /\ call \in [Threads -> [kind : Kinds, base : Pages, cnt : 0 .. MaxPages,
                             done : 0 .. MaxPages]]
    /\ frame \in [Threads -> Pages \cup Bits("user_pool")]
    /\ table_frame \in [Procs -> Pages]
    /\ copy \in [Threads -> SUBSET (Pages \cup Bits("user_pool"))]
    /\ panic \in BOOLEAN

NoCall == [kind |-> "get_kernel_pages", base |-> 0, cnt |-> 0, done |-> 0]

Init ==
    /\ bits = [m \in Maps |-> {}]
    /\ pt = [s \in Spaces |-> [v \in Pages |-> NoFrame]]
    /\ table = [p \in Procs |-> [g \in Tables |-> NoFrame]]
    /\ holder = [m \in Pools |-> None]
    /\ owned = [t \in Threads |-> {}]
    /\ pc = [t \in Threads |-> IF t \in Procs THEN "start" ELSE "out"]
    /\ call = [t \in Threads |-> NoCall]
    /\ frame = [t \in Threads |-> 0]
    /\ table_frame = [p \in Procs |-> 0]
    /\ copy = [t \in Threads |-> {}]
    /\ panic = FALSE

-----------------------------------------------------------------------------
\* A call's locals end with it: pages to map are counted in call, frame and
\* table_frame hold what palloc returned until it is used.
At(t, label) == pc[t] = label /\ ~panic
Goto(t, label) == pc' = [pc EXCEPT ![t] = label]

\* The end of a call: sys_malloc and the others release the lock first.
Return(t) ==
    /\ Goto(t, IF call[t].kind = "get_kernel_pages" THEN "out" ELSE "unlock")
    /\ call' = [call EXCEPT ![t] = NoCall]

Call(t, kind, base, cnt, label) ==
    /\ call' = [call EXCEPT ![t] = [kind |-> kind, base |-> base, cnt |-> cnt, done |-> 0]]
    /\ Goto(t, label)
    /\ UNCHANGED <<shared, holder, locals, panic>>

\* A failed ASSERT stops the machine.
Panic == panic' = TRUE /\ UNCHANGED <<shared, holder, owned, pc, call, locals>>

Page(t) == call[t].base + call[t].done

\* A loop over the call's pages goes on at label, or is over and goes on at next.
NextPage(t, label, next) ==
    IF call[t].done + 1 < call[t].cnt
    THEN Goto(t, label) /\ call' = [call EXCEPT ![t].done = @ + 1]
    ELSE Goto(t, next) /\ call' = [call EXCEPT ![t].done = 0]

\* bitmap_set, in two steps: the byte of bit i is read into a register ...
ByteOf(i) == {(i \div ByteBits) * ByteBits + j : j \in 0 .. ByteBits - 1}

ReadByte(t, m, i, label) ==
    /\ copy' = [copy EXCEPT ![t] = bits[m] \cap ByteOf(i)]
    /\ Goto(t, label)
    /\ UNCHANGED <<shared, holder, owned, call, frame, table_frame, panic>>

\* ... and written back with the bit changed, whatever is in the map by now.
WriteByte(t, m, i, value) ==
    /\ bits' = [bits EXCEPT ![m] = (@ \ ByteOf(i)) \cup bitmap_set(copy[t], i, value)]
    /\ copy' = [copy EXCEPT ![t] = {}]

-----------------------------------------------------------------------------
(* Calls and locks *)

get_kernel_pages(t, cnt) ==
    /\ At(t, "out") /\ t \in KThreads
    /\ Call(t, "get_kernel_pages", 0, cnt, "addresses")
    /\ UNCHANGED owned

\* Mutant: sys_malloc forgets the lock of the user pool.
sys_mallocUnlocked(t, cnt) ==
    /\ At(t, "out")
    /\ Call(t, "sys_malloc", 0, cnt, IF t \in Procs THEN "addresses" ELSE "lock")
    /\ UNCHANGED owned

sys_malloc(t, cnt) == At(t, "out") /\ Call(t, "sys_malloc", 0, cnt, "lock") /\ UNCHANGED owned

\* start_process maps the user stack before anything else.
get_a_page(t) ==
    At(t, "start") /\ Call(t, "get_a_page", StackPage, 1, "lock") /\ UNCHANGED owned

sys_free(t, run) ==
    /\ At(t, "out") /\ run \in owned[t] /\ run[3] = "sys_malloc"
    /\ Call(t, "sys_free", run[1], run[2], "lock")
    /\ owned' = [owned EXCEPT ![t] = @ \ {run}]

Lock(t) ==
    /\ At(t, "lock") /\ holder[Pool(t)] = None
    /\ holder' = [holder EXCEPT ![Pool(t)] = t]
    /\ Goto(t, CASE call[t].kind = "sys_malloc" -> "addresses"
                 [] call[t].kind = "get_a_page" -> "mark"
                 [] call[t].kind = "sys_free"   -> "pfree")
    /\ UNCHANGED <<shared, owned, call, locals, panic>>

Unlock(t) ==
    /\ At(t, "unlock")
    /\ holder' = [holder EXCEPT ![Pool(t)] = None]
    /\ Goto(t, "out")
    /\ UNCHANGED <<shared, owned, call, locals, panic>>

-----------------------------------------------------------------------------
(* malloc_page *)

\* vaddr_get looks for a run of addresses ...
FoundRun(t) == bitmap_scan(bits[AddressMap(t)], BytesOf(AddressMap(t)), call[t].cnt)

\* Mutant: sys_malloc returns without the lock's release when there are none.
AddressesKeeping(t) ==
    /\ At(t, "addresses")
    /\ IF FoundRun(t) = Halts THEN Panic
       ELSE /\ IF FoundRun(t) = None
               THEN Goto(t, "out") /\ call' = [call EXCEPT ![t] = NoCall]
               ELSE Goto(t, "mark") /\ call' = [call EXCEPT ![t].base = FoundRun(t)]
            /\ UNCHANGED <<shared, holder, owned, locals, panic>>

Addresses(t) ==
    /\ At(t, "addresses")
    /\ IF FoundRun(t) = Halts THEN Panic
       ELSE /\ IF FoundRun(t) = None
               THEN Return(t)
               ELSE Goto(t, "mark") /\ call' = [call EXCEPT ![t].base = FoundRun(t)]
            /\ UNCHANGED <<shared, holder, owned, locals, panic>>

\* ... and marks it bit by bit, as get_a_page does with the address it was
\* given.  A process's run must not begin with the page below 0xc0000000.
Mark(t) == At(t, "mark") /\ ReadByte(t, AddressMap(t), Page(t), "mark_write")

MarkWrite(t) ==
    /\ At(t, "mark_write")
    /\ WriteByte(t, AddressMap(t), Page(t), 1)
    /\ NextPage(t, "mark", "palloc")
    /\ panic' = (/\ t \in Procs /\ call[t].kind = "sys_malloc" /\ call[t].base >= StackPage
                 /\ call[t].done + 1 = call[t].cnt)
    /\ UNCHANGED <<pt, table, holder, owned, frame, table_frame>>

\* palloc looks for a frame ...
palloc(t) ==
    LET r == bitmap_scan(bits[Pool(t)], BytesOf(Pool(t)), 1)
    IN  /\ At(t, "palloc")
        /\ IF r = Halts THEN Panic
           ELSE /\ frame' = [frame EXCEPT ![t] = r]
                /\ Goto(t, "take")
                /\ UNCHANGED <<shared, holder, owned, call, table_frame, copy, panic>>

\* Mutant: palloc does not mark the frame.
TakeFrameNot(t) ==
    /\ At(t, "take")
    /\ Goto(t, "page_table_add")
    /\ UNCHANGED <<shared, holder, owned, call, locals, panic>>

\* ... and marks it.
TakeFrame(t) == At(t, "take") /\ ReadByte(t, Pool(t), frame[t], "take_write")

TakeFrameWrite(t) ==
    /\ At(t, "take_write")
    /\ WriteByte(t, Pool(t), frame[t], 1)
    /\ Goto(t, "page_table_add")
    /\ UNCHANGED <<pt, table, holder, owned, call, frame, table_frame, panic>>

\* The kernel's page tables were all made by the loader.
HasTable(t) == t \in Procs => table[t][TableOf(Page(t))] # NoFrame

\* Mutant: the page is mapped whether it is mapped already or not.
page_table_addUnchecked(t) ==
    /\ At(t, "page_table_add") /\ HasTable(t)
    /\ Goto(t, "map")
    /\ UNCHANGED <<shared, holder, owned, call, locals, panic>>

\* page_table_add tests the entry of the page, which must not be mapped ...
page_table_add(t) ==
    /\ At(t, "page_table_add") /\ HasTable(t)
    /\ IF pt[AddressMap(t)][Page(t)] # NoFrame THEN Panic
       ELSE Goto(t, "map") /\ UNCHANGED <<shared, holder, owned, call, locals, panic>>

\* The run a call returns, when it has mapped the last page.
RunOf(t) == IF call[t].kind = "get_a_page" THEN {}
            ELSE {<<call[t].base, call[t].cnt, call[t].kind>>}

\* ... and writes it, whatever it holds by now; malloc_page goes on with the
\* next page, or is done.
Map(t) ==
    LET last == call[t].done + 1 = call[t].cnt
    IN  /\ At(t, "map")
        /\ pt' = [pt EXCEPT ![AddressMap(t)][Page(t)] = <<Pool(t), frame[t]>>]
        /\ frame' = [frame EXCEPT ![t] = 0]
        /\ IF last THEN Return(t)
           ELSE Goto(t, "palloc") /\ call' = [call EXCEPT ![t].done = @ + 1]
        /\ owned' = [owned EXCEPT ![t] = @ \cup (IF last THEN RunOf(t) ELSE {})]
        /\ UNCHANGED <<bits, table, holder, table_frame, copy, panic>>

\* A process's missing page table takes a frame of the kernel's pool ...
PallocTable(t) ==
    LET r == bitmap_scan(bits["kernel_pool"], KBytes, 1)
    IN  /\ At(t, "page_table_add") /\ ~HasTable(t)
        /\ IF r = Halts THEN Panic
           ELSE /\ table_frame' = [table_frame EXCEPT ![t] = r]
                /\ Goto(t, "take_table")
                /\ UNCHANGED <<shared, holder, owned, call, frame, copy, panic>>

TakeTable(t) ==
    At(t, "take_table") /\ ReadByte(t, "kernel_pool", table_frame[t], "take_table_write")

TakeTableWrite(t) ==
    /\ At(t, "take_table_write")
    /\ WriteByte(t, "kernel_pool", table_frame[t], 1)
    /\ Goto(t, "add_table")
    /\ UNCHANGED <<pt, table, holder, owned, call, frame, table_frame, panic>>

\* ... and is cleared; then the page's entry is tested and written like any.
AddTable(t) ==
    /\ At(t, "add_table")
    /\ table' = [table EXCEPT ![t][TableOf(Page(t))] = <<"kernel_pool", table_frame[t]>>]
    /\ table_frame' = [table_frame EXCEPT ![t] = 0]
    /\ Goto(t, "page_table_add")
    /\ UNCHANGED <<bits, pt, holder, owned, call, frame, copy, panic>>

-----------------------------------------------------------------------------
(* mfree_page *)

\* For each page pfree stores 0 in its frame's bit, which reads the byte and
\* writes it back as it was ...
pfree(t) ==
    LET f == pt[AddressMap(t)][Page(t)]
    IN  At(t, "pfree") /\ ReadByte(t, f[1], f[2], "pfree_write")

pfreeWrite(t) ==
    LET f == pt[AddressMap(t)][Page(t)]
    IN  /\ At(t, "pfree_write")
        /\ WriteByte(t, f[1], f[2], 0)
        /\ Goto(t, "pte_remove")
        /\ UNCHANGED <<pt, table, holder, owned, call, frame, table_frame, panic>>

\* ... and the page is unmapped; then vaddr_remove does the same to the bits of
\* the addresses.
page_table_pte_remove(t) ==
    /\ At(t, "pte_remove")
    /\ pt' = [pt EXCEPT ![AddressMap(t)][Page(t)] = NoFrame]
    /\ NextPage(t, "pfree", "vaddr_remove")
    /\ UNCHANGED <<bits, table, holder, owned, locals, panic>>

vaddr_remove(t) == At(t, "vaddr_remove") /\ ReadByte(t, AddressMap(t), Page(t), "vaddr_write")

VaddrWrite(t) ==
    /\ At(t, "vaddr_write")
    /\ WriteByte(t, AddressMap(t), Page(t), 0)
    /\ IF call[t].done + 1 < call[t].cnt
       THEN Goto(t, "vaddr_remove") /\ call' = [call EXCEPT ![t].done = @ + 1]
       ELSE Return(t)
    /\ UNCHANGED <<pt, table, holder, owned, frame, table_frame, panic>>

malloc_page(t) ==
    \/ Addresses(t) \/ Mark(t) \/ MarkWrite(t)
    \/ palloc(t) \/ TakeFrame(t) \/ TakeFrameWrite(t)
    \/ page_table_add(t) \/ Map(t)
    \/ t \in Procs /\ (PallocTable(t) \/ TakeTable(t) \/ TakeTableWrite(t) \/ AddTable(t))

mfree_page(t) ==
    pfree(t) \/ pfreeWrite(t) \/ page_table_pte_remove(t) \/ vaddr_remove(t) \/ VaddrWrite(t)

Next ==
    \E t \in Threads :
        \/ get_a_page(t)
        \/ \E cnt \in 1 .. MaxPages : get_kernel_pages(t, cnt) \/ sys_malloc(t, cnt)
        \/ \E run \in owned[t] : sys_free(t, run)
        \/ Lock(t) \/ malloc_page(t) \/ mfree_page(t) \/ Unlock(t)

Spec == Init /\ [][Next]_vars

-----------------------------------------------------------------------------
(* Correctness *)

\* Where frame f is in use: the pages mapped to it and the tables it holds.
Uses(f) == {x \in Spaces \X Pages : pt[x[1]][x[2]] = f}
           \cup {x \in Procs \X Tables : table[x[1]][x[2]] = f}

\* The user pool's lock covers every path to it: no frame of the user pool is
\* mapped twice, in one process or in two.
UserFramesExclusive ==
    \A i \in Bits("user_pool") : Cardinality(Uses(<<"user_pool", i>>)) <= 1

\* A process's mapped page and its frame stay marked in their bitmaps, so that
\* no scan can hand either out again, although bitmap_set writes back a byte
\* that it read earlier: only the lock keeps another bit of the byte from being
\* lost in between.
MappedMarked ==
    \A p \in Procs, v \in Pages : pt[p][v] # NoFrame =>
        v \in bits[p] /\ pt[p][v][2] \in bits[pt[p][v][1]]

\* Two runs that sys_malloc gave never overlap.  A kernel thread's addresses can
\* lose their bits to an unlocked get_kernel_pages and be found again; the test
\* in page_table_add stops the second sys_malloc, under the lock of the first.
RunsDisjoint ==
    \A t, u \in Threads : AddressMap(t) = AddressMap(u) =>
        \A r \in owned[t], q \in owned[u] :
            <<t, r>> # <<u, q>> /\ r[3] = "sys_malloc" /\ q[3] = "sys_malloc" =>
                (r[1] .. r[1] + r[2] - 1) \cap (q[1] .. q[1] + q[2] - 1) = {}

\* "Kernel processes basically do not conflict" (memory.c:385): a frame of the
\* kernel's pool has one use.
KernelFramesExclusive ==
    \A i \in Bits("kernel_pool") : Cardinality(Uses(<<"kernel_pool", i>>)) <= 1

\* "Takes a physical address back" (memory.c:152): a frame nobody uses and no
\* call is about to map can be allocated again.
FreedFramesReturn ==
    \A m \in Pools : \A i \in bits[m] :
        \/ Uses(<<m, i>>) # {}
        \/ \E t \in Threads : pc[t] \notin {"start", "out", "lock", "unlock"}

\* No call takes a pool's lock away with it, failures included: whoever has a
\* pool's lock is still in a call that uses that pool and ends with its release.
LockGivenBack ==
    \A m \in Pools, t \in Threads : holder[m] = t =>
        /\ Pool(t) = m
        /\ pc[t] \notin {"start", "out", "lock"}
        /\ call[t].kind = "get_kernel_pages" => pc[t] = "unlock"
=============================================================================
