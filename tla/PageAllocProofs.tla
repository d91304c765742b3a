--------------------------- MODULE PageAllocProofs --------------------------
(***************************************************************************)
(* Proofs about the page allocator, for any number of threads and          *)
(* processes and maps of any length: who holds a pool's lock, that what a  *)
(* process has mapped is marked, although a byte of a map is written back  *)
(* as it was read earlier, and that neither the user pool's frames nor the *)
(* runs of sys_malloc are given out twice.                                 *)
(***************************************************************************)
EXTENDS PageAlloc, DataProofs

\* Where a call stands: where it marks its addresses, maps its pages, takes a
\* page table for one, and gives pages back.
Marking == {"mark", "mark_write"}
Tabling == {"take_table", "take_table_write", "add_table"}
Mapping == {"palloc", "take", "take_write", "page_table_add", "map"} \cup Tabling
Freeing == {"pfree", "pfree_write", "pte_remove", "vaddr_remove", "vaddr_write"}
Paged == Marking \cup Mapping \cup Freeing
Inner == {"addresses"} \cup Paged
\* Where it has marked its frame and not mapped it yet.
Framed == {"page_table_add", "map"} \cup Tabling

\* The kinds of call that are at a label.
KindsAt(label) ==
    CASE label = "addresses" -> {"get_kernel_pages", "sys_malloc"}
      [] label = "lock" -> Kinds \ {"get_kernel_pages"}
      [] label \in Freeing -> {"sys_free"}
      [] label \in Mapping \cup Marking -> Kinds \ {"sys_free"}
      [] label \in {"start", "out", "unlock"} -> {"get_kernel_pages"}

\* A call's kind fits the place it stands at and the thread that made it.
KindOk(t) ==
    /\ call[t].kind \in KindsAt(pc[t])
    /\ t \in Procs /\ pc[t] \in Inner => call[t].kind # "get_kernel_pages"
    /\ call[t].kind = "get_a_page" => t \in Procs /\ call[t].cnt = 1
    /\ pc[t] \in {"start"} \cup Tabling => t \in Procs

\* A call's pages are pages, and it has not done them all.
CallOk(t) ==
    /\ pc[t] \in Inner \cup {"lock"} => call[t].done < call[t].cnt
    /\ pc[t] \notin Paged => call[t].done = 0
    /\ pc[t] \in Paged => call[t].base + call[t].cnt - 1 \in Pages

CallInv == \A t \in Threads : KindOk(t) /\ CallOk(t)

\* t is where it holds its pool's lock.
Locked(t) ==
    \/ pc[t] = "unlock"
    \/ pc[t] \in Inner /\ call[t].kind # "get_kernel_pages"

LockInv == \A m \in Pools, t \in Threads : holder[m] = t <=> Pool(t) = m /\ Locked(t)

\* The pages of t's call.
Run(r) == r[1] .. r[1] + r[2] - 1
CallRun(t) == call[t].base .. call[t].base + call[t].cnt - 1
Done(t) == call[t].base .. call[t].base + call[t].done - 1

\* What process p's call has read of a map is what the map still says: its
\* lock keeps others from it.  Its addresses are marked as far as they go; its
\* frame is clear and, once it is marked, nobody's page.
ProcOk(p) ==
    /\ pc[p] \in Marking => Done(p) \subseteq bits[p]
    /\ pc[p] \in Mapping => CallRun(p) \subseteq bits[p]
    /\ pc[p] \in {"mark_write", "vaddr_write"} => copy[p] = bits[p] \cap ByteOf(Page(p))
    /\ pc[p] = "take_write" => copy[p] = bits["user_pool"] \cap ByteOf(frame[p])
    /\ pc[p] = "pfree_write" =>
          copy[p] = bits["user_pool"] \cap ByteOf(pt[p][Page(p)][2])
    /\ pc[p] \in {"take", "take_write"} => frame[p] \notin bits["user_pool"]
    /\ pc[p] \in Framed =>
          /\ frame[p] \in bits["user_pool"]
          /\ \A s \in Spaces, v \in Pages : pt[s][v] # <<"user_pool", frame[p]>>

ProcInv == \A p \in Procs : ProcOk(p)

\* Pages are mapped to frames of their owner's pool, and tables lie in frames
\* of the kernel's.
Origins ==
    /\ \A s \in Spaces, v \in Pages : pt[s][v] # NoFrame =>
          pt[s][v][1] = IF s = "kernel_vaddr" THEN "kernel_pool" ELSE "user_pool"
    /\ \A p \in Procs, g \in Tables : table[p][g] # NoFrame => table[p][g][1] = "kernel_pool"

MappedOnce ==
    \A s, s1 \in Spaces, v, v1 \in Pages : \A i \in Bits("user_pool") :
        pt[s][v] = <<"user_pool", i>> /\ pt[s1][v1] = <<"user_pool", i>> => s = s1 /\ v = v1

\* The runs of sys_malloc that t keeps, and the pages it is mapping for one or
\* has still to give back of one.
Kept(t) == {r \in owned[t] : r[3] = "sys_malloc"}
Work(t) ==
    CASE call[t].kind = "sys_malloc" /\ pc[t] \in Mapping ->
            Done(t) \cup (IF pc[t] = "map" THEN {Page(t)} ELSE {})
      [] call[t].kind = "sys_free" /\ pc[t] \in {"lock", "pfree", "pfree_write", "pte_remove"} ->
            Page(t) .. call[t].base + call[t].cnt - 1
      [] OTHER -> {}

\* They are mapped, but for the page that is just being mapped, and disjoint.
RunInv ==
    /\ \A t \in Threads : \A r \in Kept(t) : \A v \in Run(r) :
          v \in Pages /\ pt[AddressMap(t)][v] # NoFrame
    /\ \A t \in Threads : \A v \in Work(t) :
          v \in Pages /\ (pt[AddressMap(t)][v] # NoFrame \/ (pc[t] = "map" /\ v = Page(t)))
    /\ \A t, u \in Threads : AddressMap(t) = AddressMap(u) =>
          /\ \A r \in Kept(t), q \in Kept(u) : <<t, r>> # <<u, q>> => Run(r) \cap Run(q) = {}
          /\ \A r \in Kept(t) : Run(r) \cap Work(u) = {}
          /\ t # u => Work(t) \cap Work(u) = {}

IInv ==
    /\ TypeOK /\ CallInv /\ LockInv /\ ProcInv
    /\ MappedMarked /\ Origins /\ MappedOnce /\ RunInv

\* What thread t may do.
Begin(t) ==
    \/ get_a_page(t)
    \/ \E cnt \in 1 .. MaxPages : get_kernel_pages(t, cnt) \/ sys_malloc(t, cnt)
    \/ \E run \in owned[t] : sys_free(t, run)

ThreadStep(t) == Begin(t) \/ Lock(t) \/ malloc_page(t) \/ mfree_page(t) \/ Unlock(t)

-----------------------------------------------------------------------------
(* The constants, and the places of a call. *)

LEMMA Constants ==
    /\ KThreads \cap Procs = {} /\ None \notin Threads
    /\ "kernel_pool" \notin Threads /\ "user_pool" \notin Threads /\ "kernel_vaddr" \notin Threads
    /\ KBytes \in Nat \ {0} /\ UBytes \in Nat \ {0} /\ VBytes \in Nat \ {0}
    /\ MaxPages \in Nat \ {0} /\ ByteBits \in Nat \ {0}
BY PageAllocAssumption, ByteBitsAssumption DEF Threads

\* The lengths of the maps, and which numbers are pages.
LEMMA Lengths ==
    /\ BytesOf("kernel_pool") = KBytes /\ BytesOf("user_pool") = UBytes
    /\ \A m \in Spaces : BytesOf(m) \in Nat /\ 0 .. BytesOf(m) * ByteBits \subseteq Pages
    /\ 0 .. KBytes * ByteBits - 1 \subseteq Pages
    /\ Bits("user_pool") = 0 .. UBytes * ByteBits - 1
    /\ StackPage \in Pages /\ Pages \subseteq Nat
<1>. /\ KBytes \in Nat \ {0} /\ UBytes \in Nat \ {0} /\ VBytes \in Nat \ {0}
     /\ ByteBits \in Nat \ {0}
  BY Constants
<1>1. BytesOf("kernel_pool") = KBytes /\ BytesOf("user_pool") = UBytes
  BY Constants DEF BytesOf, Threads
<1>2. \A m \in Spaces : BytesOf(m) \in {KBytes, VBytes}
  BY Constants DEF BytesOf, Spaces, Threads
<1>3. /\ KBytes * ByteBits \in Nat /\ ByteBits * KBytes = KBytes * ByteBits
      /\ VBytes * ByteBits \in Nat /\ ByteBits * VBytes = VBytes * ByteBits
      /\ VBytes * ByteBits > 0
  OBVIOUS
<1>4. 0 .. KBytes * ByteBits \subseteq Pages /\ 0 .. VBytes * ByteBits \subseteq Pages
  <2>1. CASE KBytes > VBytes
    <3>1. Pages = 0 .. ByteBits * KBytes
      BY <2>1 DEF Pages
    <3>2. VBytes * ByteBits <= KBytes * ByteBits
      <4>1. KBytes * ByteBits = VBytes * ByteBits + (KBytes - VBytes) * ByteBits
        OBVIOUS
      <4>2. (KBytes - VBytes) * ByteBits \in Nat
        BY <2>1
      <4>. QED  BY <1>3, <4>1, <4>2
    <3>. QED  BY <1>3, <3>1, <3>2
  <2>2. CASE ~(KBytes > VBytes)
    <3>1. Pages = 0 .. ByteBits * VBytes
      BY <2>2 DEF Pages
    <3>2. KBytes * ByteBits <= VBytes * ByteBits
      <4>1. VBytes * ByteBits = KBytes * ByteBits + (VBytes - KBytes) * ByteBits
        OBVIOUS
      <4>2. (VBytes - KBytes) * ByteBits \in Nat
        BY <2>2
      <4>. QED  BY <1>3, <4>1, <4>2
    <3>. QED  BY <1>3, <3>1, <3>2
  <2>. QED  BY <2>1, <2>2
<1>5. Pages \subseteq Nat
  BY DEF Pages
<1>6. StackPage \in 0 .. VBytes * ByteBits
  BY <1>3 DEF StackPage
<1>7. \A m \in Spaces : BytesOf(m) \in Nat /\ 0 .. BytesOf(m) * ByteBits \subseteq Pages
  BY <1>2, <1>4
<1>8. 0 .. KBytes * ByteBits - 1 \subseteq 0 .. KBytes * ByteBits
  BY <1>3
<1>9. Bits("user_pool") = 0 .. UBytes * ByteBits - 1
  BY <1>1 DEF Bits
<1>. QED  BY <1>1, <1>4, <1>5, <1>6, <1>7, <1>8, <1>9

LEMMA Owners ==
    ASSUME NEW t \in Threads
    PROVE  /\ t \in KThreads => t \notin Procs /\ Pool(t) = "kernel_pool"
                                /\ AddressMap(t) = "kernel_vaddr"
           /\ t \notin KThreads => t \in Procs /\ Pool(t) = "user_pool" /\ AddressMap(t) = t
           /\ Pool(t) \in Pools /\ AddressMap(t) \in Spaces
           /\ Pool(t) \in Maps /\ AddressMap(t) \in Maps /\ AddressMap(t) \notin Pools
BY Constants DEF Threads, Pool, AddressMap, Pools, Spaces, Maps

LEMMA Places ==
    /\ KindsAt("addresses") = {"get_kernel_pages", "sys_malloc"}
    /\ KindsAt("lock") = Kinds \ {"get_kernel_pages"}
    /\ \A l \in Freeing : KindsAt(l) = {"sys_free"}
    /\ \A l \in Mapping \cup Marking : KindsAt(l) = Kinds \ {"sys_free"}
    /\ \A l \in {"start", "out", "unlock"} : KindsAt(l) = {"get_kernel_pages"}
BY DEF KindsAt, Mapping, Marking, Tabling, Freeing

LEMMA Interval ==
    ASSUME NEW a \in Pages, NEW b \in Pages
    PROVE  a .. b \subseteq Pages
<1>1. ByteBits * (IF KBytes > VBytes THEN KBytes ELSE VBytes) \in Nat
  BY Constants
<1>. QED  BY <1>1 DEF Pages

\* What a scan of t's pool answers.
LEMMA PoolScan ==
    ASSUME TypeOK, NEW m \in Pools, bitmap_scan(bits[m], BytesOf(m), 1) # Halts
    PROVE  /\ bitmap_scan(bits[m], BytesOf(m), 1) \in Pages \cup Bits("user_pool")
           /\ bitmap_scan(bits[m], BytesOf(m), 1) \notin bits[m]
           /\ m = "kernel_pool" => bitmap_scan(bits[m], BytesOf(m), 1) \in Pages
<1>1. BytesOf(m) \in Nat
  BY Lengths, Constants DEF Pools
<1>2. /\ bitmap_scan(bits[m], BytesOf(m), 1) \in 0 .. BytesOf(m) * ByteBits - 1
      /\ bitmap_scan(bits[m], BytesOf(m), 1) \notin bits[m]
  BY <1>1, ScanOne
<1>3. CASE m = "kernel_pool"
  BY <1>2, <1>3, Lengths
<1>4. CASE m = "user_pool"
  BY <1>2, <1>4, Lengths
<1>. QED  BY <1>2, <1>3, <1>4 DEF Pools

\* A range grows by its next number.
LEMMA OneMore ==
    ASSUME NEW a \in Nat, NEW n \in Nat
    PROVE  a .. a + (n + 1) - 1 = (a .. a + n - 1) \cup {a + n}
OBVIOUS

\* The numbers of t's call.
LEMMA CallNumbers ==
    ASSUME IInv, NEW t \in Threads
    PROVE  /\ call[t].base \in Pages /\ call[t].base \in Nat /\ call[t].cnt \in 0 .. MaxPages
           /\ call[t].done \in 0 .. MaxPages /\ call[t].cnt \in Nat /\ call[t].done \in Nat
           /\ call[t].kind \in Kinds /\ pc[t] \in Labels /\ MaxPages \in Nat /\ 0 \in Pages
           /\ call[t].done < call[t].cnt => call[t].done + 1 \in 0 .. MaxPages
           /\ pc[t] \in Inner \cup {"lock"} =>
                 call[t].done < call[t].cnt /\ Page(t) \in CallRun(t)
           /\ pc[t] \in Paged => CallRun(t) \subseteq Pages /\ Page(t) \in Pages
<1>1. /\ call[t].base \in Pages /\ call[t].cnt \in 0 .. MaxPages
      /\ call[t].done \in 0 .. MaxPages /\ call[t].kind \in Kinds /\ pc[t] \in Labels
  BY DEF IInv, TypeOK
<1>2. MaxPages \in Nat /\ call[t].base \in Nat
  BY <1>1, Lengths, Constants
<1>3. 0 \in Pages
  BY Constants DEF Pages
<1>4. call[t].done < call[t].cnt => call[t].done + 1 \in 0 .. MaxPages
  BY <1>1, <1>2
<1>5. ASSUME pc[t] \in Inner \cup {"lock"}
      PROVE  call[t].done < call[t].cnt /\ Page(t) \in CallRun(t)
  BY <1>1, <1>2, <1>5 DEF IInv, CallInv, CallOk, Page, CallRun
<1>6. ASSUME pc[t] \in Paged
      PROVE  CallRun(t) \subseteq Pages
  BY <1>1, <1>6, Interval DEF IInv, CallInv, CallOk, CallRun
<1>. QED  BY <1>1, <1>2, <1>3, <1>4, <1>5, <1>6 DEF Inner

\* A byte written back over a map that it was read from, and that nobody has
\* changed since, changes the one bit.
LEMMA WriteUnchanged ==
    ASSUME NEW t \in Threads, NEW m \in Maps, NEW i, NEW value, TypeOK,
           copy[t] = bits[m] \cap ByteOf(i), WriteByte(t, m, i, value)
    PROVE  /\ bits'[m] = bitmap_set(bits[m], i, value)
           /\ \A n \in Maps \ {m} : bits'[n] = bits[n]
<1>1. bits' = [bits EXCEPT ![m] = (bits[m] \ ByteOf(i)) \cup bitmap_set(copy[t], i, value)]
  BY DEF WriteByte
<1>2. (bits[m] \ ByteOf(i)) \cup bitmap_set(bits[m] \cap ByteOf(i), i, value)
        = bitmap_set(bits[m], i, value)
  BY DEF bitmap_set
<1>. QED  BY <1>1, <1>2 DEF TypeOK

\* Two processes are not both inside a call: both would hold the lock.
LEMMA OneInside ==
    ASSUME CallInv, LockInv, NEW t \in Procs, NEW u \in Procs,
           pc[t] \in Inner, pc[u] \in Inner
    PROVE  t = u
<1>1. t \in Threads /\ u \in Threads /\ Pool(t) = "user_pool" /\ Pool(u) = "user_pool"
  BY Owners, Constants DEF Threads
<1>2. Locked(t) /\ Locked(u)
  BY <1>1 DEF Locked, CallInv, KindOk
<1>. QED  BY <1>1, <1>2 DEF LockInv, Pools

-----------------------------------------------------------------------------
(* What a step of one thread leaves alone. *)

\* It changes no other thread's place, call or locals.
LEMMA Others ==
    ASSUME TypeOK, NEW t \in Threads, ThreadStep(t), NEW u \in Threads, u # t
    PROVE  /\ pc'[u] = pc[u] /\ call'[u] = call[u] /\ owned'[u] = owned[u]
           /\ frame'[u] = frame[u] /\ copy'[u] = copy[u]
<1>. /\ pc \in [Threads -> Labels] /\ DOMAIN call = Threads /\ DOMAIN frame = Threads
     /\ DOMAIN owned = Threads /\ DOMAIN copy = Threads
  BY DEF TypeOK
<1>1. CASE get_a_page(t)
  BY <1>1 DEF get_a_page, Call, Goto, shared, locals
<1>2. CASE \E cnt \in 1 .. MaxPages : get_kernel_pages(t, cnt)
  BY <1>2 DEF get_kernel_pages, Call, Goto, shared, locals
<1>3. CASE \E cnt \in 1 .. MaxPages : sys_malloc(t, cnt)
  BY <1>3 DEF sys_malloc, Call, Goto, shared, locals
<1>4. CASE \E run \in owned[t] : sys_free(t, run)
  BY <1>4 DEF sys_free, Call, Goto, shared, locals
<1>5. CASE Lock(t)
  BY <1>5 DEF Lock, Goto, shared, locals
<1>6. CASE Unlock(t)
  BY <1>6 DEF Unlock, Goto, shared, locals
<1>7. CASE Addresses(t)
  BY <1>7 DEF Addresses, Panic, Return, Goto, shared, locals
<1>8. CASE Mark(t)
  BY <1>8 DEF Mark, ReadByte, Goto, shared
<1>9. CASE MarkWrite(t)
  BY <1>9 DEF MarkWrite, WriteByte, NextPage, Goto
<1>10. CASE palloc(t)
  BY <1>10 DEF palloc, Panic, Goto, shared, locals
<1>11. CASE TakeFrame(t)
  BY <1>11 DEF TakeFrame, ReadByte, Goto, shared
<1>12. CASE TakeFrameWrite(t)
  BY <1>12 DEF TakeFrameWrite, WriteByte, Goto
<1>13. CASE page_table_add(t)
  BY <1>13 DEF page_table_add, Panic, Goto, shared, locals
<1>14. CASE Map(t)
  BY <1>14 DEF Map, Return, Goto
<1>15. CASE PallocTable(t)
  BY <1>15 DEF PallocTable, Panic, Goto, shared, locals
<1>16. CASE TakeTable(t)
  BY <1>16 DEF TakeTable, ReadByte, Goto, shared
<1>17. CASE TakeTableWrite(t)
  BY <1>17 DEF TakeTableWrite, WriteByte, Goto
<1>18. CASE AddTable(t)
  BY <1>18 DEF AddTable, Goto
<1>19. CASE pfree(t)
  BY <1>19 DEF pfree, ReadByte, Goto, shared
<1>20. CASE pfreeWrite(t)
  BY <1>20 DEF pfreeWrite, WriteByte, Goto
<1>21. CASE page_table_pte_remove(t)
  BY <1>21 DEF page_table_pte_remove, NextPage, Goto, locals
<1>22. CASE vaddr_remove(t)
  BY <1>22 DEF vaddr_remove, ReadByte, Goto, shared
<1>23. CASE VaddrWrite(t)
  BY <1>23 DEF VaddrWrite, WriteByte, Return, Goto
<1>. QED  BY <1>1, <1>2, <1>3, <1>4, <1>5, <1>6, <1>7, <1>8, <1>9, <1>10, <1>11, <1>12, <1>13, <1>14, <1>15, <1>16, <1>17, <1>18, <1>19, <1>20, <1>21, <1>22, <1>23
          DEF ThreadStep, Begin, malloc_page, mfree_page

-----------------------------------------------------------------------------
(* Types. *)

\* A call that ends is where it gives its lock back, if it has one.
LEMMA ReturnType ==
    ASSUME TypeOK, NEW t \in Threads, Return(t)
    PROVE  /\ pc' \in [Threads -> Labels]
           /\ call' \in [Threads -> [kind : Kinds, base : Pages, cnt : 0 .. MaxPages,
                                     done : 0 .. MaxPages]]
           /\ call'[t] = NoCall
           /\ pc'[t] = IF call[t].kind = "get_kernel_pages" THEN "out" ELSE "unlock"
<1>. 0 \in Pages /\ MaxPages \in Nat \ {0}
  BY Lengths, Constants DEF Pages
<1>1. NoCall \in [kind : Kinds, base : Pages, cnt : 0 .. MaxPages, done : 0 .. MaxPages]
  BY DEF NoCall, Kinds
<1>. QED  BY <1>1 DEF Return, Goto, TypeOK, Labels

\* A call that goes on with another of its pages.
LEMMA GoOnType ==
    ASSUME TypeOK, NEW t \in Threads, NEW label \in Labels, NEW d \in 0 .. MaxPages,
           Goto(t, label), call' = [call EXCEPT ![t].done = d]
    PROVE  /\ pc' \in [Threads -> Labels] /\ pc'[t] = label
           /\ call' \in [Threads -> [kind : Kinds, base : Pages, cnt : 0 .. MaxPages,
                                     done : 0 .. MaxPages]]
           /\ call'[t].kind = call[t].kind /\ call'[t].base = call[t].base
           /\ call'[t].cnt = call[t].cnt /\ call'[t].done = d
<1>1. pc \in [Threads -> Labels]
  BY DEF TypeOK
<1>2. call \in [Threads -> [kind : Kinds, base : Pages, cnt : 0 .. MaxPages,
                             done : 0 .. MaxPages]]
  BY DEF TypeOK
<1>3. [call[t] EXCEPT !.done = d]
        \in [kind : Kinds, base : Pages, cnt : 0 .. MaxPages, done : 0 .. MaxPages]
  BY <1>2
<1>. QED  BY <1>1, <1>2, <1>3 DEF Goto

\* A loop over the call's pages goes on with the next, or is over.
LEMMA NextPageType ==
    ASSUME IInv, NEW t \in Threads, NEW label \in Labels, NEW next \in Labels,
           NextPage(t, label, next), call[t].done < call[t].cnt
    PROVE  /\ pc' \in [Threads -> Labels]
           /\ call' \in [Threads -> [kind : Kinds, base : Pages, cnt : 0 .. MaxPages,
                                     done : 0 .. MaxPages]]
           /\ call'[t].kind = call[t].kind /\ call'[t].base = call[t].base
           /\ call'[t].cnt = call[t].cnt
           /\ call[t].done + 1 < call[t].cnt =>
                 pc'[t] = label /\ call'[t].done = call[t].done + 1
           /\ ~(call[t].done + 1 < call[t].cnt) => pc'[t] = next /\ call'[t].done = 0
<1>. DEFINE d == call[t].done + 1
<1>0. TypeOK
  BY DEF IInv
<1>1. 0 \in 0 .. MaxPages /\ d \in 0 .. MaxPages
  BY CallNumbers
<1>2. CASE d < call[t].cnt
  <2>1. Goto(t, label) /\ call' = [call EXCEPT ![t].done = d]
    BY <1>2 DEF NextPage
  <2>. HIDE DEF d
  <2>. QED  BY <1>0, <1>1, <1>2, <2>1, GoOnType DEF d
<1>3. CASE ~(d < call[t].cnt)
  <2>1. Goto(t, next) /\ call' = [call EXCEPT ![t].done = 0]
    BY <1>3 DEF NextPage
  <2>. QED  BY <1>0, <1>1, <1>3, <2>1, GoOnType
<1>. QED  BY <1>2, <1>3

\* A byte is written to a map with the bits of pages and frames only.
LEMMA WriteType ==
    ASSUME TypeOK, NEW t \in Threads, NEW m \in Maps, NEW value,
           NEW i \in Pages \cup Bits("user_pool"), WriteByte(t, m, i, value)
    PROVE  /\ bits' \in [Maps -> SUBSET (Pages \cup Bits("user_pool"))]
           /\ copy' \in [Threads -> SUBSET (Pages \cup Bits("user_pool"))]
BY DEF WriteByte, bitmap_set, TypeOK

\* The frame of a page that is given back.
LEMMA FreedFrame ==
    ASSUME IInv, NEW t \in Threads, pc[t] \in {"pfree", "pfree_write", "pte_remove"}
    PROVE  /\ pt[AddressMap(t)][Page(t)] \in Frames
           /\ pt[AddressMap(t)][Page(t)][1] = Pool(t)
           /\ Page(t) \in Work(t)
<1>1. call[t].kind = "sys_free"
  BY Places DEF IInv, CallInv, KindOk, Freeing
<1>2. Page(t) \in Work(t)
  <2>1. Work(t) = Page(t) .. call[t].base + call[t].cnt - 1
    BY <1>1 DEF Work, Mapping, Tabling
  <2>. QED  BY <2>1, CallNumbers DEF Inner, Paged, Freeing, Page
<1>3. pt[AddressMap(t)][Page(t)] # NoFrame /\ Page(t) \in Pages
  BY <1>2 DEF IInv, RunInv
<1>4. pt[AddressMap(t)][Page(t)] \in Frames
  BY <1>3, Owners DEF IInv, TypeOK
<1>5. pt[AddressMap(t)][Page(t)][1] = Pool(t)
  BY <1>3, Owners, Constants DEF IInv, Origins
<1>. QED  BY <1>2, <1>4, <1>5

\* The addresses a scan has found are pages.
LEMMA RunFound ==
    ASSUME IInv, NEW t \in Threads, pc[t] = "addresses", FoundRun(t) \notin {Halts, None}
    PROVE  FoundRun(t) \in Pages /\ FoundRun(t) + call[t].cnt - 1 \in Pages
<1>. DEFINE m == AddressMap(t)
<1>1. call[t].cnt \in Nat \ {0}
  <2>1. call[t].cnt \in Nat /\ call[t].done \in Nat /\ call[t].done < call[t].cnt
    BY CallNumbers DEF Inner
  <2>. QED  BY <2>1
<1>2. /\ BytesOf(m) \in Nat /\ 0 .. BytesOf(m) * ByteBits \subseteq Pages
      /\ BytesOf(m) * ByteBits \in Int
  BY Owners, Lengths, Constants
<1>3. FoundRun(t) \in Nat /\ FoundRun(t) + call[t].cnt - 1 \in 0 .. BytesOf(m) * ByteBits
  BY <1>1, <1>2, ScanRun DEF FoundRun
<1>4. FoundRun(t) \in 0 .. BytesOf(m) * ByteBits
  <2>. HIDE DEF FoundRun
  <2>. QED  BY <1>1, <1>2, <1>3
<1>. QED  BY <1>2, <1>3, <1>4

LEMMA TypeInit == Init => TypeOK
<1>. SUFFICES ASSUME Init PROVE TypeOK
  OBVIOUS
<1>. 0 \in Pages /\ MaxPages \in Nat \ {0}
  BY Lengths, Constants DEF Pages
<1>1. NoCall \in [kind : Kinds, base : Pages, cnt : 0 .. MaxPages, done : 0 .. MaxPages]
  BY DEF NoCall, Kinds
<1>2. call \in [Threads -> [kind : Kinds, base : Pages, cnt : 0 .. MaxPages,
                             done : 0 .. MaxPages]]
  BY <1>1 DEF Init
<1>. QED  BY <1>2 DEF Init, TypeOK, Labels

LEMMA TypeStep ==
    ASSUME IInv, NEW t \in Threads, ThreadStep(t)
    PROVE  TypeOK'
<1>0. TypeOK
  BY DEF IInv
<1>. /\ 0 \in Pages /\ StackPage \in Pages /\ 0 \in 0 .. MaxPages /\ 1 \in 1 .. MaxPages
     /\ Pool(t) \in Maps /\ AddressMap(t) \in Maps /\ AddressMap(t) \in Spaces
     /\ "kernel_pool" \in Maps /\ Pool(t) \in Pools
  BY Lengths, Constants, Owners DEF Pages, Maps, Pools
<1>1. ASSUME NEW kind \in Kinds, NEW base \in Pages, NEW cnt \in 1 .. MaxPages,
             NEW label \in Labels, Call(t, kind, base, cnt, label), owned' \in [Threads -> SUBSET (Pages \X (1 .. MaxPages) \X Kinds)]
      PROVE  TypeOK'
  <2>1. [kind |-> kind, base |-> base, cnt |-> cnt, done |-> 0]
           \in [kind : Kinds, base : Pages, cnt : 0 .. MaxPages, done : 0 .. MaxPages]
    BY <1>1
  <2>. QED  BY <1>0, <1>1, <2>1 DEF Call, Goto, TypeOK, shared, locals
<1>2. CASE Begin(t)
  <2>1. CASE get_a_page(t)
    BY <1>0, <1>1, <2>1 DEF get_a_page, TypeOK, Kinds, Labels
  <2>2. CASE \E cnt \in 1 .. MaxPages : get_kernel_pages(t, cnt)
    BY <1>0, <1>1, <2>2 DEF get_kernel_pages, TypeOK, Kinds, Labels
  <2>3. CASE \E cnt \in 1 .. MaxPages : sys_malloc(t, cnt)
    BY <1>0, <1>1, <2>3 DEF sys_malloc, TypeOK, Kinds, Labels
  <2>4. ASSUME NEW run \in owned[t], sys_free(t, run)
        PROVE  TypeOK'
    <3>1. run \in Pages \X (1 .. MaxPages) \X Kinds
      BY <1>0 DEF TypeOK
    <3>2. run[1] \in Pages /\ run[2] \in 1 .. MaxPages
      BY <3>1
    <3>. QED  BY <1>0, <1>1, <2>4, <3>2 DEF sys_free, TypeOK, Kinds, Labels
  <2>. QED  BY <1>2, <2>1, <2>2, <2>3, <2>4 DEF Begin
<1>3. CASE Lock(t)
  <2>1. \E l \in Labels : Goto(t, l)
    BY <1>3, Places DEF Lock, At, Labels, IInv, CallInv, KindOk, Kinds
  <2>. QED  BY <1>0, <1>3, <2>1 DEF Lock, Goto, TypeOK, shared, locals
<1>4. CASE Unlock(t)
  BY <1>0, <1>4 DEF Unlock, Goto, shared, locals, TypeOK, Labels
<1>5. CASE Addresses(t)
  <2>1. CASE FoundRun(t) \in {Halts, None}
    BY <1>0, <1>5, <2>1, ReturnType DEF Addresses, Panic, TypeOK, shared, locals
  <2>2. CASE FoundRun(t) \notin {Halts, None}
    <3>1. FoundRun(t) \in Pages
      BY <1>5, <2>2, RunFound DEF Addresses, At
    <3>. HIDE DEF FoundRun
    <3>2. [call[t] EXCEPT !.base = FoundRun(t)]
             \in [kind : Kinds, base : Pages, cnt : 0 .. MaxPages, done : 0 .. MaxPages]
      BY <1>0, <3>1 DEF TypeOK
    <3>. QED  BY <1>0, <1>5, <2>2, <3>2 DEF Addresses, Goto, TypeOK, Labels, shared, locals
  <2>. QED  BY <2>1, <2>2
<1>6. CASE Mark(t)
  BY <1>0, <1>6 DEF Mark, ReadByte, Goto, shared, TypeOK, Labels
<1>7. CASE MarkWrite(t)
  <2>1. Page(t) \in Pages /\ call[t].done < call[t].cnt /\ NextPage(t, "mark", "palloc") /\ WriteByte(t, AddressMap(t), Page(t), 1)
    BY <1>7, CallNumbers DEF MarkWrite, At, Inner, Paged, Marking
  <2>. QED  BY <1>0, <1>7, <2>1, WriteType, NextPageType DEF MarkWrite, TypeOK, Labels
<1>8. CASE palloc(t)
  <2>. DEFINE r == bitmap_scan(bits[Pool(t)], BytesOf(Pool(t)), 1)
  <2>1. CASE r = Halts
    BY <1>0, <1>8, <2>1 DEF palloc, Panic, TypeOK, shared, locals
  <2>2. CASE r # Halts
    <3>1. r \in Pages \cup Bits("user_pool")
      BY <1>0, <2>2, PoolScan, Lengths DEF Pools
    <3>. HIDE DEF r
    <3>. QED  BY <1>0, <1>8, <2>2, <3>1 DEF palloc, Goto, TypeOK, Labels, shared, r
  <2>. QED  BY <2>1, <2>2
<1>9. CASE TakeFrame(t)
  BY <1>0, <1>9 DEF TakeFrame, ReadByte, Goto, shared, TypeOK, Labels
<1>10. CASE TakeFrameWrite(t)
  <2>1. frame[t] \in Pages \cup Bits("user_pool") /\ WriteByte(t, Pool(t), frame[t], 1)
    BY <1>0, <1>10 DEF TakeFrameWrite, TypeOK
  <2>. QED  BY <1>0, <1>10, <2>1, WriteType DEF TakeFrameWrite, Goto, TypeOK, Labels
<1>11. CASE page_table_add(t)
  BY <1>0, <1>11 DEF page_table_add, Panic, Goto, shared, locals, TypeOK, Labels
<1>12. CASE Map(t)
  <2>1. /\ Page(t) \in Pages /\ call[t].done < call[t].cnt
        /\ call[t].cnt \in 1 .. MaxPages /\ call[t].kind \in Kinds /\ call[t].base \in Pages
    BY <1>12, CallNumbers DEF Map, At, Inner, Paged, Mapping
  <2>2. pt' \in [Spaces -> [Pages -> Frames \cup {NoFrame}]]
    <3>1. <<Pool(t), frame[t]>> \in Frames
      BY <1>0 DEF TypeOK, Frames
    <3>. QED  BY <1>0, <1>12, <2>1, <3>1 DEF Map, TypeOK
  <2>3. owned' \in [Threads -> SUBSET (Pages \X (1 .. MaxPages) \X Kinds)]
    <3>1. RunOf(t) \subseteq Pages \X (1 .. MaxPages) \X Kinds
      BY <2>1 DEF RunOf
    <3>. QED  BY <1>0, <1>12, <3>1 DEF Map, TypeOK
  <2>4. /\ pc' \in [Threads -> Labels]
        /\ call' \in [Threads -> [kind : Kinds, base : Pages, cnt : 0 .. MaxPages,
                                  done : 0 .. MaxPages]]
    <3>1. CASE call[t].done + 1 = call[t].cnt
      BY <1>0, <1>12, <3>1, ReturnType DEF Map
    <3>2. CASE call[t].done + 1 # call[t].cnt
      <4>. DEFINE d == call[t].done + 1
      <4>1. d \in 0 .. MaxPages
        BY <2>1, CallNumbers
      <4>2. Goto(t, "palloc") /\ call' = [call EXCEPT ![t].done = d]
        BY <1>12, <3>2 DEF Map
      <4>. HIDE DEF d
      <4>. QED  BY <1>0, <4>1, <4>2, GoOnType DEF Labels
    <3>. QED  BY <3>1, <3>2
  <2>. QED  BY <1>0, <1>12, <2>2, <2>3, <2>4 DEF Map, TypeOK
<1>13. CASE PallocTable(t)
  <2>. DEFINE r == bitmap_scan(bits["kernel_pool"], KBytes, 1)
  <2>1. CASE r = Halts
    BY <1>0, <1>13, <2>1 DEF PallocTable, Panic, TypeOK, shared, locals
  <2>2. CASE r # Halts
    <3>1. r \in Pages
      BY <1>0, <2>2, PoolScan, Lengths DEF Pools
    <3>. HIDE DEF r
    <3>. QED  BY <1>0, <1>13, <2>2, <3>1 DEF PallocTable, Goto, TypeOK, Labels, shared, r
  <2>. QED  BY <2>1, <2>2
<1>14. CASE t \in Procs /\ TakeTable(t)
  BY <1>0, <1>14 DEF TakeTable, ReadByte, Goto, shared, TypeOK, Labels
<1>15. CASE t \in Procs /\ TakeTableWrite(t)
  <2>1. table_frame[t] \in Pages \cup Bits("user_pool") /\ WriteByte(t, "kernel_pool", table_frame[t], 1)
    BY <1>0, <1>15 DEF TakeTableWrite, TypeOK
  <2>. QED  BY <1>0, <1>15, <2>1, WriteType DEF TakeTableWrite, Goto, TypeOK, Labels
<1>16. CASE t \in Procs /\ AddTable(t)
  <2>1. <<"kernel_pool", table_frame[t]>> \in Frames /\ TableOf(Page(t)) \in Tables
    BY <1>0, <1>16 DEF TypeOK, Frames, Pools, TableOf, Tables
  <2>. QED  BY <1>0, <1>16, <2>1 DEF AddTable, Goto, TypeOK, Labels
<1>17. CASE pfree(t)
  <2>. DEFINE f == pt[AddressMap(t)][Page(t)]
  <2>1. f[1] \in Maps /\ f[2] \in Pages \cup Bits("user_pool")
    BY <1>17, FreedFrame DEF pfree, At, Frames
  <2>. HIDE DEF f
  <2>. QED  BY <1>0, <1>17, <2>1 DEF pfree, ReadByte, Goto, TypeOK, Labels, shared, f
<1>18. CASE pfreeWrite(t)
  <2>. DEFINE f == pt[AddressMap(t)][Page(t)]
  <2>1. f[1] \in Maps /\ f[2] \in Pages \cup Bits("user_pool")
    BY <1>18, FreedFrame DEF pfreeWrite, At, Frames
  <2>. HIDE DEF f
  <2>2. WriteByte(t, f[1], f[2], 0)
    BY <1>18 DEF pfreeWrite, f
  <2>. QED  BY <1>0, <1>18, <2>1, <2>2, WriteType DEF pfreeWrite, Goto, TypeOK, Labels
<1>19. CASE page_table_pte_remove(t)
  <2>1. Page(t) \in Pages /\ call[t].done < call[t].cnt /\ NextPage(t, "pfree", "vaddr_remove")
    BY <1>19, CallNumbers DEF page_table_pte_remove, At, Inner, Paged, Freeing
  <2>. QED  BY <1>0, <1>19, <2>1, NextPageType DEF page_table_pte_remove, TypeOK, Labels, locals
<1>20. CASE vaddr_remove(t)
  BY <1>0, <1>20 DEF vaddr_remove, ReadByte, Goto, shared, TypeOK, Labels
<1>21. CASE VaddrWrite(t)
  <2>1. Page(t) \in Pages /\ WriteByte(t, AddressMap(t), Page(t), 0)
    BY <1>21, CallNumbers DEF VaddrWrite, At, Paged, Freeing
  <2>2. /\ pc' \in [Threads -> Labels]
        /\ call' \in [Threads -> [kind : Kinds, base : Pages, cnt : 0 .. MaxPages,
                                  done : 0 .. MaxPages]]
    <3>1. CASE call[t].done + 1 < call[t].cnt
      <4>. DEFINE d == call[t].done + 1
      <4>1. d \in 0 .. MaxPages
        BY <1>21, CallNumbers DEF VaddrWrite, At, Inner, Paged, Freeing
      <4>2. Goto(t, "vaddr_remove") /\ call' = [call EXCEPT ![t].done = d]
        BY <1>21, <3>1 DEF VaddrWrite
      <4>. HIDE DEF d
      <4>. QED  BY <1>0, <4>1, <4>2, GoOnType DEF Labels
    <3>2. CASE ~(call[t].done + 1 < call[t].cnt)
      BY <1>0, <1>21, <3>2, ReturnType DEF VaddrWrite
    <3>. QED  BY <3>1, <3>2
  <2>. QED  BY <1>0, <1>21, <2>1, <2>2, WriteType DEF VaddrWrite, TypeOK
<1>. QED  BY <1>2, <1>3, <1>4, <1>5, <1>6, <1>7, <1>8, <1>9, <1>10, <1>11, <1>12, <1>13, <1>14, <1>15, <1>16, <1>17, <1>18, <1>19, <1>20, <1>21
          DEF ThreadStep, malloc_page, mfree_page, PallocTable

-----------------------------------------------------------------------------
(* Calls and locks. *)

\* A call keeps its kind while it moves on, with a page still in hand.
LEMMA MovedOn ==
    ASSUME IInv, NEW t \in Threads, NEW label, pc'[t] = label,
           \/ pc[t] \in Marking \cup Mapping /\ label \in Marking \cup Mapping
           \/ pc[t] \in Freeing /\ label \in Freeing,
           label \in Tabling => t \in Procs,
           call'[t].kind = call[t].kind, call'[t].cnt = call[t].cnt,
           call'[t].base = call[t].base, call'[t].done < call[t].cnt
    PROVE  KindOk(t)' /\ CallOk(t)' /\ (Locked(t)' <=> Locked(t))
<1>1. KindOk(t) /\ CallOk(t)
  BY DEF IInv, CallInv
<1>2. /\ label \in Paged /\ pc[t] \in Paged /\ label \in Inner /\ pc[t] \in Inner
      /\ label # "start" /\ label # "unlock" /\ pc[t] # "unlock"
  BY DEF Inner, Paged, Marking, Mapping, Tabling, Freeing
<1>3. KindsAt(label) = KindsAt(pc[t])
  BY Places
<1>4. KindOk(t)'
  BY <1>1, <1>2, <1>3 DEF KindOk
<1>5. CallOk(t)'
  BY <1>1, <1>2 DEF CallOk
<1>6. Locked(t)' <=> Locked(t)
  BY <1>2 DEF Locked
<1>. QED  BY <1>4, <1>5, <1>6

\* A call that ends keeps no place, and the lock only to release it.
LEMMA Returned ==
    ASSUME IInv, NEW t \in Threads, pc[t] \in Inner, Return(t)
    PROVE  KindOk(t)' /\ CallOk(t)' /\ (Locked(t)' <=> Locked(t))
<1>1. TypeOK
  BY DEF IInv
<1>2. /\ call'[t].kind = "get_kernel_pages" /\ call'[t].done = 0
      /\ pc'[t] = IF call[t].kind = "get_kernel_pages" THEN "out" ELSE "unlock"
  BY <1>1, ReturnType DEF NoCall
<1>3. KindOk(t)' /\ CallOk(t)'
  BY <1>2, Places DEF KindOk, CallOk, Inner, Paged, Marking, Mapping, Tabling, Freeing
<1>4. Locked(t)' <=> Locked(t)
  BY <1>2 DEF Locked, Inner, Paged, Marking, Mapping, Tabling, Freeing
<1>. QED  BY <1>3, <1>4

\* A call begins with all its pages ahead of it.
LEMMA Begun ==
    ASSUME IInv, NEW t \in Threads, NEW kind \in Kinds, NEW base, NEW cnt \in 1 .. MaxPages,
           NEW label \in {"lock", "addresses"}, pc[t] \in {"start", "out"},
           Call(t, kind, base, cnt, label),
           kind = "get_a_page" => t \in Procs /\ cnt = 1,
           kind = "get_kernel_pages" => t \in KThreads,
           label = "addresses" <=> kind = "get_kernel_pages"
    PROVE  /\ KindOk(t)' /\ CallOk(t)' /\ ~Locked(t)' /\ ~Locked(t)
           /\ holder' = holder
<1>1. /\ pc'[t] = label /\ holder' = holder
      /\ call'[t] = [kind |-> kind, base |-> base, cnt |-> cnt, done |-> 0]
  BY DEF Call, Goto, IInv, TypeOK
<1>2. 0 < cnt /\ ~(t \in Procs /\ kind = "get_kernel_pages")
  BY Constants
<1>. QED  BY <1>1, <1>2, Places DEF KindOk, CallOk, Locked, Inner, Paged, Marking, Mapping,
             Tabling, Freeing

\* Who holds the locks is who is where they are held.
LEMMA LockKept ==
    ASSUME IInv, NEW t \in Threads, ThreadStep(t), holder' = holder, Locked(t)' <=> Locked(t)
    PROVE  LockInv'
<1>1. \A u \in Threads : Locked(u)' <=> Locked(u)
  BY Others DEF Locked, IInv
<1>. QED  BY <1>1 DEF LockInv, IInv

LEMMA ControlStep ==
    ASSUME IInv, NEW t \in Threads, ThreadStep(t)
    PROVE  CallInv' /\ LockInv'
<1>0. TypeOK /\ CallInv /\ LockInv /\ KindOk(t) /\ CallOk(t)
  BY DEF IInv, CallInv
<1>a. \A u \in Threads \ {t} : KindOk(u)' /\ CallOk(u)'
  BY <1>0, Others DEF CallInv, KindOk, CallOk
<1>b. ASSUME KindOk(t)', CallOk(t)', holder' = holder, Locked(t)' <=> Locked(t)
      PROVE  CallInv' /\ LockInv'
  BY <1>a, <1>b, LockKept DEF CallInv
<1>c. pc[t] \in Labels
  BY <1>0 DEF TypeOK
<1>1. CASE Begin(t)
  <2>1. CASE get_a_page(t)
    <3>1. pc[t] = "start" /\ 1 \in 1 .. MaxPages /\ t \in Procs
      BY <1>0, <2>1, Constants DEF get_a_page, At, KindOk
    <3>. QED  BY <1>b, <2>1, <3>1, Begun DEF get_a_page, Kinds
  <2>2. CASE \E cnt \in 1 .. MaxPages : get_kernel_pages(t, cnt)
    BY <1>b, <2>2, Begun DEF get_kernel_pages, At, Kinds
  <2>3. CASE \E cnt \in 1 .. MaxPages : sys_malloc(t, cnt)
    BY <1>b, <2>3, Begun DEF sys_malloc, At, Kinds
  <2>4. ASSUME NEW run \in owned[t], sys_free(t, run)
        PROVE  CallInv' /\ LockInv'
    <3>1. run[2] \in 1 .. MaxPages
      BY <1>0 DEF TypeOK
    <3>. QED  BY <1>b, <2>4, <3>1, Begun DEF sys_free, At, Kinds
  <2>. QED  BY <1>1, <2>1, <2>2, <2>3, <2>4 DEF Begin
<1>2. CASE Lock(t)
  <2>1. /\ pc[t] = "lock" /\ holder[Pool(t)] = None /\ call' = call
        /\ holder' = [holder EXCEPT ![Pool(t)] = t]
        /\ call[t].kind \in {"sys_malloc", "get_a_page", "sys_free"}
    BY <1>0, <1>2, Places DEF Lock, At, KindOk, Kinds
  <2>2. /\ call[t].kind = "sys_malloc" => pc'[t] = "addresses"
        /\ call[t].kind = "get_a_page" => pc'[t] = "mark"
        /\ call[t].kind = "sys_free" => pc'[t] = "pfree"
    BY <1>0, <1>2 DEF Lock, Goto, TypeOK
  <2>3. KindOk(t)'
    BY <1>0, <2>1, <2>2, Places DEF KindOk, Kinds, Inner, Paged, Marking, Mapping, Tabling, Freeing
  <2>4. CallOk(t)'
    <3>1. call[t].done = 0 /\ call[t].done < call[t].cnt /\ call[t].cnt \in Nat
          /\ call[t].base \in Nat /\ call[t].base \in Pages
      BY <1>0, <2>1, CallNumbers DEF CallOk, Inner, Paged, Marking, Mapping, Tabling, Freeing
    <3>2. call[t].kind = "get_a_page" => call[t].base + call[t].cnt - 1 \in Pages
      BY <1>0, <3>1 DEF KindOk
    <3>3. call[t].kind = "sys_free" => call[t].base + call[t].cnt - 1 \in Pages
      <4>1. call[t].kind = "sys_free" => call[t].base + call[t].cnt - 1 \in Work(t)
        BY <2>1, <3>1 DEF Work, Page, Mapping, Tabling
      <4>. QED  BY <4>1 DEF IInv, RunInv
    <3>. QED  BY <2>1, <2>2, <3>1, <3>2, <3>3 DEF CallOk, Inner, Paged, Marking, Mapping, Tabling, Freeing
  <2>5. LockInv'
    <3>1. /\ Locked(t)' /\ ~Locked(t) /\ Pool(t) \in Pools
          /\ \A u \in Threads \ {t} : Locked(u)' <=> Locked(u)
      BY <1>0, <2>1, <2>2, Others, Owners DEF Locked, Inner, Paged, Marking, Mapping, Tabling, Freeing
    <3>2. \A u \in Threads \ {t} : Pool(u) = Pool(t) => ~Locked(u)
      BY <1>0, <2>1, <3>1, Constants DEF LockInv
    <3>. QED  BY <1>0, <2>1, <3>1, <3>2, Constants DEF LockInv, TypeOK
  <2>. QED  BY <1>a, <2>3, <2>4, <2>5 DEF CallInv
<1>3. CASE Unlock(t)
  <2>1. /\ pc[t] = "unlock" /\ call' = call /\ pc'[t] = "out"
        /\ holder' = [holder EXCEPT ![Pool(t)] = None]
    BY <1>0, <1>3 DEF Unlock, At, Goto, TypeOK
  <2>2. KindOk(t)' /\ CallOk(t)'
    BY <1>0, <2>1, Places DEF KindOk, CallOk, Inner, Paged, Marking, Mapping, Tabling, Freeing
  <2>3. LockInv'
    <3>1. /\ Locked(t) /\ ~Locked(t)' /\ Pool(t) \in Pools
          /\ \A u \in Threads \ {t} : Locked(u)' <=> Locked(u)
      BY <1>0, <2>1, Others, Owners DEF Locked, Inner, Paged, Marking, Mapping, Tabling, Freeing
    <3>2. holder[Pool(t)] = t
      BY <1>0, <3>1 DEF LockInv
    <3>3. \A u \in Threads \ {t} : Pool(u) = Pool(t) => ~Locked(u)
      BY <1>0, <3>1, <3>2 DEF LockInv
    <3>. QED  BY <1>0, <2>1, <3>1, <3>2, <3>3, Constants DEF LockInv, TypeOK
  <2>. QED  BY <1>a, <2>2, <2>3 DEF CallInv
<1>4. CASE Addresses(t)
  <2>1. pc[t] = "addresses" /\ holder' = holder
    BY <1>4 DEF Addresses, At, Panic
  <2>2. CASE FoundRun(t) = Halts
    <3>1. pc' = pc /\ call' = call
      BY <1>4, <2>2 DEF Addresses, Panic
    <3>. QED  BY <1>0, <1>b, <2>1, <3>1 DEF KindOk, CallOk, Locked
  <2>3. CASE FoundRun(t) = None
    <3>1. Return(t)
      BY <1>4, <2>3 DEF Addresses, None, Halts
    <3>. QED  BY <1>b, <2>1, <3>1, Returned DEF Inner
  <2>4. CASE FoundRun(t) \notin {Halts, None}
    <3>1. /\ pc'[t] = "mark" /\ call'[t].base = FoundRun(t) /\ call'[t].kind = call[t].kind
          /\ call'[t].cnt = call[t].cnt /\ call'[t].done = call[t].done
      <4>. HIDE DEF FoundRun
      <4>. QED  BY <1>0, <1>4, <2>4 DEF Addresses, Goto, TypeOK
    <3>2. FoundRun(t) + call[t].cnt - 1 \in Pages /\ call[t].done < call[t].cnt
      BY <2>1, <2>4, RunFound, CallNumbers DEF Inner
    <3>. HIDE DEF FoundRun
    <3>3. KindOk(t)'
      <4>1. call[t].kind \in KindsAt("mark") /\ call[t].kind # "get_a_page"
        BY <1>0, <2>1, Places DEF KindOk, Kinds, Marking
      <4>. QED  BY <1>0, <2>1, <3>1, <4>1 DEF KindOk, Inner, Tabling
    <3>4. CallOk(t)'
      BY <3>1, <3>2 DEF CallOk, Inner, Paged, Marking, Mapping, Tabling, Freeing
    <3>5. Locked(t)' <=> Locked(t)
      BY <2>1, <3>1 DEF Locked, Inner, Paged, Marking, Mapping, Tabling, Freeing
    <3>. QED  BY <1>b, <2>1, <3>3, <3>4, <3>5
  <2>. QED  BY <2>2, <2>3, <2>4
<1>5. CASE Mark(t)
  <2>1. /\ pc[t] = "mark" /\ holder' = holder
        /\ call[t].done < call[t].cnt /\ call[t].base + call[t].cnt - 1 \in Pages
    BY <1>0, <1>5, CallNumbers DEF Mark, At, Panic, ReadByte, CallOk, Inner, Paged, Marking, Mapping, Tabling, Freeing
  <2>2. pc'[t] = "mark_write" /\ call' = call
    BY <1>0, <1>5 DEF Mark, ReadByte, Goto, TypeOK
  <2>. QED  BY <1>b, <1>5, <2>1, <2>2, MovedOn DEF Marking, Mapping, Tabling, Freeing
<1>6. CASE MarkWrite(t)
  <2>1. /\ pc[t] = "mark_write" /\ holder' = holder /\ NextPage(t, "mark", "palloc")
        /\ call[t].done < call[t].cnt /\ call[t].base + call[t].cnt - 1 \in Pages
        /\ call[t].done \in Nat /\ call[t].cnt \in Nat
    BY <1>0, <1>6, CallNumbers DEF MarkWrite, At, CallOk, Inner, Paged, Marking, Mapping, Tabling, Freeing
  <2>2. /\ pc'[t] \in {"mark", "palloc"} /\ call'[t].kind = call[t].kind
        /\ call'[t].base = call[t].base /\ call'[t].cnt = call[t].cnt
        /\ call'[t].done < call[t].cnt
    <3>1. 0 < call[t].cnt /\ "mark" \in Labels /\ "palloc" \in Labels
      BY <2>1 DEF Labels
    <3>. QED  BY <2>1, <3>1, NextPageType
  <2>. QED  BY <1>b, <2>1, <2>2, MovedOn DEF Marking, Mapping, Tabling, Freeing
<1>7. CASE palloc(t)
  <2>1. /\ pc[t] = "palloc" /\ holder' = holder
        /\ call[t].done < call[t].cnt /\ call[t].base + call[t].cnt - 1 \in Pages
    BY <1>0, <1>7, CallNumbers DEF palloc, At, Panic, ReadByte, CallOk, Inner, Paged, Marking, Mapping, Tabling, Freeing
  <2>2. CASE bitmap_scan(bits[Pool(t)], BytesOf(Pool(t)), 1) = Halts
    <3>1. pc' = pc /\ call' = call
      BY <1>7, <2>2 DEF palloc, Panic
    <3>. QED  BY <1>0, <1>b, <2>1, <3>1 DEF KindOk, CallOk, Locked
  <2>3. CASE ~(bitmap_scan(bits[Pool(t)], BytesOf(Pool(t)), 1) = Halts)
    <3>1. pc'[t] = "take" /\ call' = call
      BY <1>0, <1>7, <2>3 DEF palloc, Goto, TypeOK
    <3>. QED  BY <1>b, <1>7, <2>1, <3>1, MovedOn DEF Marking, Mapping, Tabling, Freeing
  <2>. QED  BY <2>2, <2>3
<1>8. CASE TakeFrame(t)
  <2>1. /\ pc[t] = "take" /\ holder' = holder
        /\ call[t].done < call[t].cnt /\ call[t].base + call[t].cnt - 1 \in Pages
    BY <1>0, <1>8, CallNumbers DEF TakeFrame, At, Panic, ReadByte, CallOk, Inner, Paged, Marking, Mapping, Tabling, Freeing
  <2>2. pc'[t] = "take_write" /\ call' = call
    BY <1>0, <1>8 DEF TakeFrame, ReadByte, Goto, TypeOK
  <2>. QED  BY <1>b, <1>8, <2>1, <2>2, MovedOn DEF Marking, Mapping, Tabling, Freeing
<1>9. CASE TakeFrameWrite(t)
  <2>1. /\ pc[t] = "take_write" /\ holder' = holder
        /\ call[t].done < call[t].cnt /\ call[t].base + call[t].cnt - 1 \in Pages
    BY <1>0, <1>9, CallNumbers DEF TakeFrameWrite, At, Panic, ReadByte, CallOk, Inner, Paged, Marking, Mapping, Tabling, Freeing
  <2>2. pc'[t] = "page_table_add" /\ call' = call
    BY <1>0, <1>9 DEF TakeFrameWrite, ReadByte, Goto, TypeOK
  <2>. QED  BY <1>b, <1>9, <2>1, <2>2, MovedOn DEF Marking, Mapping, Tabling, Freeing
<1>10. CASE page_table_add(t)
  <2>1. /\ pc[t] = "page_table_add" /\ holder' = holder
        /\ call[t].done < call[t].cnt /\ call[t].base + call[t].cnt - 1 \in Pages
    BY <1>0, <1>10, CallNumbers DEF page_table_add, At, Panic, ReadByte, CallOk, Inner, Paged, Marking, Mapping, Tabling, Freeing
  <2>2. CASE pt[AddressMap(t)][Page(t)] # NoFrame
    <3>1. pc' = pc /\ call' = call
      BY <1>10, <2>2 DEF page_table_add, Panic
    <3>. QED  BY <1>0, <1>b, <2>1, <3>1 DEF KindOk, CallOk, Locked
  <2>3. CASE ~(pt[AddressMap(t)][Page(t)] # NoFrame)
    <3>1. pc'[t] = "map" /\ call' = call
      BY <1>0, <1>10, <2>3 DEF page_table_add, Goto, TypeOK
    <3>. QED  BY <1>b, <1>10, <2>1, <3>1, MovedOn DEF Marking, Mapping, Tabling, Freeing
  <2>. QED  BY <2>2, <2>3
<1>11. CASE Map(t)
  <2>1. /\ pc[t] = "map" /\ holder' = holder
        /\ call[t].done < call[t].cnt /\ call[t].base + call[t].cnt - 1 \in Pages
        /\ call[t].done \in Nat /\ call[t].cnt \in Nat /\ call[t].done + 1 \in 0 .. MaxPages
    BY <1>0, <1>11, CallNumbers DEF Map, At, CallOk, Inner, Paged, Marking, Mapping, Tabling, Freeing
  <2>2. CASE call[t].done + 1 = call[t].cnt
    BY <1>b, <1>11, <2>1, <2>2, Returned DEF Map, Inner, Paged, Marking, Mapping, Tabling, Freeing
  <2>3. CASE call[t].done + 1 # call[t].cnt
    <3>. DEFINE d == call[t].done + 1
    <3>1. Goto(t, "palloc") /\ call' = [call EXCEPT ![t].done = d]
      BY <1>11, <2>3 DEF Map
    <3>2. d < call[t].cnt /\ d \in 0 .. MaxPages
      BY <2>1, <2>3
    <3>. HIDE DEF d
    <3>3. /\ pc'[t] = "palloc" /\ call'[t].kind = call[t].kind /\ call'[t].base = call[t].base
          /\ call'[t].cnt = call[t].cnt /\ call'[t].done = d
      BY <1>0, <3>1, <3>2, GoOnType DEF Labels
    <3>. QED  BY <1>b, <2>1, <3>2, <3>3, MovedOn DEF Marking, Mapping, Tabling, Freeing
  <2>. QED  BY <2>2, <2>3
<1>12. CASE t \in Procs /\ PallocTable(t)
  <2>1. /\ pc[t] = "page_table_add" /\ holder' = holder
        /\ call[t].done < call[t].cnt /\ call[t].base + call[t].cnt - 1 \in Pages
    BY <1>0, <1>12, CallNumbers DEF PallocTable, At, Panic, ReadByte, CallOk, Inner, Paged, Marking, Mapping, Tabling, Freeing
  <2>2. CASE bitmap_scan(bits["kernel_pool"], KBytes, 1) = Halts
    <3>1. pc' = pc /\ call' = call
      BY <1>12, <2>2 DEF PallocTable, Panic
    <3>. QED  BY <1>0, <1>b, <2>1, <3>1 DEF KindOk, CallOk, Locked
  <2>3. CASE ~(bitmap_scan(bits["kernel_pool"], KBytes, 1) = Halts)
    <3>1. pc'[t] = "take_table" /\ call' = call
      BY <1>0, <1>12, <2>3 DEF PallocTable, Goto, TypeOK
    <3>. QED  BY <1>b, <1>12, <2>1, <3>1, MovedOn DEF Marking, Mapping, Tabling, Freeing
  <2>. QED  BY <2>2, <2>3
<1>13. CASE t \in Procs /\ TakeTable(t)
  <2>1. /\ pc[t] = "take_table" /\ holder' = holder
        /\ call[t].done < call[t].cnt /\ call[t].base + call[t].cnt - 1 \in Pages
    BY <1>0, <1>13, CallNumbers DEF TakeTable, At, Panic, ReadByte, CallOk, Inner, Paged, Marking, Mapping, Tabling, Freeing
  <2>2. pc'[t] = "take_table_write" /\ call' = call
    BY <1>0, <1>13 DEF TakeTable, ReadByte, Goto, TypeOK
  <2>. QED  BY <1>b, <1>13, <2>1, <2>2, MovedOn DEF Marking, Mapping, Tabling, Freeing
<1>14. CASE t \in Procs /\ TakeTableWrite(t)
  <2>1. /\ pc[t] = "take_table_write" /\ holder' = holder
        /\ call[t].done < call[t].cnt /\ call[t].base + call[t].cnt - 1 \in Pages
    BY <1>0, <1>14, CallNumbers DEF TakeTableWrite, At, Panic, ReadByte, CallOk, Inner, Paged, Marking, Mapping, Tabling, Freeing
  <2>2. pc'[t] = "add_table" /\ call' = call
    BY <1>0, <1>14 DEF TakeTableWrite, ReadByte, Goto, TypeOK
  <2>. QED  BY <1>b, <1>14, <2>1, <2>2, MovedOn DEF Marking, Mapping, Tabling, Freeing
<1>15. CASE t \in Procs /\ AddTable(t)
  <2>1. /\ pc[t] = "add_table" /\ holder' = holder
        /\ call[t].done < call[t].cnt /\ call[t].base + call[t].cnt - 1 \in Pages
    BY <1>0, <1>15, CallNumbers DEF AddTable, At, Panic, ReadByte, CallOk, Inner, Paged, Marking, Mapping, Tabling, Freeing
  <2>2. pc'[t] = "page_table_add" /\ call' = call
    BY <1>0, <1>15 DEF AddTable, ReadByte, Goto, TypeOK
  <2>. QED  BY <1>b, <1>15, <2>1, <2>2, MovedOn DEF Marking, Mapping, Tabling, Freeing
<1>16. CASE pfree(t)
  <2>1. /\ pc[t] = "pfree" /\ holder' = holder
        /\ call[t].done < call[t].cnt /\ call[t].base + call[t].cnt - 1 \in Pages
    BY <1>0, <1>16, CallNumbers DEF pfree, At, Panic, ReadByte, CallOk, Inner, Paged, Marking, Mapping, Tabling, Freeing
  <2>2. pc'[t] = "pfree_write" /\ call' = call
    BY <1>0, <1>16 DEF pfree, ReadByte, Goto, TypeOK
  <2>. QED  BY <1>b, <1>16, <2>1, <2>2, MovedOn DEF Marking, Mapping, Tabling, Freeing
<1>17. CASE pfreeWrite(t)
  <2>1. /\ pc[t] = "pfree_write" /\ holder' = holder
        /\ call[t].done < call[t].cnt /\ call[t].base + call[t].cnt - 1 \in Pages
    BY <1>0, <1>17, CallNumbers DEF pfreeWrite, At, Panic, ReadByte, CallOk, Inner, Paged, Marking, Mapping, Tabling, Freeing
  <2>2. pc'[t] = "pte_remove" /\ call' = call
    BY <1>0, <1>17 DEF pfreeWrite, ReadByte, Goto, TypeOK
  <2>. QED  BY <1>b, <1>17, <2>1, <2>2, MovedOn DEF Marking, Mapping, Tabling, Freeing
<1>18. CASE page_table_pte_remove(t)
  <2>1. /\ pc[t] = "pte_remove" /\ holder' = holder /\ NextPage(t, "pfree", "vaddr_remove")
        /\ call[t].done < call[t].cnt /\ call[t].base + call[t].cnt - 1 \in Pages
        /\ call[t].done \in Nat /\ call[t].cnt \in Nat
    BY <1>0, <1>18, CallNumbers DEF page_table_pte_remove, At, CallOk, Inner, Paged, Marking, Mapping, Tabling, Freeing
  <2>2. /\ pc'[t] \in {"pfree", "vaddr_remove"} /\ call'[t].kind = call[t].kind
        /\ call'[t].base = call[t].base /\ call'[t].cnt = call[t].cnt
        /\ call'[t].done < call[t].cnt
    <3>1. 0 < call[t].cnt /\ "pfree" \in Labels /\ "vaddr_remove" \in Labels
      BY <2>1 DEF Labels
    <3>. QED  BY <2>1, <3>1, NextPageType
  <2>. QED  BY <1>b, <2>1, <2>2, MovedOn DEF Marking, Mapping, Tabling, Freeing
<1>19. CASE vaddr_remove(t)
  <2>1. /\ pc[t] = "vaddr_remove" /\ holder' = holder
        /\ call[t].done < call[t].cnt /\ call[t].base + call[t].cnt - 1 \in Pages
    BY <1>0, <1>19, CallNumbers DEF vaddr_remove, At, Panic, ReadByte, CallOk, Inner, Paged, Marking, Mapping, Tabling, Freeing
  <2>2. pc'[t] = "vaddr_write" /\ call' = call
    BY <1>0, <1>19 DEF vaddr_remove, ReadByte, Goto, TypeOK
  <2>. QED  BY <1>b, <1>19, <2>1, <2>2, MovedOn DEF Marking, Mapping, Tabling, Freeing
<1>20. CASE VaddrWrite(t)
  <2>1. /\ pc[t] = "vaddr_write" /\ holder' = holder
        /\ call[t].done < call[t].cnt /\ call[t].base + call[t].cnt - 1 \in Pages
        /\ call[t].done \in Nat /\ call[t].cnt \in Nat /\ call[t].done + 1 \in 0 .. MaxPages
    BY <1>0, <1>20, CallNumbers DEF VaddrWrite, At, CallOk, Inner, Paged, Marking, Mapping, Tabling, Freeing
  <2>2. CASE ~(call[t].done + 1 < call[t].cnt)
    BY <1>b, <1>20, <2>1, <2>2, Returned DEF VaddrWrite, Inner, Paged, Marking, Mapping, Tabling, Freeing
  <2>3. CASE call[t].done + 1 < call[t].cnt
    <3>. DEFINE d == call[t].done + 1
    <3>1. Goto(t, "vaddr_remove") /\ call' = [call EXCEPT ![t].done = d]
      BY <1>20, <2>3 DEF VaddrWrite
    <3>2. d < call[t].cnt /\ d \in 0 .. MaxPages
      BY <2>1, <2>3
    <3>. HIDE DEF d
    <3>3. /\ pc'[t] = "vaddr_remove" /\ call'[t].kind = call[t].kind
          /\ call'[t].base = call[t].base /\ call'[t].cnt = call[t].cnt /\ call'[t].done = d
      BY <1>0, <3>1, <3>2, GoOnType DEF Labels
    <3>. QED  BY <1>b, <2>1, <3>2, <3>3, MovedOn DEF Marking, Mapping, Tabling, Freeing
  <2>. QED  BY <2>2, <2>3
<1>. QED  BY <1>1, <1>2, <1>3, <1>4, <1>5, <1>6, <1>7, <1>8, <1>9, <1>10, <1>11, <1>12, <1>13, <1>14, <1>15, <1>16, <1>17, <1>18, <1>19, <1>20
          DEF ThreadStep, malloc_page, mfree_page

-----------------------------------------------------------------------------
(* What a step does to the maps and the pages. *)

\* Outside a call it changes none of them, and inside only its own: the entry
\* of the page in hand, the maps of its owner and, for a page table, the
\* kernel's pool.
LEMMA SharedStep ==
    ASSUME IInv, NEW t \in Threads, ThreadStep(t)
    PROVE  /\ \A m \in Maps : m \notin {AddressMap(t), Pool(t), "kernel_pool"} => bits'[m] = bits[m]
           /\ pc[t] \notin Inner => bits' = bits /\ pt' = pt
           /\ \A s \in Spaces, v \in Pages :
                 \/ pt'[s][v] = pt[s][v]
                 \/ /\ s = AddressMap(t) /\ v = Page(t)
                    /\ \/ pc[t] = "pte_remove" /\ pt'[s][v] = NoFrame
                       \/ pc[t] = "map" /\ pt'[s][v] = <<Pool(t), frame[t]>>
           /\ \A p \in Procs, g \in Tables :
                 table'[p][g] = table[p][g] \/ table'[p][g][1] = "kernel_pool"
<1>0. TypeOK
  BY DEF IInv
<1>1. CASE Begin(t) \/ Lock(t) \/ Unlock(t)
  BY <1>1 DEF Begin, get_a_page, get_kernel_pages, sys_malloc, sys_free, Call, Lock, Unlock, shared
<1>2. CASE Addresses(t)
  <2>1. pc[t] = "addresses" /\ bits' = bits /\ pt' = pt /\ table' = table
    BY <1>2 DEF Addresses, At, Panic, Return, shared
  <2>. QED  BY <2>1 DEF Inner, Paged, Marking, Mapping, Tabling, Freeing
<1>3. CASE Mark(t)
  <2>1. pc[t] = "mark" /\ bits' = bits /\ pt' = pt /\ table' = table
    BY <1>3 DEF Mark, At, ReadByte, Goto, shared
  <2>. QED  BY <2>1 DEF Inner, Paged, Marking, Mapping, Tabling, Freeing
<1>4. CASE MarkWrite(t)
  <2>1. pc[t] = "mark_write" /\ pt' = pt /\ table' = table
    BY <1>4 DEF MarkWrite, At
  <2>. QED  BY <1>0, <1>4, <2>1 DEF MarkWrite, WriteByte, TypeOK, Inner, Paged, Marking, Mapping, Tabling, Freeing
<1>5. CASE palloc(t)
  <2>1. pc[t] = "palloc" /\ bits' = bits /\ pt' = pt /\ table' = table
    BY <1>5 DEF palloc, At, Panic, shared
  <2>. QED  BY <2>1 DEF Inner, Paged, Marking, Mapping, Tabling, Freeing
<1>6. CASE TakeFrame(t)
  <2>1. pc[t] = "take" /\ bits' = bits /\ pt' = pt /\ table' = table
    BY <1>6 DEF TakeFrame, At, ReadByte, Goto, shared
  <2>. QED  BY <2>1 DEF Inner, Paged, Marking, Mapping, Tabling, Freeing
<1>7. CASE TakeFrameWrite(t)
  <2>1. pc[t] = "take_write" /\ pt' = pt /\ table' = table
    BY <1>7 DEF TakeFrameWrite, At
  <2>. QED  BY <1>0, <1>7, <2>1 DEF TakeFrameWrite, WriteByte, TypeOK, Inner, Paged, Marking, Mapping, Tabling, Freeing
<1>8. CASE page_table_add(t)
  <2>1. pc[t] = "page_table_add" /\ bits' = bits /\ pt' = pt /\ table' = table
    BY <1>8 DEF page_table_add, At, Panic, shared
  <2>. QED  BY <2>1 DEF Inner, Paged, Marking, Mapping, Tabling, Freeing
<1>9. CASE Map(t)
  <2>1. pc[t] = "map" /\ bits' = bits
    BY <1>9 DEF Map, At
  <2>. QED  BY <1>0, <1>9, <2>1, Owners DEF Map, TypeOK, Inner, Paged, Marking, Mapping, Tabling, Freeing
<1>10. CASE t \in Procs /\ PallocTable(t)
  <2>1. pc[t] = "page_table_add" /\ bits' = bits /\ pt' = pt /\ table' = table
    BY <1>10 DEF PallocTable, At, Panic, shared
  <2>. QED  BY <2>1 DEF Inner, Paged, Marking, Mapping, Tabling, Freeing
<1>11. CASE t \in Procs /\ TakeTable(t)
  <2>1. pc[t] = "take_table" /\ bits' = bits /\ pt' = pt /\ table' = table
    BY <1>11 DEF TakeTable, At, ReadByte, Goto, shared
  <2>. QED  BY <2>1 DEF Inner, Paged, Marking, Mapping, Tabling, Freeing
<1>12. CASE t \in Procs /\ TakeTableWrite(t)
  <2>1. pc[t] = "take_table_write" /\ pt' = pt /\ table' = table
    BY <1>12 DEF TakeTableWrite, At
  <2>. QED  BY <1>0, <1>12, <2>1 DEF TakeTableWrite, WriteByte, TypeOK, Inner, Paged, Marking, Mapping, Tabling, Freeing
<1>13. CASE t \in Procs /\ AddTable(t)
  <2>1. pc[t] = "add_table" /\ bits' = bits
    BY <1>13 DEF AddTable, At
  <2>. QED  BY <1>0, <1>13, <2>1, Owners DEF AddTable, TypeOK, Inner, Paged, Marking, Mapping, Tabling, Freeing
<1>14. CASE pfree(t)
  <2>1. pc[t] = "pfree" /\ bits' = bits /\ pt' = pt /\ table' = table
    BY <1>14 DEF pfree, At, ReadByte, Goto, shared
  <2>. QED  BY <2>1 DEF Inner, Paged, Marking, Mapping, Tabling, Freeing
<1>15. CASE pfreeWrite(t)
  <2>1. /\ pc[t] = "pfree_write" /\ pt' = pt /\ table' = table
        /\ pt[AddressMap(t)][Page(t)][1] = Pool(t)
    BY <1>15, FreedFrame DEF pfreeWrite, At
  <2>. QED  BY <1>0, <1>15, <2>1 DEF pfreeWrite, WriteByte, TypeOK, Inner, Paged, Marking, Mapping, Tabling, Freeing
<1>16. CASE page_table_pte_remove(t)
  <2>1. pc[t] = "pte_remove" /\ bits' = bits
    BY <1>16 DEF page_table_pte_remove, At
  <2>. QED  BY <1>0, <1>16, <2>1, Owners DEF page_table_pte_remove, TypeOK, Inner, Paged, Marking, Mapping, Tabling, Freeing
<1>17. CASE vaddr_remove(t)
  <2>1. pc[t] = "vaddr_remove" /\ bits' = bits /\ pt' = pt /\ table' = table
    BY <1>17 DEF vaddr_remove, At, ReadByte, Goto, shared
  <2>. QED  BY <2>1 DEF Inner, Paged, Marking, Mapping, Tabling, Freeing
<1>18. CASE VaddrWrite(t)
  <2>1. pc[t] = "vaddr_write" /\ pt' = pt /\ table' = table
    BY <1>18 DEF VaddrWrite, At
  <2>. QED  BY <1>0, <1>18, <2>1 DEF VaddrWrite, WriteByte, TypeOK, Inner, Paged, Marking, Mapping, Tabling, Freeing
<1>. QED  BY <1>1, <1>2, <1>3, <1>4, <1>5, <1>6, <1>7, <1>8, <1>9, <1>10, <1>11, <1>12, <1>13, <1>14, <1>15, <1>16, <1>17, <1>18
          DEF ThreadStep, malloc_page, mfree_page

\* A process's own step sets the one bit it means to set, and clears none.
LEMMA ProcBits ==
    ASSUME IInv, NEW t \in Procs, ThreadStep(t)
    PROVE  /\ bits'[t] = IF pc[t] = "mark_write" THEN bits[t] \cup {Page(t)} ELSE bits[t]
           /\ bits'["user_pool"] = IF pc[t] = "take_write" THEN bits["user_pool"] \cup {frame[t]}
                                   ELSE bits["user_pool"]
<1>0. TypeOK /\ t \in Threads /\ ProcOk(t)
  BY DEF IInv, ProcInv, Threads
<1>1. /\ AddressMap(t) = t /\ Pool(t) = "user_pool" /\ t \in Maps /\ "user_pool" \in Maps
      /\ "kernel_pool" \in Maps /\ t # "user_pool" /\ t # "kernel_pool"
  BY <1>0, Owners, Constants DEF Maps, Pools
<1>2. CASE Begin(t) \/ Lock(t) \/ Unlock(t)
  BY <1>2 DEF Begin, get_a_page, get_kernel_pages, sys_malloc, sys_free, Call, Lock, Unlock, shared, At
<1>3. CASE Addresses(t)
  BY <1>3 DEF Addresses, At, Panic, Return, shared
<1>4. CASE Mark(t)
  BY <1>4 DEF Mark, At, ReadByte, shared
<1>5. CASE MarkWrite(t)
  <2>1. pc[t] = "mark_write" /\ WriteByte(t, t, Page(t), 1)
    BY <1>1, <1>5 DEF MarkWrite, At
  <2>2. copy[t] = bits[t] \cap ByteOf(Page(t))
    BY <1>0, <2>1 DEF ProcOk
  <2>3. bits'[t] = bitmap_set(bits[t], Page(t), 1) /\ \A x \in Maps \ {t} : bits'[x] = bits[x]
    BY <1>0, <1>1, <2>1, <2>2, WriteUnchanged
  <2>. QED  BY <1>1, <2>1, <2>3 DEF bitmap_set
<1>6. CASE palloc(t)
  BY <1>6 DEF palloc, At, Panic, shared
<1>7. CASE TakeFrame(t)
  BY <1>7 DEF TakeFrame, At, ReadByte, shared
<1>8. CASE TakeFrameWrite(t)
  <2>1. pc[t] = "take_write" /\ WriteByte(t, "user_pool", frame[t], 1)
    BY <1>1, <1>8 DEF TakeFrameWrite, At
  <2>2. copy[t] = bits["user_pool"] \cap ByteOf(frame[t])
    BY <1>0, <2>1 DEF ProcOk
  <2>3. bits'["user_pool"] = bitmap_set(bits["user_pool"], frame[t], 1) /\ \A x \in Maps \ {"user_pool"} : bits'[x] = bits[x]
    BY <1>0, <1>1, <2>1, <2>2, WriteUnchanged
  <2>. QED  BY <1>1, <2>1, <2>3 DEF bitmap_set
<1>9. CASE page_table_add(t)
  BY <1>9 DEF page_table_add, At, Panic, shared
<1>10. CASE Map(t)
  BY <1>10 DEF Map, At, ReadByte, shared
<1>11. CASE PallocTable(t)
  BY <1>11 DEF PallocTable, At, Panic, shared
<1>12. CASE TakeTable(t)
  BY <1>12 DEF TakeTable, At, ReadByte, shared
<1>13. CASE TakeTableWrite(t)
  BY <1>0, <1>1, <1>13 DEF TakeTableWrite, At, WriteByte, TypeOK
<1>14. CASE AddTable(t)
  BY <1>14 DEF AddTable, At, ReadByte, shared
<1>15. CASE pfree(t)
  BY <1>15 DEF pfree, At, ReadByte, shared
<1>16. CASE pfreeWrite(t)
  <2>. DEFINE i == pt[t][Page(t)][2]
  <2>1. pc[t] = "pfree_write" /\ WriteByte(t, "user_pool", i, 0)
    BY <1>0, <1>1, <1>16, FreedFrame DEF pfreeWrite, At
  <2>2. copy[t] = bits["user_pool"] \cap ByteOf(i)
    BY <1>0, <2>1 DEF ProcOk
  <2>3. /\ bits'["user_pool"] = bitmap_set(bits["user_pool"], i, 0)
        /\ \A x \in Maps \ {"user_pool"} : bits'[x] = bits[x]
    BY <1>0, <1>1, <2>1, <2>2, WriteUnchanged
  <2>. QED  BY <1>1, <2>1, <2>3 DEF bitmap_set
<1>17. CASE page_table_pte_remove(t)
  BY <1>17 DEF page_table_pte_remove, At, ReadByte, shared
<1>18. CASE vaddr_remove(t)
  BY <1>18 DEF vaddr_remove, At, ReadByte, shared
<1>19. CASE VaddrWrite(t)
  <2>1. pc[t] = "vaddr_write" /\ WriteByte(t, t, Page(t), 0)
    BY <1>1, <1>19 DEF VaddrWrite, At
  <2>2. copy[t] = bits[t] \cap ByteOf(Page(t))
    BY <1>0, <2>1 DEF ProcOk
  <2>3. bits'[t] = bitmap_set(bits[t], Page(t), 0) /\ \A x \in Maps \ {t} : bits'[x] = bits[x]
    BY <1>0, <1>1, <2>1, <2>2, WriteUnchanged
  <2>. QED  BY <1>1, <2>1, <2>3 DEF bitmap_set
<1>. QED  BY <1>2, <1>3, <1>4, <1>5, <1>6, <1>7, <1>8, <1>9, <1>10, <1>11, <1>12, <1>13, <1>14, <1>15, <1>16, <1>17, <1>18, <1>19
          DEF ThreadStep, malloc_page, mfree_page

\* What is mapped stays marked and in its owner's pool, and a frame of the user
\* pool is mapped once.
LEMMA MappedStep ==
    ASSUME IInv, NEW t \in Threads, ThreadStep(t)
    PROVE  MappedMarked' /\ Origins' /\ MappedOnce'
<1>0. /\ TypeOK /\ CallInv /\ LockInv /\ ProcInv /\ MappedMarked /\ Origins /\ MappedOnce
  BY DEF IInv
<1>1. /\ "user_pool" \in Maps /\ Procs \subseteq Maps /\ Procs \subseteq Spaces
      /\ Procs \subseteq Threads /\ "user_pool" \notin Procs /\ "kernel_vaddr" \notin Procs
      /\ "kernel_pool" \notin Procs /\ NoFrame # <<Pool(t), frame[t]>>
  BY Constants DEF Maps, Pools, Spaces, Threads, NoFrame
<1>2. \A p \in Procs : bits[p] \subseteq bits'[p]
  <2>1. ASSUME NEW p \in Procs, p # t
        PROVE  bits'[p] = bits[p]
    <3>1. p \notin {AddressMap(t), Pool(t), "kernel_pool"}
      BY <1>1, <2>1, Owners
    <3>. QED  BY <1>1, <3>1, SharedStep
  <2>. QED  BY <2>1, ProcBits
<1>3. bits["user_pool"] \subseteq bits'["user_pool"]
  <2>1. CASE t \in Procs
    BY <2>1, ProcBits
  <2>2. CASE t \notin Procs
    <3>1. "user_pool" \notin {AddressMap(t), Pool(t), "kernel_pool"}
      BY <2>2, Owners
    <3>. QED  BY <1>1, <3>1, SharedStep
  <2>. QED  BY <2>1, <2>2
\* A page that is mapped by the step.
<1>4. ASSUME pc[t] = "map", t \in Procs
      PROVE  /\ Page(t) \in bits[t] /\ frame[t] \in bits["user_pool"]
             /\ \A s \in Spaces, v \in Pages : pt[s][v] # <<"user_pool", frame[t]>>
  <2>1. ProcOk(t) /\ Page(t) \in CallRun(t)
    BY <1>0, <1>1, <1>4, CallNumbers DEF ProcInv, Inner, Paged, Mapping
  <2>. QED  BY <1>4, <2>1 DEF ProcOk, Framed, Mapping
<1>5. Origins'
  <2>1. ASSUME NEW s \in Spaces, NEW v \in Pages, pt'[s][v] # NoFrame
        PROVE  pt'[s][v][1] = IF s = "kernel_vaddr" THEN "kernel_pool" ELSE "user_pool"
    <3>1. CASE pt'[s][v] = pt[s][v]
      BY <1>0, <2>1, <3>1 DEF Origins
    <3>2. CASE pt'[s][v] # pt[s][v]
      <4>1. s = AddressMap(t) /\ pt'[s][v] = <<Pool(t), frame[t]>>
        BY <2>1, <3>2, SharedStep
      <4>. QED  BY <1>1, <4>1, Owners
    <3>. QED  BY <3>1, <3>2
  <2>2. ASSUME NEW p \in Procs, NEW g \in Tables, table'[p][g] # NoFrame
        PROVE  table'[p][g][1] = "kernel_pool"
    BY <1>0, <2>2, SharedStep DEF Origins
  <2>. QED  BY <2>1, <2>2 DEF Origins
<1>6. MappedMarked'
  <2>1. ASSUME NEW p \in Procs, NEW v \in Pages, pt'[p][v] # NoFrame
        PROVE  v \in bits'[p] /\ pt'[p][v][2] \in bits'[pt'[p][v][1]]
    <3>1. pt'[p][v][1] = "user_pool"
      BY <1>1, <1>5, <2>1 DEF Origins
    <3>2. CASE pt'[p][v] = pt[p][v]
      BY <1>0, <1>2, <1>3, <2>1, <3>1, <3>2 DEF MappedMarked
    <3>3. CASE pt'[p][v] # pt[p][v]
      <4>1. /\ p = AddressMap(t) /\ v = Page(t) /\ pc[t] = "map"
            /\ pt'[p][v] = <<Pool(t), frame[t]>>
        BY <1>1, <2>1, <3>3, SharedStep
      <4>2. t \in Procs /\ p = t
        BY <1>1, <4>1, Owners
      <4>. QED  BY <1>2, <1>3, <1>4, <3>1, <4>1, <4>2
    <3>. QED  BY <3>2, <3>3
  <2>. QED  BY <2>1 DEF MappedMarked
<1>7. MappedOnce'
  <2>1. ASSUME NEW s \in Spaces, NEW v \in Pages, NEW i \in Bits("user_pool"),
               pt'[s][v] = <<"user_pool", i>>
        PROVE  \/ pt[s][v] = <<"user_pool", i>>
               \/ /\ s = AddressMap(t) /\ v = Page(t)
                  /\ \A x \in Spaces, w \in Pages : pt[x][w] # <<"user_pool", i>>
    <3>1. CASE pt'[s][v] = pt[s][v]
      BY <2>1, <3>1
    <3>2. CASE pt'[s][v] # pt[s][v]
      <4>0. NoFrame # <<"user_pool", i>>
        BY DEF NoFrame
      <4>1. /\ s = AddressMap(t) /\ v = Page(t) /\ pc[t] = "map"
            /\ pt'[s][v] = <<Pool(t), frame[t]>>
        <5>1. pt'[s][v] # NoFrame
          BY <2>1, <4>0
        <5>. QED  BY <3>2, <5>1, SharedStep
      <4>2. Pool(t) = "user_pool" /\ i = frame[t]
        BY <2>1, <4>1
      <4>3. t \in Procs
        BY <4>2, Owners
      <4>. QED  BY <1>4, <4>1, <4>2, <4>3
    <3>. QED  BY <3>1, <3>2
  <2>. QED  BY <1>0, <2>1 DEF MappedOnce
<1>. QED  BY <1>5, <1>6, <1>7

\* What another process has in hand stays as it is.
LEMMA OtherProc ==
    ASSUME IInv, NEW t \in Threads, ThreadStep(t), NEW u \in Procs, u # t
    PROVE  ProcOk(u)'
<1>0. TypeOK /\ CallInv /\ LockInv /\ ProcOk(u) /\ u \in Threads
  BY DEF IInv, ProcInv, Threads
<1>1. /\ pc'[u] = pc[u] /\ call'[u] = call[u] /\ frame'[u] = frame[u] /\ copy'[u] = copy[u]
  BY <1>0, Others
<1>2. u \in Maps /\ u \in Spaces /\ u \notin {AddressMap(t), Pool(t), "kernel_pool"}
  BY <1>0, Owners, Constants DEF Maps, Spaces, Pools
<1>3. bits'[u] = bits[u] /\ \A v \in Pages : pt'[u][v] = pt[u][v]
  BY <1>2, SharedStep
<1>4. ASSUME pc[u] \in Inner
      PROVE  /\ bits'["user_pool"] = bits["user_pool"]
             /\ pc[t] = "map" => Pool(t) = "kernel_pool"
  <2>1. CASE t \in Procs
    <3>1. pc[t] \notin Inner
      BY <1>0, <1>4, <2>1, OneInside
    <3>. QED  BY <3>1, SharedStep DEF Inner, Paged, Mapping
  <2>2. CASE t \notin Procs
    <3>1. /\ "user_pool" \notin {AddressMap(t), Pool(t), "kernel_pool"}
          /\ "user_pool" \in Maps /\ Pool(t) = "kernel_pool"
      BY <2>2, Owners DEF Maps, Pools
    <3>. QED  BY <3>1, SharedStep
  <2>. QED  BY <2>1, <2>2
<1>5. Page(u)' = Page(u) /\ CallRun(u)' = CallRun(u) /\ Done(u)' = Done(u)
  BY <1>1 DEF Page, CallRun, Done
<1>6. pc[u] \in Paged => Page(u) \in Pages
  BY <1>0, CallNumbers
<1>7. ASSUME pc[u] \in Framed, NEW s \in Spaces, NEW v \in Pages
      PROVE  pt'[s][v] # <<"user_pool", frame[u]>>
  <2>1. pt[s][v] # <<"user_pool", frame[u]>> /\ NoFrame # <<"user_pool", frame[u]>>
    BY <1>0, <1>7 DEF ProcOk, NoFrame
  <2>2. pc[t] = "map" => Pool(t) = "kernel_pool"
    BY <1>4, <1>7 DEF Framed, Inner, Paged, Mapping, Tabling
  <2>3. CASE pt'[s][v] = pt[s][v] \/ pt'[s][v] = NoFrame
    BY <2>1, <2>3
  <2>4. CASE ~(pt'[s][v] = pt[s][v] \/ pt'[s][v] = NoFrame)
    <3>1. pc[t] = "map" /\ pt'[s][v] = <<Pool(t), frame[t]>>
      BY <2>4, SharedStep
    <3>2. pt'[s][v][1] = "kernel_pool" /\ <<"user_pool", frame[u]>>[1] = "user_pool"
      BY <2>2, <3>1
    <3>. QED  BY <3>2
  <2>. QED  BY <2>3, <2>4
<1>8. pc[u] \in Marking \cup Mapping \cup Freeing => pc[u] \in Inner /\ pc[u] \in Paged
  BY DEF Inner, Paged
<1>9. Framed \subseteq Mapping
  BY DEF Framed, Mapping
<1>. QED  BY <1>0, <1>1, <1>3, <1>4, <1>5, <1>6, <1>7, <1>8, <1>9
          DEF ProcOk, Marking, Mapping, Freeing

\* What a process has in hand is so after its own step.
LEMMA OwnProc ==
    ASSUME IInv, NEW t \in Procs, ThreadStep(t)
    PROVE  ProcOk(t)'
<1>0. /\ TypeOK /\ t \in Threads /\ ProcOk(t) /\ CallOk(t) /\ MappedMarked /\ Origins
      /\ AddressMap(t) = t /\ Pool(t) = "user_pool" /\ "user_pool" \in Pools
  BY Owners, Constants DEF IInv, CallInv, ProcInv, Threads, Pools
<1>a. ASSUME pc'[t] \notin Marking \cup Mapping \cup {"vaddr_write", "pfree_write"}
      PROVE  ProcOk(t)'
  BY <1>a DEF ProcOk, Framed, Marking, Mapping, Tabling
<1>b. /\ bits'[t] = IF pc[t] = "mark_write" THEN bits[t] \cup {Page(t)} ELSE bits[t]
      /\ bits'["user_pool"] = IF pc[t] = "take_write" THEN bits["user_pool"] \cup {frame[t]}
                              ELSE bits["user_pool"]
  BY ProcBits
\* With its page table in hand a process keeps its run and its frame.
<1>c. ASSUME pc[t] \in Framed, pc'[t] \in Framed, call' = call, frame' = frame, pt' = pt
      PROVE  ProcOk(t)'
  <2>1. CallRun(t) \subseteq bits[t]
    BY <1>0, <1>c DEF ProcOk, Framed, Mapping
  <2>2. bits'[t] = bits[t] /\ bits'["user_pool"] = bits["user_pool"] /\ CallRun(t)' = CallRun(t)
    BY <1>b, <1>c DEF Framed, Tabling, CallRun
  <2>3. pc'[t] \notin Marking \cup {"vaddr_write", "take_write", "pfree_write", "take"}
    BY <1>c DEF Framed, Tabling, Marking
  <2>. QED  BY <1>0, <1>c, <2>1, <2>2, <2>3 DEF ProcOk, Marking
<1>d. ASSUME Panic
      PROVE  ProcOk(t)'
  BY <1>0, <1>d DEF Panic, shared, locals, ProcOk, Done, CallRun, Page
\* A run of addresses of which none is marked yet.
<1>e. ASSUME pc'[t] = "mark", call'[t].done = 0, call'[t].base \in Nat
      PROVE  ProcOk(t)'
  <2>1. Done(t)' = {}
    BY <1>e DEF Done
  <2>. QED  BY <1>e, <2>1 DEF ProcOk, Marking, Mapping, Tabling, Framed
<1>1. CASE Begin(t) \/ Unlock(t)
  <2>1. pc'[t] \in {"lock", "addresses", "out"}
    BY <1>0, <1>1 DEF Begin, get_a_page, get_kernel_pages, sys_malloc, sys_free, Call, Unlock, Goto, TypeOK
  <2>. QED  BY <1>a, <2>1 DEF Marking, Mapping, Tabling
<1>2. CASE Lock(t)
  <2>1. pc[t] = "lock" /\ call' = call /\ pc'[t] \in {"addresses", "mark", "pfree"}
    <3>1. call[t].kind \in {"sys_malloc", "get_a_page", "sys_free"} /\ pc[t] = "lock"
      BY <1>0, <1>2, Places DEF Lock, At, KindOk, Kinds, IInv, CallInv
    <3>. QED  BY <1>0, <1>2, <3>1 DEF Lock, Goto, TypeOK
  <2>2. call[t].done = 0 /\ call[t].base \in Nat
    BY <1>0, <2>1, CallNumbers DEF CallOk, Inner, Paged, Marking, Mapping, Tabling, Freeing
  <2>. QED  BY <1>a, <1>e, <2>1, <2>2 DEF Marking, Mapping, Tabling
<1>3. CASE Addresses(t)
  <2>1. pc[t] = "addresses" /\ call[t].done = 0
    BY <1>0, <1>3 DEF Addresses, At, CallOk, Inner, Paged, Marking, Mapping, Tabling, Freeing
  <2>2. CASE FoundRun(t) = Halts
    BY <1>3, <1>d, <2>2 DEF Addresses
  <2>3. CASE FoundRun(t) = None
    <3>1. pc'[t] \in {"out", "unlock"}
      BY <1>0, <1>3, <2>3 DEF Addresses, None, Halts, Return, Goto, TypeOK
    <3>. QED  BY <1>a, <3>1 DEF Marking, Mapping, Tabling
  <2>4. CASE FoundRun(t) \notin {Halts, None}
    <3>1. FoundRun(t) \in Nat
      BY <1>0, <2>1, <2>4, RunFound, Constants DEF Pages
    <3>. HIDE DEF FoundRun
    <3>2. pc'[t] = "mark" /\ call'[t].base = FoundRun(t) /\ call'[t].done = 0
      BY <1>0, <1>3, <2>1, <2>4 DEF Addresses, Goto, TypeOK
    <3>. QED  BY <1>e, <3>1, <3>2
  <2>. QED  BY <2>2, <2>3, <2>4
<1>4. CASE Mark(t)
  <2>1. /\ pc[t] = "mark" /\ pc'[t] = "mark_write" /\ call' = call /\ bits' = bits
        /\ copy'[t] = bits[t] \cap ByteOf(Page(t))
    BY <1>0, <1>4 DEF Mark, At, ReadByte, Goto, shared, TypeOK
  <2>2. Done(t)' = Done(t) /\ Page(t)' = Page(t)
    BY <2>1 DEF Done, Page
  <2>. QED  BY <1>0, <2>1, <2>2 DEF ProcOk, Marking, Mapping, Tabling, Framed
<1>5. CASE MarkWrite(t)
  <2>1. /\ pc[t] = "mark_write" /\ NextPage(t, "mark", "palloc") /\ Done(t) \subseteq bits[t]
        /\ call[t].done < call[t].cnt /\ call[t].base \in Nat /\ call[t].cnt \in Nat
        /\ call[t].done \in Nat
    BY <1>0, <1>5, CallNumbers DEF MarkWrite, At, ProcOk, Inner, Paged, Marking, Mapping, Tabling, Freeing
  <2>2. call[t].base .. call[t].base + (call[t].done + 1) - 1 \subseteq bits'[t]
    BY <1>b, <2>1, OneMore DEF Done, Page
  <2>3. CASE call[t].done + 1 < call[t].cnt
    <3>1. /\ pc'[t] = "mark" /\ call'[t].base = call[t].base
          /\ call'[t].done = call[t].done + 1
      BY <1>0, <2>1, <2>3 DEF NextPage, Goto, TypeOK
    <3>. QED  BY <2>2, <3>1 DEF ProcOk, Done, Marking, Mapping, Tabling, Framed
  <2>4. CASE ~(call[t].done + 1 < call[t].cnt)
    <3>1. /\ pc'[t] = "palloc" /\ call'[t].base = call[t].base
          /\ call'[t].cnt = call[t].cnt /\ call[t].cnt = call[t].done + 1
      BY <1>0, <2>1, <2>4 DEF NextPage, Goto, TypeOK
    <3>. QED  BY <2>2, <3>1 DEF ProcOk, CallRun, Marking, Mapping, Tabling, Framed
  <2>. QED  BY <2>3, <2>4
<1>6. CASE palloc(t)
  <2>. DEFINE r == bitmap_scan(bits["user_pool"], BytesOf("user_pool"), 1)
  <2>1. CASE r = Halts
    BY <1>0, <1>6, <1>d, <2>1 DEF palloc
  <2>2. CASE r # Halts
    <3>1. r \notin bits["user_pool"]
      BY <1>0, <2>2, PoolScan
    <3>. HIDE DEF r
    <3>2. /\ pc[t] = "palloc" /\ pc'[t] = "take" /\ call' = call /\ frame'[t] = r /\ bits' = bits
      BY <1>0, <1>6, <2>2 DEF palloc, At, Goto, shared, TypeOK, r
    <3>. QED  BY <1>0, <3>1, <3>2 DEF ProcOk, CallRun, Marking, Mapping, Tabling, Framed
  <2>. QED  BY <2>1, <2>2
<1>7. CASE TakeFrame(t)
  <2>1. /\ pc[t] = "take" /\ pc'[t] = "take_write" /\ call' = call /\ bits' = bits
        /\ frame' = frame /\ copy'[t] = bits["user_pool"] \cap ByteOf(frame[t])
    BY <1>0, <1>7 DEF TakeFrame, At, ReadByte, Goto, shared, TypeOK
  <2>. QED  BY <1>0, <2>1 DEF ProcOk, CallRun, Marking, Mapping, Tabling, Framed
<1>8. CASE TakeFrameWrite(t)
  <2>1. /\ pc[t] = "take_write" /\ pc'[t] = "page_table_add" /\ call' = call
        /\ frame' = frame /\ pt' = pt
    BY <1>0, <1>8 DEF TakeFrameWrite, At, Goto, TypeOK
  <2>2. frame[t] \notin bits["user_pool"] /\ CallRun(t) \subseteq bits[t]
    BY <1>0, <2>1 DEF ProcOk, Mapping
  <2>3. ASSUME NEW x \in Spaces, NEW v \in Pages, pt[x][v] = <<"user_pool", frame[t]>>
        PROVE  FALSE
    <3>1. pt[x][v] # NoFrame /\ pt[x][v][1] = "user_pool" /\ pt[x][v][2] = frame[t]
      BY <2>3 DEF NoFrame
    <3>2. x \in Procs
      BY <1>0, <3>1 DEF Origins, Spaces
    <3>. QED  BY <1>0, <2>2, <3>1, <3>2 DEF MappedMarked
  <2>4. CallRun(t)' = CallRun(t)
    BY <2>1 DEF CallRun
  <2>. QED  BY <1>b, <2>1, <2>2, <2>3, <2>4 DEF ProcOk, Marking, Mapping, Tabling, Framed
<1>9. CASE page_table_add(t)
  <2>1. CASE pt[AddressMap(t)][Page(t)] # NoFrame
    BY <1>9, <1>d, <2>1 DEF page_table_add
  <2>2. CASE ~(pt[AddressMap(t)][Page(t)] # NoFrame)
    <3>1. /\ pc[t] = "page_table_add" /\ pc'[t] = "map" /\ call' = call /\ frame' = frame
          /\ pt' = pt
      BY <1>0, <1>9, <2>2 DEF page_table_add, At, Goto, shared, locals, TypeOK
    <3>. QED  BY <1>c, <3>1 DEF Framed
  <2>. QED  BY <2>1, <2>2
<1>10. CASE Map(t)
  <2>1. pc[t] = "map"
    BY <1>10 DEF Map, At
  <2>2. CASE call[t].done + 1 = call[t].cnt
    <3>1. pc'[t] \in {"out", "unlock"}
      BY <1>0, <1>10, <2>2 DEF Map, Return, Goto, TypeOK
    <3>. QED  BY <1>a, <3>1 DEF Marking, Mapping, Tabling
  <2>3. CASE call[t].done + 1 # call[t].cnt
    <3>1. /\ pc'[t] = "palloc" /\ call'[t].base = call[t].base /\ call'[t].cnt = call[t].cnt
      BY <1>0, <1>10, <2>3 DEF Map, Goto, TypeOK
    <3>2. CallRun(t)' = CallRun(t) /\ CallRun(t) \subseteq bits'[t]
      BY <1>0, <1>b, <2>1, <3>1 DEF CallRun, ProcOk, Mapping
    <3>. QED  BY <3>1, <3>2 DEF ProcOk, Marking, Mapping, Tabling, Framed
  <2>. QED  BY <2>2, <2>3
<1>11. CASE PallocTable(t)
  <2>1. CASE bitmap_scan(bits["kernel_pool"], KBytes, 1) = Halts
    BY <1>11, <1>d, <2>1 DEF PallocTable
  <2>2. CASE bitmap_scan(bits["kernel_pool"], KBytes, 1) # Halts
    <3>1. /\ pc[t] = "page_table_add" /\ pc'[t] = "take_table" /\ call' = call
          /\ frame' = frame /\ pt' = pt
      BY <1>0, <1>11, <2>2 DEF PallocTable, At, Goto, shared, TypeOK
    <3>. QED  BY <1>c, <3>1 DEF Framed, Tabling
  <2>. QED  BY <2>1, <2>2
<1>12. CASE TakeTable(t)
  <2>1. /\ pc[t] = "take_table" /\ pc'[t] = "take_table_write" /\ call' = call
        /\ frame' = frame /\ pt' = pt
    BY <1>0, <1>12 DEF TakeTable, At, ReadByte, Goto, shared, TypeOK
  <2>. QED  BY <1>c, <2>1 DEF Framed, Tabling
<1>13. CASE TakeTableWrite(t)
  <2>1. /\ pc[t] = "take_table_write" /\ pc'[t] = "add_table" /\ call' = call
        /\ frame' = frame /\ pt' = pt
    BY <1>0, <1>13 DEF TakeTableWrite, At, Goto, TypeOK
  <2>. QED  BY <1>c, <2>1 DEF Framed, Tabling
<1>14. CASE AddTable(t)
  <2>1. /\ pc[t] = "add_table" /\ pc'[t] = "page_table_add" /\ call' = call
        /\ frame' = frame /\ pt' = pt
    BY <1>0, <1>14 DEF AddTable, At, Goto, TypeOK
  <2>. QED  BY <1>c, <2>1 DEF Framed, Tabling
<1>15. CASE pfree(t)
  <2>1. pt[t][Page(t)][1] = "user_pool"
    BY <1>0, <1>15, FreedFrame DEF pfree, At
  <2>2. /\ pc'[t] = "pfree_write" /\ call' = call /\ bits' = bits /\ pt' = pt
        /\ copy'[t] = bits["user_pool"] \cap ByteOf(pt[t][Page(t)][2])
    BY <1>0, <1>15, <2>1 DEF pfree, At, ReadByte, Goto, shared, TypeOK
  <2>3. Page(t)' = Page(t)
    BY <2>2 DEF Page
  <2>. QED  BY <2>2, <2>3 DEF ProcOk, Marking, Mapping, Tabling, Framed
<1>16. CASE pfreeWrite(t)
  <2>1. pc'[t] = "pte_remove"
    BY <1>0, <1>16 DEF pfreeWrite, Goto, TypeOK
  <2>. QED  BY <1>a, <2>1 DEF Marking, Mapping, Tabling
<1>17. CASE page_table_pte_remove(t)
  <2>1. pc'[t] \in {"pfree", "vaddr_remove"}
    BY <1>0, <1>17 DEF page_table_pte_remove, NextPage, Goto, TypeOK
  <2>. QED  BY <1>a, <2>1 DEF Marking, Mapping, Tabling
<1>18. CASE vaddr_remove(t)
  <2>1. /\ pc'[t] = "vaddr_write" /\ call' = call /\ bits' = bits
        /\ copy'[t] = bits[t] \cap ByteOf(Page(t))
    BY <1>0, <1>18 DEF vaddr_remove, At, ReadByte, Goto, shared, TypeOK
  <2>2. Page(t)' = Page(t)
    BY <2>1 DEF Page
  <2>. QED  BY <2>1, <2>2 DEF ProcOk, Marking, Mapping, Tabling, Framed
<1>19. CASE VaddrWrite(t)
  <2>1. pc'[t] \in {"vaddr_remove", "out", "unlock"}
    BY <1>0, <1>19 DEF VaddrWrite, Return, Goto, TypeOK
  <2>. QED  BY <1>a, <2>1 DEF Marking, Mapping, Tabling
<1>. QED  BY <1>1, <1>2, <1>3, <1>4, <1>5, <1>6, <1>7, <1>8, <1>9, <1>10, <1>11, <1>12, <1>13,
             <1>14, <1>15, <1>16, <1>17, <1>18, <1>19
          DEF ThreadStep, malloc_page, mfree_page

LEMMA ProcStep ==
    ASSUME IInv, NEW t \in Threads, ThreadStep(t)
    PROVE  ProcInv'
BY OwnProc, OtherProc DEF ProcInv

-----------------------------------------------------------------------------
(* The runs of sys_malloc. *)

\* The runs of the other threads, and the pages they have in hand, stay.
LEMMA RunOthers ==
    ASSUME IInv, NEW t \in Threads, ThreadStep(t), NEW u \in Threads, u # t
    PROVE  Kept(u)' = Kept(u) /\ Work(u)' = Work(u) /\ Page(u)' = Page(u) /\ pc'[u] = pc[u]
<1>1. pc'[u] = pc[u] /\ call'[u] = call[u] /\ owned'[u] = owned[u]
  BY Others DEF IInv
<1>. QED  BY <1>1 DEF Kept, Work, Page, Done

\* A step that takes nothing into hand, and unmaps what it lets go of at most.
LEMMA RunKeep ==
    ASSUME IInv, NEW t \in Threads, ThreadStep(t), Kept(t)' \subseteq Kept(t),
           Work(t)' \subseteq Work(t),
           \A s \in Spaces, v \in Pages : pt[s][v] # NoFrame /\ pt'[s][v] = NoFrame =>
              s = AddressMap(t) /\ v \in Work(t) \ Work(t)',
           \A v \in Work(t)' : pt'[AddressMap(t)][v] # NoFrame
    PROVE  RunInv'
<1>0. RunInv /\ \A u \in Threads : AddressMap(u) \in Spaces
  BY Owners DEF IInv
<1>1. \A u \in Threads : Kept(u)' \subseteq Kept(u) /\ Work(u)' \subseteq Work(u)
  BY RunOthers
<1>2. ASSUME NEW u \in Threads, NEW r \in Kept(u)', NEW v \in Run(r)
      PROVE  v \in Pages /\ pt'[AddressMap(u)][v] # NoFrame
  <2>1. v \in Pages /\ pt[AddressMap(u)][v] # NoFrame /\ r \in Kept(u)
    BY <1>0, <1>1 DEF RunInv
  <2>2. AddressMap(u) = AddressMap(t) => v \notin Work(t)
    BY <1>0, <2>1 DEF RunInv
  <2>. QED  BY <1>0, <2>1, <2>2
<1>3. ASSUME NEW u \in Threads, NEW v \in Work(u)'
      PROVE  v \in Pages /\ (pt'[AddressMap(u)][v] # NoFrame \/ (pc'[u] = "map" /\ v = Page(u)'))
  <2>1. v \in Work(u)
    BY <1>1
  <2>2. CASE u = t
    BY <1>0, <2>1, <2>2 DEF RunInv
  <2>3. CASE u # t
    <3>1. /\ v \in Pages
          /\ pt[AddressMap(u)][v] # NoFrame \/ (pc[u] = "map" /\ v = Page(u))
      BY <1>0, <2>1 DEF RunInv
    <3>2. AddressMap(u) = AddressMap(t) => v \notin Work(t)
      BY <1>0, <2>1, <2>3 DEF RunInv
    <3>. QED  BY <1>0, <2>3, <3>1, <3>2, RunOthers
  <2>. QED  BY <2>2, <2>3
<1>4. ASSUME NEW u \in Threads, NEW w \in Threads, AddressMap(u) = AddressMap(w)
      PROVE  /\ \A r \in Kept(u)', q \in Kept(w)' : <<u, r>> # <<w, q>> => Run(r) \cap Run(q) = {}
             /\ \A r \in Kept(u)' : Run(r) \cap Work(w)' = {}
             /\ u # w => Work(u)' \cap Work(w)' = {}
  BY <1>0, <1>1, <1>4 DEF RunInv
<1>. QED  BY <1>2, <1>3, <1>4 DEF RunInv, Run

\* A step that maps and unmaps nothing.
LEMMA RunQuiet ==
    ASSUME IInv, NEW t \in Threads, ThreadStep(t), pt' = pt, owned' = owned, pc[t] # "map",
           Work(t)' \subseteq Work(t)
    PROVE  RunInv'
<1>1. \A v \in Work(t) : pt[AddressMap(t)][v] # NoFrame
  BY DEF IInv, RunInv
<1>. QED  BY <1>1, RunKeep DEF Kept

\* A call keeps the pages it has in hand while it moves on.
LEMMA WorkKept ==
    ASSUME NEW t \in Threads, call' = call,
           \/ pc[t] \in Mapping \ {"map"} /\ pc'[t] \in Mapping \ {"map"}
           \/ pc[t] \in {"lock", "pfree", "pfree_write"}
              /\ pc'[t] \in {"addresses", "mark", "pfree", "pfree_write", "pte_remove"}
           \/ pc[t] \in Marking /\ pc'[t] \in Marking
           \/ pc'[t] \in {"vaddr_remove", "vaddr_write"}
    PROVE  Work(t)' \subseteq Work(t)
<1>1. Page(t)' = Page(t) /\ Done(t)' = Done(t)
  BY DEF Page, Done
<1>. QED  BY <1>1 DEF Work, Mapping, Tabling, Marking

\* A call that ends, or one that begins, has no pages in hand.
LEMMA NoWork ==
    ASSUME NEW t \in Threads,
           \/ pc[t] \in {"start", "out", "unlock", "addresses"}
           \/ pc[t] = "lock" /\ call[t].kind # "sys_free"
           \/ pc[t] \in Marking \/ call[t].kind \in {"get_kernel_pages", "get_a_page"}
    PROVE  Work(t) = {}
BY DEF Work, Mapping, Tabling, Marking

LEMMA RunStep ==
    ASSUME IInv, NEW t \in Threads, ThreadStep(t)
    PROVE  RunInv'
<1>0. /\ TypeOK /\ CallInv /\ LockInv /\ RunInv /\ KindOk(t) /\ CallOk(t)
      /\ AddressMap(t) \in Spaces
  BY Owners DEF IInv, CallInv
<1>a. ASSUME pt' = pt, owned' = owned, pc[t] # "map", Work(t)' = {}
      PROVE  RunInv'
  BY <1>a, RunQuiet
<1>b. ASSUME Panic, pc[t] # "map"
      PROVE  RunInv'
  <2>1. Work(t)' = Work(t)
    BY <1>b DEF Panic, Work, Page, Done
  <2>. QED  BY <1>b, <2>1, RunQuiet DEF Panic, shared
<1>1. CASE get_a_page(t) \/ \E cnt \in 1 .. MaxPages : get_kernel_pages(t, cnt) \/ sys_malloc(t, cnt)
  <2>1. /\ pc[t] # "map" /\ pt' = pt /\ owned' = owned /\ pc'[t] \in {"lock", "addresses"}
        /\ call'[t].kind # "sys_free"
    BY <1>0, <1>1 DEF get_a_page, get_kernel_pages, sys_malloc, Call, At, Goto, shared, TypeOK
  <2>2. Work(t)' = {}
    BY <2>1, NoWork DEF Work, Mapping, Tabling
  <2>. QED  BY <1>a, <2>1, <2>2
<1>2. ASSUME NEW run \in owned[t], sys_free(t, run)
      PROVE  RunInv'
  <2>1. /\ pc[t] = "out" /\ run[3] = "sys_malloc" /\ pt' = pt /\ pc'[t] = "lock"
        /\ owned'[t] = owned[t] \ {run}
        /\ call'[t] = [kind |-> "sys_free", base |-> run[1], cnt |-> run[2], done |-> 0]
    BY <1>0, <1>2 DEF sys_free, Call, At, Goto, shared, TypeOK
  <2>2. run \in Kept(t) /\ Kept(t)' = Kept(t) \ {run} /\ Work(t) = {} /\ run[1] \in Nat
    BY <1>0, <2>1, NoWork, Constants DEF Kept, TypeOK, Pages
  <2>3. Work(t)' = Run(run)
    <3>1. Page(t)' = run[1] /\ pc'[t] \notin Mapping
      BY <2>1, <2>2 DEF Page, Mapping, Tabling
    <3>. QED  BY <2>1, <3>1 DEF Work, Run
  <2>4. ASSUME NEW u \in Threads, NEW r \in Kept(u)', NEW v \in Run(r)
        PROVE  v \in Pages /\ pt'[AddressMap(u)][v] # NoFrame
    <3>1. r \in Kept(u)
      BY <2>2, RunOthers
    <3>. QED  BY <1>0, <2>1, <3>1 DEF RunInv
  <2>5. ASSUME NEW u \in Threads, NEW v \in Work(u)'
        PROVE  v \in Pages /\ (pt'[AddressMap(u)][v] # NoFrame \/ (pc'[u] = "map" /\ v = Page(u)'))
    <3>1. CASE u = t
      BY <1>0, <2>1, <2>2, <2>3, <3>1 DEF RunInv
    <3>2. CASE u # t
      BY <1>0, <2>1, <3>2, RunOthers DEF RunInv
    <3>. QED  BY <3>1, <3>2
  <2>6. ASSUME NEW u \in Threads, NEW w \in Threads, AddressMap(u) = AddressMap(w)
        PROVE  /\ \A r \in Kept(u)', q \in Kept(w)' : <<u, r>> # <<w, q>> => Run(r) \cap Run(q) = {}
               /\ \A r \in Kept(u)' : Run(r) \cap Work(w)' = {}
               /\ u # w => Work(u)' \cap Work(w)' = {}
    <3>1. Kept(u)' \subseteq Kept(u) /\ Kept(w)' \subseteq Kept(w)
      BY <2>2, RunOthers
    <3>2. \A r \in Kept(u)', q \in Kept(w)' : <<u, r>> # <<w, q>> => Run(r) \cap Run(q) = {}
      BY <1>0, <2>6, <3>1 DEF RunInv
    <3>3. ASSUME NEW r \in Kept(u)'
          PROVE  Run(r) \cap Work(w)' = {}
      <4>1. CASE w = t
        <5>1. <<u, r>> # <<t, run>> /\ r \in Kept(u)
          BY <2>2, <3>1
        <5>. QED  BY <1>0, <2>2, <2>3, <2>6, <4>1, <5>1 DEF RunInv
      <4>2. CASE w # t
        BY <1>0, <2>6, <3>1, <4>2, RunOthers DEF RunInv
      <4>. QED  BY <4>1, <4>2
    <3>4. ASSUME u # w
          PROVE  Work(u)' \cap Work(w)' = {}
      <4>1. CASE w = t
        <5>1. Work(u)' = Work(u)
          BY <3>4, <4>1, RunOthers
        <5>. QED  BY <1>0, <2>2, <2>3, <2>6, <4>1, <5>1 DEF RunInv
      <4>2. CASE u = t
        <5>1. Work(w)' = Work(w)
          BY <3>4, <4>2, RunOthers
        <5>. QED  BY <1>0, <2>2, <2>3, <2>6, <4>2, <5>1 DEF RunInv
      <4>3. CASE u # t /\ w # t
        BY <1>0, <2>6, <3>4, <4>3, RunOthers DEF RunInv
      <4>. QED  BY <4>1, <4>2, <4>3
    <3>. QED  BY <3>2, <3>3, <3>4
  <2>. QED  BY <2>4, <2>5, <2>6 DEF RunInv, Run
<1>3. CASE Lock(t)
  <2>1. /\ pc[t] = "lock" /\ call' = call /\ pt' = pt /\ owned' = owned
        /\ pc'[t] \in {"addresses", "mark", "pfree"}
    <3>1. call[t].kind \in {"sys_malloc", "get_a_page", "sys_free"} /\ pc[t] = "lock"
      BY <1>0, <1>3, Places DEF Lock, At, KindOk, Kinds
    <3>. QED  BY <1>0, <1>3, <3>1 DEF Lock, Goto, shared, TypeOK
  <2>. QED  BY <2>1, WorkKept, RunQuiet
<1>4. CASE Unlock(t)
  <2>1. pc[t] # "map" /\ pt' = pt /\ owned' = owned /\ pc'[t] = "out"
    BY <1>0, <1>4 DEF Unlock, At, Goto, shared, TypeOK
  <2>. QED  BY <1>a, <2>1 DEF Work, Mapping, Tabling
<1>5. CASE Addresses(t)
  <2>1. pc[t] = "addresses"
    BY <1>5 DEF Addresses, At
  <2>2. CASE FoundRun(t) = Halts
    BY <1>5, <1>b, <2>1, <2>2 DEF Addresses
  <2>3. CASE FoundRun(t) # Halts
    <3>1. pt' = pt /\ owned' = owned /\ pc'[t] \in {"out", "unlock", "mark"}
      BY <1>0, <1>5, <2>3 DEF Addresses, Return, Goto, shared, TypeOK
    <3>. QED  BY <1>a, <2>1, <3>1 DEF Work, Mapping, Tabling
  <2>. QED  BY <2>2, <2>3
<1>6. CASE Mark(t)
  <2>1. pc[t] = "mark" /\ pt' = pt /\ owned' = owned /\ pc'[t] = "mark_write"
    BY <1>0, <1>6 DEF Mark, At, ReadByte, Goto, shared, TypeOK
  <2>. QED  BY <1>a, <2>1 DEF Work, Mapping, Tabling
<1>7. CASE MarkWrite(t)
  <2>1. /\ pc[t] = "mark_write" /\ pt' = pt /\ owned' = owned /\ NextPage(t, "mark", "palloc")
        /\ call[t].done < call[t].cnt
    BY <1>0, <1>7, CallNumbers DEF MarkWrite, At, Inner, Paged, Marking
  <2>2. /\ pc'[t] \in {"mark", "palloc"} /\ call'[t].base = call[t].base
        /\ pc'[t] = "palloc" => call'[t].done = 0
    <3>1. "mark" \in Labels /\ "palloc" \in Labels
      BY DEF Labels
    <3>. QED  BY <2>1, <3>1, NextPageType
  <2>3. pc'[t] = "palloc" => Done(t)' = {}
    BY <2>2, CallNumbers DEF Done
  <2>4. Work(t)' = {}
    BY <2>2, <2>3 DEF Work, Mapping, Tabling
  <2>. QED  BY <1>a, <2>1, <2>4
<1>8. CASE palloc(t)
  <2>. DEFINE r == bitmap_scan(bits[Pool(t)], BytesOf(Pool(t)), 1)
  <2>1. pc[t] = "palloc"
    BY <1>8 DEF palloc, At
  <2>2. CASE r = Halts
    BY <1>8, <1>b, <2>1, <2>2 DEF palloc
  <2>3. CASE r # Halts
    <3>1. pt' = pt /\ owned' = owned /\ call' = call /\ pc'[t] = "take"
      BY <1>0, <1>8, <2>3 DEF palloc, Goto, shared, TypeOK
    <3>. QED  BY <2>1, <3>1, WorkKept, RunQuiet DEF Mapping, Tabling
  <2>. QED  BY <2>2, <2>3
<1>9. CASE TakeFrame(t)
  <2>1. /\ pc[t] = "take" /\ pt' = pt /\ owned' = owned /\ call' = call /\ pc'[t] = "take_write"
    BY <1>0, <1>9 DEF TakeFrame, At, ReadByte, Goto, shared, TypeOK
  <2>. QED  BY <2>1, WorkKept, RunQuiet DEF Mapping, Tabling
<1>10. CASE TakeFrameWrite(t)
  <2>1. /\ pc[t] = "take_write" /\ pt' = pt /\ owned' = owned /\ call' = call /\ pc'[t] = "page_table_add"
    BY <1>0, <1>10 DEF TakeFrameWrite, At, Goto, TypeOK
  <2>. QED  BY <2>1, WorkKept, RunQuiet DEF Mapping, Tabling
<1>11. CASE page_table_add(t)
  <2>1. pc[t] = "page_table_add" /\ Page(t) \in Pages
    BY <1>11, CallNumbers DEF page_table_add, At, Paged, Mapping
  <2>2. CASE pt[AddressMap(t)][Page(t)] # NoFrame
    BY <1>11, <1>b, <2>1, <2>2 DEF page_table_add
  <2>3. CASE pt[AddressMap(t)][Page(t)] = NoFrame
    <3>1. pt' = pt /\ owned' = owned /\ call' = call /\ pc'[t] = "map"
      BY <1>0, <1>11, <2>3 DEF page_table_add, Goto, shared, locals, TypeOK
    <3>2. Page(t)' = Page(t) /\ Done(t)' = Done(t)
      BY <3>1 DEF Page, Done
    <3>3. CASE call[t].kind # "sys_malloc"
      BY <1>a, <2>1, <3>1, <3>3 DEF Work, Mapping, Tabling
    <3>4. CASE call[t].kind = "sys_malloc"
      <4>1. Work(t)' = Work(t) \cup {Page(t)}
        BY <2>1, <3>1, <3>2, <3>4 DEF Work, Mapping, Tabling
      <4>2. \A u \in Threads : Kept(u)' = Kept(u) /\ (u # t => Work(u)' = Work(u))
        BY <3>1, RunOthers DEF Kept
      <4>3. \A v \in Work(t) : v \in Pages /\ pt[AddressMap(t)][v] # NoFrame
        BY <1>0, <2>1 DEF RunInv
      <4>4. ASSUME NEW u \in Threads, AddressMap(u) = AddressMap(t)
            PROVE  \A r \in Kept(u) : Page(t) \notin Run(r)
        BY <1>0, <2>3, <4>4 DEF RunInv
      <4>5. ASSUME NEW u \in Threads, u # t, AddressMap(u) = AddressMap(t), Page(t) \in Work(u)
            PROVE  FALSE
        <5>1. pc[u] = "map"
          BY <1>0, <2>3, <4>5 DEF RunInv
        <5>2. call[u].kind = "sys_malloc"
          BY <4>5, <5>1 DEF Work, Mapping, Tabling
        <5>3. Locked(u) /\ Locked(t)
          BY <2>1, <3>4, <5>1, <5>2 DEF Locked, Inner, Paged, Mapping
        <5>4. Pool(u) = Pool(t) /\ Pool(t) \in Pools
          BY <4>5, Owners, Constants
        <5>. QED  BY <1>0, <4>5, <5>3, <5>4 DEF LockInv
      <4>6. ASSUME NEW u \in Threads, NEW r \in Kept(u)', NEW v \in Run(r)
            PROVE  v \in Pages /\ pt'[AddressMap(u)][v] # NoFrame
        BY <1>0, <3>1, <4>2 DEF RunInv
      <4>7. ASSUME NEW u \in Threads, NEW v \in Work(u)'
            PROVE  v \in Pages /\ (pt'[AddressMap(u)][v] # NoFrame \/ (pc'[u] = "map" /\ v = Page(u)'))
        <5>1. CASE u = t
          BY <2>1, <3>1, <3>2, <4>1, <4>3, <5>1
        <5>2. CASE u # t
          BY <1>0, <3>1, <4>2, <5>2, RunOthers DEF RunInv
        <5>. QED  BY <5>1, <5>2
      <4>8. ASSUME NEW u \in Threads, NEW w \in Threads, AddressMap(u) = AddressMap(w)
            PROVE  /\ \A r \in Kept(u)', q \in Kept(w)' : <<u, r>> # <<w, q>> => Run(r) \cap Run(q) = {}
                   /\ \A r \in Kept(u)' : Run(r) \cap Work(w)' = {}
                   /\ u # w => Work(u)' \cap Work(w)' = {}
        <5>1. \A r \in Kept(u)', q \in Kept(w)' : <<u, r>> # <<w, q>> => Run(r) \cap Run(q) = {}
          BY <1>0, <4>2, <4>8 DEF RunInv
        <5>2. \A r \in Kept(u)' : Run(r) \cap Work(w)' = {}
          <6>1. \A r \in Kept(u) : Run(r) \cap Work(w) = {}
            BY <1>0, <4>8 DEF RunInv
          <6>. QED  BY <4>1, <4>2, <4>4, <4>8, <6>1
        <5>3. u # w => Work(u)' \cap Work(w)' = {}
          <6>1. u # w => Work(u) \cap Work(w) = {}
            BY <1>0, <4>8 DEF RunInv
          <6>. QED  BY <4>1, <4>2, <4>5, <4>8, <6>1
        <5>. QED  BY <5>1, <5>2, <5>3
      <4>. QED  BY <4>6, <4>7, <4>8 DEF RunInv, Run
    <3>. QED  BY <3>3, <3>4
  <2>. QED  BY <2>2, <2>3
<1>12. CASE Map(t)
  <2>. DEFINE f == <<Pool(t), frame[t]>>
  <2>1. /\ pc[t] = "map" /\ Page(t) \in Pages /\ call[t].done < call[t].cnt /\ f # NoFrame
        /\ call[t].base \in Nat /\ call[t].done \in Nat /\ call[t].cnt \in Nat
        /\ pt' = [pt EXCEPT ![AddressMap(t)][Page(t)] = f]
    BY <1>12, CallNumbers DEF Map, At, Inner, Paged, Mapping, NoFrame
  <2>2. /\ \A s \in Spaces, v \in Pages : pt[s][v] # NoFrame => pt'[s][v] # NoFrame
        /\ pt'[AddressMap(t)][Page(t)] # NoFrame
    <3>. HIDE DEF f
    <3>. QED  BY <1>0, <2>1 DEF TypeOK
  <2>3. ASSUME Kept(t)' = Kept(t), Work(t)' \subseteq Work(t)
        PROVE  RunInv'
    <3>1. \A v \in Work(t) : v \in Pages /\ (pt[AddressMap(t)][v] # NoFrame \/ v = Page(t))
      BY <1>0 DEF RunInv
    <3>2. \A v \in Work(t)' : pt'[AddressMap(t)][v] # NoFrame
      BY <1>0, <2>2, <2>3, <3>1
    <3>. QED  BY <2>2, <2>3, <3>2, RunKeep
  <2>4. CASE call[t].done + 1 # call[t].cnt
    <3>1. /\ pc'[t] = "palloc" /\ call'[t].kind = call[t].kind /\ call'[t].base = call[t].base
          /\ call'[t].done = call[t].done + 1 /\ owned'[t] = owned[t]
      BY <1>0, <1>12, <2>4 DEF Map, Goto, TypeOK
    <3>2. Done(t)' = Done(t) \cup {Page(t)}
      BY <2>1, <3>1, OneMore DEF Done, Page
    <3>3. Work(t)' \subseteq Work(t)
      BY <2>1, <3>1, <3>2 DEF Work, Mapping, Tabling
    <3>. QED  BY <2>3, <3>1, <3>3 DEF Kept
  <2>5. CASE call[t].done + 1 = call[t].cnt
    <3>1. /\ pc'[t] \in {"out", "unlock"} /\ owned'[t] = owned[t] \cup RunOf(t)
      BY <1>0, <1>12, <2>5 DEF Map, Return, Goto, TypeOK
    <3>2. Work(t)' = {}
      BY <3>1 DEF Work, Mapping, Tabling
    <3>3. CASE call[t].kind # "sys_malloc"
      BY <2>3, <3>1, <3>2, <3>3 DEF Kept, RunOf
    <3>4. CASE call[t].kind = "sys_malloc"
      <4>. DEFINE new == <<call[t].base, call[t].cnt, "sys_malloc">>
      <4>1. Kept(t)' = Kept(t) \cup {new}
        BY <3>1, <3>4 DEF Kept, RunOf
      <4>2. Run(new) = Work(t)
        <5>1. Run(new) = Done(t) \cup {Page(t)}
          BY <2>1, <2>5, OneMore DEF Run, Done, Page
        <5>. QED  BY <2>1, <3>4, <5>1 DEF Work, Mapping
      <4>3. \A v \in Work(t) : v \in Pages /\ pt'[AddressMap(t)][v] # NoFrame
        <5>1. \A v \in Work(t) : v \in Pages /\ (pt[AddressMap(t)][v] # NoFrame \/ v = Page(t))
          BY <1>0 DEF RunInv
        <5>. QED  BY <1>0, <2>2, <5>1
      <4>. HIDE DEF new
      <4>4. ASSUME NEW u \in Threads, NEW r \in Kept(u)', NEW v \in Run(r)
            PROVE  v \in Pages /\ pt'[AddressMap(u)][v] # NoFrame
        <5>1. CASE r \in Kept(u)
          BY <1>0, <2>2, <5>1, Owners DEF RunInv
        <5>2. CASE r \notin Kept(u)
          BY <4>1, <4>2, <4>3, <5>2, RunOthers
        <5>. QED  BY <5>1, <5>2
      <4>5. ASSUME NEW u \in Threads, NEW v \in Work(u)'
            PROVE  v \in Pages /\ (pt'[AddressMap(u)][v] # NoFrame \/ (pc'[u] = "map" /\ v = Page(u)'))
        <5>1. u # t
          BY <3>2
        <5>2. /\ v \in Pages
              /\ pt[AddressMap(u)][v] # NoFrame \/ (pc[u] = "map" /\ v = Page(u))
          BY <1>0, <5>1, RunOthers DEF RunInv
        <5>. QED  BY <2>2, <5>1, <5>2, RunOthers, Owners
      <4>6. ASSUME NEW u \in Threads, NEW w \in Threads, AddressMap(u) = AddressMap(w)
            PROVE  /\ \A r \in Kept(u)', q \in Kept(w)' : <<u, r>> # <<w, q>> => Run(r) \cap Run(q) = {}
                   /\ \A r \in Kept(u)' : Run(r) \cap Work(w)' = {}
                   /\ u # w => Work(u)' \cap Work(w)' = {}
        <5>1. /\ \A r \in Kept(u), q \in Kept(w) : <<u, r>> # <<w, q>> => Run(r) \cap Run(q) = {}
              /\ \A r \in Kept(u) : Run(r) \cap Work(w) = {}
              /\ \A r \in Kept(w) : Run(r) \cap Work(u) = {}
              /\ u # w => Work(u) \cap Work(w) = {}
          BY <1>0, <4>6 DEF RunInv
        <5>2. /\ u = t /\ w # t => Kept(w)' = Kept(w) /\ Work(w)' = Work(w)
              /\ w = t /\ u # t => Kept(u)' = Kept(u) /\ Work(u)' = Work(u)
              /\ u # t /\ w # t => Kept(u)' = Kept(u) /\ Kept(w)' = Kept(w)
                                   /\ Work(u)' = Work(u) /\ Work(w)' = Work(w)
          BY RunOthers
        <5>3. CASE u # t /\ w # t
          BY <5>1, <5>2, <5>3
        <5>4. CASE u = t /\ w # t
          BY <3>2, <4>1, <4>2, <5>1, <5>2, <5>4
        <5>5. CASE u # t /\ w = t
          BY <3>2, <4>1, <4>2, <5>1, <5>2, <5>5
        <5>6. CASE u = t /\ w = t
          BY <3>2, <4>1, <4>2, <5>1, <5>6
        <5>. QED  BY <5>3, <5>4, <5>5, <5>6
      <4>. QED  BY <4>4, <4>5, <4>6 DEF RunInv, Run
    <3>. QED  BY <3>3, <3>4
  <2>. QED  BY <2>4, <2>5
<1>13. CASE t \in Procs /\ PallocTable(t)
  <2>1. pc[t] = "page_table_add"
    BY <1>13 DEF PallocTable, At
  <2>2. CASE bitmap_scan(bits["kernel_pool"], KBytes, 1) = Halts
    BY <1>13, <1>b, <2>1, <2>2 DEF PallocTable
  <2>3. CASE bitmap_scan(bits["kernel_pool"], KBytes, 1) # Halts
    <3>1. pt' = pt /\ owned' = owned /\ call' = call /\ pc'[t] = "take_table"
      BY <1>0, <1>13, <2>3 DEF PallocTable, Goto, shared, TypeOK
    <3>. QED  BY <2>1, <3>1, WorkKept, RunQuiet DEF Mapping, Tabling
  <2>. QED  BY <2>2, <2>3
<1>14. CASE t \in Procs /\ TakeTable(t)
  <2>1. /\ pc[t] = "take_table" /\ pt' = pt /\ owned' = owned /\ call' = call /\ pc'[t] = "take_table_write"
    BY <1>0, <1>14 DEF TakeTable, At, ReadByte, Goto, shared, TypeOK
  <2>. QED  BY <2>1, WorkKept, RunQuiet DEF Mapping, Tabling
<1>15. CASE t \in Procs /\ TakeTableWrite(t)
  <2>1. /\ pc[t] = "take_table_write" /\ pt' = pt /\ owned' = owned /\ call' = call /\ pc'[t] = "add_table"
    BY <1>0, <1>15 DEF TakeTableWrite, At, Goto, TypeOK
  <2>. QED  BY <2>1, WorkKept, RunQuiet DEF Mapping, Tabling
<1>16. CASE t \in Procs /\ AddTable(t)
  <2>1. /\ pc[t] = "add_table" /\ pt' = pt /\ owned' = owned /\ call' = call /\ pc'[t] = "page_table_add"
    BY <1>0, <1>16 DEF AddTable, At, Goto, TypeOK
  <2>. QED  BY <2>1, WorkKept, RunQuiet DEF Mapping, Tabling
<1>17. CASE pfree(t)
  <2>1. /\ pc[t] = "pfree" /\ pt' = pt /\ owned' = owned /\ call' = call /\ pc'[t] = "pfree_write"
    BY <1>0, <1>17 DEF pfree, At, ReadByte, Goto, shared, TypeOK
  <2>. QED  BY <2>1, WorkKept, RunQuiet DEF Mapping, Tabling
<1>18. CASE pfreeWrite(t)
  <2>1. /\ pc[t] = "pfree_write" /\ pt' = pt /\ owned' = owned /\ call' = call /\ pc'[t] = "pte_remove"
    BY <1>0, <1>18 DEF pfreeWrite, At, Goto, TypeOK
  <2>. QED  BY <2>1, WorkKept, RunQuiet DEF Mapping, Tabling
<1>19. CASE page_table_pte_remove(t)
  <2>1. /\ pc[t] = "pte_remove" /\ Page(t) \in Pages /\ call[t].done < call[t].cnt
        /\ owned' = owned /\ NextPage(t, "pfree", "vaddr_remove") /\ call[t].kind = "sys_free"
        /\ pt' = [pt EXCEPT ![AddressMap(t)][Page(t)] = NoFrame]
        /\ call[t].base \in Nat /\ call[t].done \in Nat /\ call[t].cnt \in Nat
    BY <1>0, <1>19, Places, CallNumbers
       DEF page_table_pte_remove, At, KindOk, Inner, Paged, Freeing, locals
  <2>2. Work(t) = Page(t) .. call[t].base + call[t].cnt - 1 /\ Page(t) \in Work(t)
    BY <2>1, FreedFrame DEF Work, Mapping, Tabling
  <2>3. Work(t)' \subseteq Work(t) \ {Page(t)}
    <3>. "pfree" \in Labels /\ "vaddr_remove" \in Labels
      BY DEF Labels
    <3>1. CASE call[t].done + 1 < call[t].cnt
      <4>1. /\ pc'[t] = "pfree" /\ call'[t].kind = "sys_free" /\ call'[t].base = call[t].base
            /\ call'[t].cnt = call[t].cnt /\ call'[t].done = call[t].done + 1
        BY <2>1, <3>1, NextPageType
      <4>2. Work(t)' = Page(t)' .. call[t].base + call[t].cnt - 1 /\ Page(t)' = Page(t) + 1
        BY <2>1, <4>1 DEF Work, Mapping, Tabling, Page
      <4>. QED  BY <2>1, <2>2, <4>2 DEF Page
    <3>2. CASE ~(call[t].done + 1 < call[t].cnt)
      <4>1. pc'[t] = "vaddr_remove"
        BY <2>1, <3>2, NextPageType
      <4>. QED  BY <4>1 DEF Work, Mapping, Tabling
    <3>. QED  BY <3>1, <3>2
  <2>4. \A s \in Spaces, v \in Pages :
           pt'[s][v] = IF s = AddressMap(t) /\ v = Page(t) THEN NoFrame ELSE pt[s][v]
    BY <1>0, <2>1 DEF TypeOK
  <2>5. \A v \in Work(t) : v \in Pages /\ pt[AddressMap(t)][v] # NoFrame
    BY <1>0, <2>1 DEF RunInv
  <2>6. \A v \in Work(t)' : pt'[AddressMap(t)][v] # NoFrame
    BY <1>0, <2>3, <2>4, <2>5
  <2>7. Kept(t)' = Kept(t)
    BY <2>1 DEF Kept
  <2>. QED  BY <2>2, <2>3, <2>4, <2>6, <2>7, RunKeep
<1>20. CASE vaddr_remove(t)
  <2>1. pc[t] = "vaddr_remove" /\ pt' = pt /\ owned' = owned /\ pc'[t] = "vaddr_write"
    BY <1>0, <1>20 DEF vaddr_remove, At, ReadByte, Goto, shared, TypeOK
  <2>. QED  BY <1>a, <2>1 DEF Work, Mapping, Tabling
<1>21. CASE VaddrWrite(t)
  <2>1. /\ pc[t] = "vaddr_write" /\ pt' = pt /\ owned' = owned
        /\ pc'[t] \in {"vaddr_remove", "out", "unlock"}
    BY <1>0, <1>21 DEF VaddrWrite, At, Return, Goto, TypeOK
  <2>. QED  BY <1>a, <2>1 DEF Work, Mapping, Tabling
<1>. QED  BY <1>1, <1>2, <1>3, <1>4, <1>5, <1>6, <1>7, <1>8, <1>9, <1>10, <1>11, <1>12, <1>13, <1>14, <1>15, <1>16, <1>17, <1>18, <1>19, <1>20, <1>21
          DEF ThreadStep, Begin, malloc_page, mfree_page

-----------------------------------------------------------------------------
(* The invariant. *)

LEMMA InvInit == Init => IInv
<1>. SUFFICES ASSUME Init PROVE IInv
  OBVIOUS
<1>1. TypeOK
  BY TypeInit
<1>2. \A t \in Threads : /\ pc[t] = IF t \in Procs THEN "start" ELSE "out"
                         /\ call[t] = NoCall /\ owned[t] = {}
  BY DEF Init
<1>3. CallInv
  BY <1>2, Places DEF CallInv, KindOk, CallOk, NoCall, Inner, Paged, Marking, Mapping, Tabling, Freeing
<1>4. LockInv
  BY <1>2, Constants DEF Init, LockInv, Locked, Inner, Paged, Marking, Mapping, Tabling, Freeing
<1>5. ProcInv
  BY <1>2 DEF ProcInv, ProcOk, Framed, Marking, Mapping, Tabling, Threads
<1>6. MappedMarked /\ Origins /\ MappedOnce
  BY Constants DEF Init, MappedMarked, Origins, MappedOnce, NoFrame, Spaces
<1>7. RunInv
  <2>1. \A t \in Threads : Kept(t) = {} /\ Work(t) = {}
    BY <1>2 DEF Kept, Work, Mapping, Tabling
  <2>. QED  BY <2>1 DEF RunInv
<1>. QED  BY <1>1, <1>3, <1>4, <1>5, <1>6, <1>7 DEF IInv

LEMMA InvNext == IInv /\ [Next]_vars => IInv'
<1>. SUFFICES ASSUME IInv, [Next]_vars PROVE IInv'
  OBVIOUS
<1>1. ASSUME NEW t \in Threads, ThreadStep(t)
      PROVE  IInv'
  <2>1. TypeOK'
    BY <1>1, TypeStep
  <2>2. CallInv' /\ LockInv'
    BY <1>1, ControlStep
  <2>3. MappedMarked' /\ Origins' /\ MappedOnce'
    BY <1>1, MappedStep
  <2>4. ProcInv' /\ RunInv'
    BY <1>1, ProcStep, RunStep
  <2>. QED  BY <2>1, <2>2, <2>3, <2>4 DEF IInv
<1>2. CASE UNCHANGED vars
  <2>1. /\ bits' = bits /\ pt' = pt /\ table' = table /\ holder' = holder /\ owned' = owned
        /\ pc' = pc /\ call' = call /\ frame' = frame /\ table_frame' = table_frame
        /\ copy' = copy /\ panic' = panic
    BY <1>2 DEF vars, shared, locals
  <2>2. TypeOK' /\ MappedMarked' /\ Origins' /\ MappedOnce'
    <3>1. TypeOK'
      BY <2>1 DEF IInv, TypeOK
    <3>2. MappedMarked'
      BY <2>1 DEF IInv, MappedMarked
    <3>3. Origins'
      BY <2>1 DEF IInv, Origins
    <3>4. MappedOnce'
      BY <2>1 DEF IInv, MappedOnce
    <3>. QED  BY <3>1, <3>2, <3>3, <3>4
  <2>3. CallInv' /\ LockInv'
    BY <2>1 DEF IInv, CallInv, KindOk, CallOk, LockInv, Locked
  <2>4. ProcInv'
    <3>1. ASSUME NEW t \in Procs
          PROVE  ProcOk(t)'
      BY <2>1 DEF IInv, ProcInv, ProcOk, Done, CallRun, Page
    <3>. QED  BY <3>1 DEF ProcInv
  <2>5. RunInv'
    <3>1. ASSUME NEW t \in Threads
          PROVE  Kept(t)' = Kept(t) /\ Work(t)' = Work(t) /\ Page(t)' = Page(t)
      BY <2>1 DEF Kept, Work, Page, Done
    <3>. QED  BY <2>1, <3>1 DEF IInv, RunInv, Run
  <2>. QED  BY <2>2, <2>3, <2>4, <2>5 DEF IInv
<1>3. Next => \E t \in Threads : ThreadStep(t)
  BY DEF Next, ThreadStep, Begin
<1>. QED  BY <1>1, <1>2, <1>3

\* The inductive invariant of the allocator holds in every state.
THEOREM Invariant == Spec => []IInv
BY InvInit, InvNext, PTL DEF Spec

\* The allocator's state stays in its types: no scan answers a bit outside its
\* map's page numbers, and no call maps more pages than it was asked for.
THEOREM TypeCorrect == Spec => []TypeOK
<1>1. IInv => TypeOK
  BY DEF IInv
<1>. QED  BY <1>1, Invariant, PTL

\* Whatever a process has mapped is marked in its address map and in the user
\* pool, although bitmap_set writes back a byte it read earlier: the lock of the
\* pool is held from the read to the write.
THEOREM MappedIsMarked == Spec => []MappedMarked
<1>1. IInv => MappedMarked
  BY DEF IInv
<1>. QED  BY <1>1, Invariant, PTL

\* Under the user pool's lock no frame of the user pool gets a second use.
THEOREM UserFramesOnce == Spec => []UserFramesExclusive
<1>1. IInv => UserFramesExclusive
  <2>. SUFFICES ASSUME IInv, NEW i \in Bits("user_pool")
                PROVE  Cardinality(Uses(<<"user_pool", i>>)) <= 1
    BY DEF UserFramesExclusive
  <2>. DEFINE U == Uses(<<"user_pool", i>>)
  <2>1. \A x \in U : x \in Spaces \X Pages /\ pt[x[1]][x[2]] = <<"user_pool", i>>
    <3>1. ASSUME NEW x \in Procs \X Tables, table[x[1]][x[2]] = <<"user_pool", i>>
          PROVE  FALSE
      <4>1. table[x[1]][x[2]] # NoFrame /\ table[x[1]][x[2]][1] = "user_pool"
        BY <3>1 DEF NoFrame
      <4>. QED  BY <4>1 DEF IInv, Origins
    <3>. QED  BY <3>1 DEF Uses
  <2>2. \A x, y \in U : x = y
    BY <2>1 DEF IInv, MappedOnce
  <2>. HIDE DEF U
  <2>3. U = {} => Cardinality(U) = 0
    BY FS_EmptySet
  <2>4. ASSUME U # {}
        PROVE  Cardinality(U) = 1
    <3>1. PICK x : U = {x}
      BY <2>2, <2>4
    <3>. QED  BY <3>1, FS_Singleton
  <2>5. Cardinality(U) <= 1
    BY <2>3, <2>4
  <2>. QED  BY <2>5 DEF U
<1>. QED  BY <1>1, Invariant, PTL

\* Two runs that sys_malloc gave never overlap: page_table_add's test and its
\* write of an entry are steps of their own, but no second sys_malloc of the
\* space comes between them, and a page of a run that is kept is mapped.
THEOREM RunsApart == Spec => []RunsDisjoint
<1>1. IInv => RunsDisjoint
  <2>. SUFFICES ASSUME IInv, NEW t \in Threads, NEW u \in Threads,
                       AddressMap(t) = AddressMap(u), NEW r \in owned[t], NEW q \in owned[u],
                       <<t, r>> # <<u, q>>, r[3] = "sys_malloc", q[3] = "sys_malloc"
                PROVE  Run(r) \cap Run(q) = {}
    BY DEF RunsDisjoint, Run
  <2>1. r \in Kept(t) /\ q \in Kept(u)
    BY DEF Kept
  <2>. QED  BY <2>1 DEF IInv, RunInv
<1>. QED  BY <1>1, Invariant, PTL

\* A pool's lock is held only inside a call that is going to release it.
THEOREM LocksComeBack == Spec => []LockGivenBack
<1>1. IInv => LockGivenBack
  BY DEF IInv, LockInv, Locked, LockGivenBack, Inner, Paged, Marking, Mapping, Tabling, Freeing
<1>. QED  BY <1>1, Invariant, PTL
=============================================================================
