--------------------------------- MODULE List --------------------------------
(***************************************************************************)
(* lib/kernel/list.c: doubly linked lists between two sentinels.  insert   *)
(* and remove mask interrupts; push and pop read head.next before they do, *)
(* so their callers hold a lock of the list's (the pool's lock for a       *)
(* free_list; thread.c masks interrupts, which excludes others as a lock   *)
(* does).  append needs none.  find masks nothing and locks nothing: in    *)
(* thread_start it walks a list that others change under it.               *)
(***************************************************************************)
EXTENDS Integers, Sequences, FiniteSets

CONSTANTS Callers,      \* threads
          Lists, Elements,
          NULL,
          Many          \* no list

VARIABLES next, prev,   \* the links of elements and sentinels
          owner, taken, \* each list's lock
          pc,           \* where a client stands in list.c
          on,           \* the list it works on
          elem,         \* the element it was given
          spot,         \* head.next as it read it, or ptr in find
          user,         \* user[e]: who has e while it is on no list
          home          \* home[e]: the one list e has been on, Many for several

links == <<next, prev>>
locks == <<owner, taken>>
regs == <<pc, on, elem, spot>>
listVars == <<links, locks, regs, user, home>>

Sentinels == Lists \X {"head", "tail"}
Nodes == Elements \cup Sentinels
head(l) == <<l, "head">>
tail(l) == <<l, "tail">>

ASSUME ListAssumption ==
    /\ IsFiniteSet(Elements) /\ Elements \cap Sentinels = {}
    /\ NULL \notin Callers \cup Lists \cup Nodes
    /\ Many \notin Lists \cup {NULL}

Lock == INSTANCE AbstractLock WITH Threads <- Callers, Locks <- Lists, None <- NULL

\* list_init for every list; no element has been on one.
ListInit ==
    /\ next = [n \in Nodes |-> IF n \in Elements \/ n[2] = "tail" THEN NULL ELSE tail(n[1])]
    /\ prev = [n \in Nodes |-> IF n \in Elements \/ n[2] = "head" THEN NULL ELSE head(n[1])]
    /\ Lock!Init
    /\ pc = [c \in Callers |-> "out"]
    /\ on = [c \in Callers |-> NULL]
    /\ elem = [c \in Callers |-> NULL] /\ spot = [c \in Callers |-> NULL]
    /\ user \in [Elements -> Callers]
    /\ home = [e \in Elements |-> NULL]

-----------------------------------------------------------------------------
At(c, label) == pc[c] = label

Goto(c, label) == pc' = [pc EXCEPT ![c] = label]

\* The end of an operation: the registers hold nothing any more.
Return(c, l, label) ==
    /\ Goto(c, label) /\ on' = [on EXCEPT ![c] = l]
    /\ elem' = [elem EXCEPT ![c] = NULL] /\ spot' = [spot EXCEPT ![c] = NULL]

\* insert(before, e), with interrupts masked.
insert(before, e) ==
    /\ next' = [next EXCEPT ![e] = before, ![prev[before]] = e]
    /\ prev' = [prev EXCEPT ![e] = prev[before], ![before] = e]

\* Mutant: the links of the element itself are cleared.
removeClearing(e) ==
    /\ next' = [next EXCEPT ![prev[e]] = next[e], ![e] = NULL]
    /\ prev' = [prev EXCEPT ![next[e]] = prev[e], ![e] = NULL]

\* remove(e), with interrupts masked; e keeps its own links.
remove(e) ==
    /\ next' = [next EXCEPT ![prev[e]] = next[e]]
    /\ prev' = [prev EXCEPT ![next[e]] = prev[e]]

Given(c, l, e) ==
    /\ user' = [user EXCEPT ![e] = NULL]
    /\ home' = [home EXCEPT ![e] = IF @ \in {NULL, l} THEN l ELSE Many]

Taken(c, e) == user' = [user EXCEPT ![e] = c] /\ UNCHANGED home

-----------------------------------------------------------------------------
(* The caller's lock *)

\* Mutant: the caller takes no lock.
AcquireNothing(c, l) ==
    /\ At(c, "out") /\ UNCHANGED locks
    /\ Goto(c, "locked") /\ on' = [on EXCEPT ![c] = l]
    /\ UNCHANGED <<links, elem, spot, user, home>>

Acquire(c, l) ==
    /\ At(c, "out") /\ Lock!Acquire(c, l)
    /\ Goto(c, "locked") /\ on' = [on EXCEPT ![c] = l]
    /\ UNCHANGED <<links, elem, spot, user, home>>

Release(c) ==
    /\ At(c, "release") /\ Lock!Release(c, on[c])
    /\ Return(c, NULL, "out")
    /\ UNCHANGED <<links, user, home>>

-----------------------------------------------------------------------------
(* The operations *)

\* The k-th node of list l when s is on it.
Place(l, s, k) == IF k = 0 THEN head(l) ELSE IF k = Len(s) + 1 THEN tail(l) ELSE s[k]

\* The sequence that the forward links nx spell from head to tail.
Spells(nx, l, s) == \A k \in 0 .. Len(s) : nx[Place(l, s, k)] = Place(l, s, k + 1)
Orders == UNION {[1 .. n -> Elements] : n \in 0 .. Cardinality(Elements)}
Along(nx, l) ==
    IF \E s \in Orders : Spells(nx, l, s)
    THEN CHOOSE s \in Orders : Spells(nx, l, s) ELSE <<NULL>>

Spelled(l) == Along(next, l)

empty(l) == next[head(l)] = tail(l)

\* push evaluates its argument, and pop its result, before interrupts are
\* masked.
ReadHead(c, label) ==
    /\ At(c, "locked")
    /\ spot' = [spot EXCEPT ![c] = next[head(on[c])]]
    /\ Goto(c, label) /\ UNCHANGED <<links, locks, on, user, home>>

PushRead(c, e) ==
    /\ user[e] = c /\ elem' = [elem EXCEPT ![c] = e]
    /\ ReadHead(c, "push")

push(c) ==
    /\ At(c, "push")
    /\ insert(spot[c], elem[c]) /\ Given(c, on[c], elem[c])
    /\ Return(c, on[c], "release") /\ UNCHANGED locks

\* The caller has found the list not empty (sys_malloc, schedule, sema_up).
PopRead(c) ==
    /\ At(c, "locked") /\ ~empty(on[c])
    /\ ReadHead(c, "pop") /\ UNCHANGED elem

\* pop unlinks what head.next is now, and returns what it was.
pop(c) ==
    /\ At(c, "pop")
    /\ remove(next[head(on[c])]) /\ Taken(c, spot[c])
    /\ Return(c, on[c], "release") /\ UNCHANGED locks

\* append's place is the sentinel, which never moves: no lock is needed.
append(c, l, e) ==
    /\ pc[c] \in {"out", "absent"} /\ user[e] = c
    /\ At(c, "absent") => l = on[c] /\ e = elem[c]
    /\ insert(tail(l), e) /\ Given(c, l, e)
    /\ Return(c, NULL, "out") /\ UNCHANGED locks

\* sys_free takes the blocks of an empty arena out of the middle.
Remove(c, e) ==
    /\ At(c, "locked") /\ \E k \in DOMAIN Spelled(on[c]) : Spelled(on[c])[k] = e
    /\ remove(e) /\ Taken(c, e)
    /\ Return(c, on[c], "release") /\ UNCHANGED locks

\* find(l, e), as thread_start asks it of the tag in a new PCB.
FindStart(c, l, e) ==
    /\ At(c, "out") /\ user[e] = c /\ home[e] = NULL
    /\ on' = [on EXCEPT ![c] = l] /\ elem' = [elem EXCEPT ![c] = e]
    /\ spot' = [spot EXCEPT ![c] = next[head(l)]]
    /\ Goto(c, "find") /\ UNCHANGED <<links, locks, user, home>>

\* One turn of its loop.  A walk that leaves the list's elements ends at some
\* other sentinel, behind which there is nothing.
find(c) ==
    /\ At(c, "find")
    /\ \/ spot[c] = tail(on[c]) /\ Goto(c, "absent") /\ UNCHANGED spot
       \/ spot[c] = elem[c] /\ Goto(c, "present") /\ UNCHANGED spot
       \/ spot[c] = NULL /\ Goto(c, "astray") /\ UNCHANGED spot
       \/ /\ spot[c] \notin {tail(on[c]), elem[c], NULL}
          /\ spot' = [spot EXCEPT ![c] = next[spot[c]]] /\ UNCHANGED pc
    /\ UNCHANGED <<links, locks, on, elem, user, home>>

ListNext ==
    \E c \in Callers :
        \/ \E l \in Lists : Acquire(c, l)
        \/ Release(c) \/ PopRead(c) \/ pop(c) \/ push(c) \/ find(c)
        \/ \E e \in Elements :
            \/ PushRead(c, e) \/ Remove(c, e)
            \/ \E l \in Lists : append(c, l, e) \/ FindStart(c, l, e)

ListSpec == ListInit /\ [][ListNext]_listVars

-----------------------------------------------------------------------------
(* Correctness *)

Abstract == INSTANCE AbstractList WITH Clients <- Callers, None <- NULL,
                                         contents <- [l \in Lists |-> Spelled(l)]

\* Through interleaved pushes, pops, appends and removals of several threads
\* each list stays the sequence it should be, and no element is lost, linked
\* twice or popped twice: list.c, with its callers' locks, implements lists.
ImplementsList == Abstract!Spec

\* thread_start's and schedule's ASSERT(!find(...)), of an element that is on
\* no list, neither fails nor wanders, however the list changes while it is
\* walked: remove leaves the element's own links alone, so that a walk that
\* stands on it finds its way back.  It runs off the list only when an element
\* has moved to another one, as general_tag does between ready and waiter
\* lists.
FindRight ==
    \A c \in Callers :
        /\ ~At(c, "present")
        /\ At(c, "astray") => \E e \in Elements : home[e] = Many
=============================================================================
