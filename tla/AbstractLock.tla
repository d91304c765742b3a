---------------------------- MODULE AbstractLock ----------------------------
(***************************************************************************)
(* What struct lock of thread/sync.h promises its callers: at most one     *)
(* owner at a time, who may take the lock again and has it until he has    *)
(* given it back as often as he took it.  Nothing is promised about who    *)
(* gets a free lock next.                                                  *)
(***************************************************************************)
EXTENDS Naturals

CONSTANTS Threads, Locks, None

VARIABLES owner,        \* owner[l]: who has the lock, or None
          taken         \* taken[t][l]: how often t has it

lockVars == <<owner, taken>>

Init ==
    /\ owner = [l \in Locks |-> None]
    /\ taken = [t \in Threads |-> [l \in Locks |-> 0]]

Acquire(t, l) ==
    /\ owner[l] = None
    /\ owner' = [owner EXCEPT ![l] = t]
    /\ taken' = [taken EXCEPT ![t][l] = 1]

Reenter(t, l) ==
    /\ owner[l] = t
    /\ taken' = [taken EXCEPT ![t][l] = @ + 1]
    /\ UNCHANGED owner

Leave(t, l) ==
    /\ owner[l] = t /\ taken[t][l] > 1
    /\ taken' = [taken EXCEPT ![t][l] = @ - 1]
    /\ UNCHANGED owner

Release(t, l) ==
    /\ owner[l] = t /\ taken[t][l] = 1
    /\ owner' = [owner EXCEPT ![l] = None]
    /\ taken' = [taken EXCEPT ![t][l] = 0]

Next ==
    \E t \in Threads, l \in Locks :
        Acquire(t, l) \/ Reenter(t, l) \/ Leave(t, l) \/ Release(t, l)

Spec == Init /\ [][Next]_lockVars
=============================================================================
