------------------------------- MODULE MCSync -------------------------------
(* Sync with one lock and three threads that use it; every tick ends a     *)
(* slice, so a thread can lose the CPU between any two steps.              *)
EXTENDS Sync

CONSTANTS t1, t2, plock

MCWorkers == <<t1, t2>>
MCPriority == [t \in Threads |-> 0]
=============================================================================
