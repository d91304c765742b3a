------------------------------ MODULE MCThread ------------------------------
(* Thread on a machine with main, idle and two more pages for PCBs.        *)
EXTENDS Thread, TLC

CONSTANTS t1, t2

\* main loses the CPU at every tick, t1 lasts one tick longer.
MCPriority == [t \in Threads |-> IF t = t1 THEN 1 ELSE 0]
=============================================================================
