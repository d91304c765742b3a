------------------------------ MODULE MCProcess ------------------------------
(* Process with main, idle and two more pages for PCBs, each of which may  *)
(* become a kernel thread or a process.  t1's slice lasts one tick longer. *)
EXTENDS Process, Frames, TLC

CONSTANTS t1, t2

MCPriority == [t \in Threads |-> IF t = t1 THEN 1 ELSE 0]
=============================================================================
