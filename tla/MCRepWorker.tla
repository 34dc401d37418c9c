----------------------------- MODULE MCRepWorker -----------------------------
(* Instances of RepWorker for TLC. *)
EXTENDS RepWorker

\* Namespaces of one size, and namespaces of which the main one is the largest.
EqualSizes == [n \in NsCtx |-> 2]

MainLargest == [n \in NsCtx |-> IF n = 1 THEN 3 ELSE 2]
==============================================================================
