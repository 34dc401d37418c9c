----------------------------- MODULE MCRepBatch -----------------------------
(* Instances of RepBatch for TLC. *)
EXTENDS RepBatch

EqualSizes == [n \in NsCtx |-> 2]
=============================================================================
