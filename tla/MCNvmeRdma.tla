----------------------------- MODULE MCNvmeRdma -----------------------------
(* Instances of NvmeRdma for TLC. *)
EXTENDS NvmeRdma

\* Every request can be mapped to memory.
NoRequest == {}
=============================================================================
