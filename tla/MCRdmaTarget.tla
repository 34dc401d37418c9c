----------------------------- MODULE MCRdmaTarget -----------------------------
(* RdmaTarget with the commands a host sends. *)
EXTENDS RdmaTarget

\* Writes and reads through a keyed descriptor, a write in the capsule, a flush, a command
\* with an invalid descriptor and one with an invalid direction.
OneTransfer == {[xfer |-> "h2c", sgl |-> "keyed", wr |-> 1],
                [xfer |-> "c2h", sgl |-> "keyed", wr |-> 2],
                [xfer |-> "h2c", sgl |-> "capsule", wr |-> 0],
                [xfer |-> "none", sgl |-> "keyed", wr |-> 0],
                [xfer |-> "h2c", sgl |-> "bad", wr |-> 0],
                [xfer |-> "bidir", sgl |-> "keyed", wr |-> 0]}

\* A write whose data is scattered over two descriptors.
Scattered == {[xfer |-> "h2c", sgl |-> "keyed", wr |-> 2]}
=============================================================================
