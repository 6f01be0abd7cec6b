--------------------------- MODULE MCRenameRegs ---------------------------
(* A small instance of RenameRegs for TLC. *)
EXTENDS RenameRegs, TLC

\* The constructor of the CPU takes the registers in order.
OneThread == ("t" :> [a \in ArchRegs |-> a])
============================================================================
