-------------------------- MODULE MCWritebackPorts --------------------------
(* Small instances of WritebackPorts for TLC. *)
EXTENDS WritebackPorts

\* The third instruction belongs to another thread.
ThirdApart == [i \in Insts |-> IF i = 3 THEN "u" ELSE "t"]
=============================================================================
