------------------------------ MODULE MCStages ------------------------------
(* Small instances of Stages for TLC. *)
EXTENDS Stages

Small == [ROB |-> 4, IQ |-> 3, LQ |-> 2, SQ |-> 1]
Large == [ROB |-> 8, IQ |-> 4, LQ |-> 2, SQ |-> 2]
Alus(n) == [k \in 1..n |-> "alu"]
Setup(p, e, n, d) == [program |-> p, entries |-> e, squashes |-> n, delays |-> d]

\* Two programs with serializing and non-speculative instructions, small queues, two
\* squashes and two delays; and a ROB that squashes for longer than an instruction takes
\* from fetch to the ROB, without delays.
MCSetups ==
    {Setup(<<"load", "alu", "alu", "before", "store", "after", "load", "alu">>, Small, 2, 2),
     Setup(<<"store", "nonspec", "after", "before", "alu", "store", "nonspec", "alu">>,
           Small, 2, 2),
     Setup(<<"store", "load">> \o Alus(12) \o <<"load", "after", "alu">>, Large, 1, 0)}
=============================================================================
