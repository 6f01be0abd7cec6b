--------------------------- MODULE MCFUContention ---------------------------
(* Small instances of FUContention for TLC. *)
EXTENDS FUContention, TLC

\* A divider that is not pipelined, a pipelined multiplier, and loads.
MulDivLoad == ("mul" :> 2) @@ ("div" :> 3) @@ ("load" :> 1)
\* Outside STT mode, every instruction but the oldest is a division.
Evicting == {[stt |-> FALSE, op |-> p] :
                p \in {q \in [Insts -> Ops \ Loads] : \A i \in 2..N : q[i] = "div"}}
\* In STT mode, loads are mixed with other operations.
Stalling == {[stt |-> TRUE, op |-> p] :
                p \in {<<"load", "mul", "div">>, <<"load", "load", "div">>,
                       <<"div", "load", "mul">>, <<"div", "div", "mul">>}}
EvictingOrStalling == Evicting \cup Stalling
=============================================================================
