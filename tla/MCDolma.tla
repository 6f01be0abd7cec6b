------------------------------ MODULE MCDolma ------------------------------
(* Small instances of Dolma for TLC. *)
EXTENDS Dolma

\* All configurations; three modes without STT; the default mode.
AllConfigs == [mode: 1..4, stt: BOOLEAN]
UseConfigs == {[mode |-> m, stt |-> FALSE] : m \in {1, 3, 4}}
Default == {[mode |-> 1, stt |-> FALSE]}
DefaultAndSTT == {[mode |-> 1, stt |-> b] : b \in BOOLEAN}

\* Instruction types of the given kinds with at most max sources, all in D.
\* Stores write address 0; only branches and jumps are mispredicted.
Types(kinds, D, max) ==
    {t \in [kind: kinds, srcs: {S \in SUBSET D : Cardinality(S) <= max},
            addr: Addrs, bad: BOOLEAN] :
        /\ t.bad => t.kind \in {"branch", "jump"}
        /\ t.kind # "load" => t.addr = 0}
Plain(kinds) == Types(kinds, {}, 0)
Uses(kinds, s) == {t \in Types(kinds, {s}, 1) : s \in t.srcs /\ t.addr = 0}
At(a, T) == {t \in T : t.addr \in a}

\* The instruction streams whose i-th instruction is of one of the types T[i].
Streams(T) == {p \in [Insts -> UNION {T[i] : i \in Insts}] : \A i \in Insts : p[i] \in T[i]}

\* Every program of N branches, loads and stores that use at most one loaded
\* value each; the last one is no store, for nothing younger could collide with it,
\* and the first one no load, for it has nothing to pass.
AllPrograms ==
    {p \in Streams([i \in Insts |-> Types(IF i = N THEN {"branch", "load"}
                                          ELSE {"branch", "load", "store"}, 1..(i-1), 1)]) :
        /\ p[1].kind # "load"
        /\ \A i \in Insts : \A s \in p[i].srcs : p[s].kind = "load"}

\* A branch, a store and a load, the value loaded used by a load or a branch; a
\* store, a load, and a chain of two uses of the value loaded; two stores, a load
\* of any address, and a load of the neighbour of the stores' address.
UsePrograms ==
    LET load == Plain({"load"}) store == Plain({"store"}) IN
    Streams(<<Plain({"branch"}), store, At({0, 2}, load), Uses({"branch", "load"}, 3)>>)
    \cup Streams(<<store, At({0, 2}, load), Uses({"alu", "jump"}, 2), Uses({"load"}, 3)>>)
    \cup Streams(<<store, store, load, At({1}, load)>>)

\* store; branch or load; a load that may use the loaded value.
ShortPrograms ==
    Streams(<<Plain({"store"}), Plain({"branch", "load"}), Types({"load"}, {2}, 1)>>)

\* store; branch; load; branch: the store collides with the load while the
\* first branch is unresolved.
LostRedirectPrograms ==
    Streams(<<Plain({"store"}), Plain({"branch"}), Plain({"load"}), Plain({"branch"})>>)
=============================================================================
