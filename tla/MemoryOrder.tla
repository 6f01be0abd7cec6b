---------------------------- MODULE MemoryOrder ----------------------------
(***************************************************************************)
(* What the load/store queue promises: the memory a hardware thread and    *)
(* its remote writers see.                                                 *)
(*                                                                         *)
(* The memory is the log of the writes made to it.  Accesses are committed *)
(* in program order; a committed store is written to the log later.  A     *)
(* load takes place at a position of the log: it reads its own thread's    *)
(* older stores that are not in the log before that position, and the log  *)
(* otherwise.  With total store order the positions of loads never go      *)
(* back and stores are written in order; without it, this holds of the     *)
(* accesses to one byte, or stores to one line.                            *)
(***************************************************************************)
EXTENDS Integers, Sequences, FiniteSetsExt

CONSTANTS
    N,            \* bound: accesses of the thread
    Bytes,        \* memory
    LineSize,     \* bytes of a cache line
    Programs,     \* what the thread may do: sequences of at most N accesses
    RemoteWrites  \* bound: writes of other agents

VARIABLES
    tso, prog,    \* fixed by Init
    retired,      \* accesses committed so far
    log,          \* writes to memory, oldest first
    at,           \* for each byte, the position of the last load of it
    res           \* what each committed load has read

Ops == DOMAIN prog
Line(b) == b \div LineSize
LinesOf(i) == {Line(b) : b \in prog[i].bytes}
Part(i, line) == {b \in prog[i].bytes : Line(b) = line}
IsLoad(i) == prog[i].kind = "load"
IsStore(i) == prog[i].kind = "store"

\* Store s of the thread, or the part of it that contains byte b, is in the log up to k.
Written(s, b, k) == \E j \in 1..k : log[j].op = s /\ b \in log[j].bytes
\* The write byte b holds after the first k writes; 0 is its initial value.
Memory(b, k) ==
    LET W == {j \in 1..k : b \in log[j].bytes} IN IF W = {} THEN 0 ELSE log[Max(W)].op
\* What load l reads at position k.
View(l, b, k) ==
    LET own == {s \in 1..(l-1) : IsStore(s) /\ b \in prog[s].bytes /\ ~Written(s, b, k)}
    IN  IF own # {} THEN Max(own) ELSE Memory(b, k)
\* The first position at which the next load of byte b may take place.
Earliest(b) == IF tso THEN Max({at[c] : c \in Bytes}) ELSE at[b]

Init ==
    /\ tso \in BOOLEAN /\ prog \in Programs
    /\ retired = 0 /\ log = << >>
    /\ at = [b \in Bytes |-> 0]
    /\ res = [i \in Ops |-> << >>]

\* A load takes place; a line crossed by it is read on its own.
CommitLoad(l) ==
    /\ l = retired + 1 /\ IsLoad(l)
    /\ \E pos \in [LinesOf(l) -> 0..Len(log)] :
          /\ \A b \in prog[l].bytes : pos[Line(b)] >= Earliest(b)
          /\ res' = [res EXCEPT ![l] = [b \in prog[l].bytes |-> View(l, b, pos[Line(b)])]]
          /\ at' = [b \in Bytes |-> IF b \in prog[l].bytes THEN pos[Line(b)] ELSE at[b]]
    /\ retired' = l
    /\ UNCHANGED <<tso, prog, log>>

CommitStore(s) ==
    /\ s = retired + 1 /\ IsStore(s)
    /\ retired' = s
    /\ UNCHANGED <<tso, prog, log, at, res>>

\* The part of a committed store in one line is written.
Write(s, line) ==
    LET written(o, c) == \A b \in Part(o, c) : Written(o, b, Len(log)) IN
    /\ s <= retired /\ IsStore(s) /\ line \in LinesOf(s) /\ ~written(s, line)
    /\ \A o \in 1..(s-1) : IsStore(o) =>
          \A c \in LinesOf(o) : (tso \/ c = line) => written(o, c)
    /\ log' = Append(log, [op |-> s, bytes |-> Part(s, line)])
    /\ UNCHANGED <<tso, prog, retired, at, res>>

Remote == Cardinality({j \in DOMAIN log : log[j].op < 0})
RemoteWrite(b) ==
    /\ Remote < RemoteWrites
    /\ log' = Append(log, [op |-> -(Remote + 1), bytes |-> {b}])
    /\ UNCHANGED <<tso, prog, retired, at, res>>

Next ==
    \/ \E i \in Ops : CommitLoad(i) \/ CommitStore(i) \/ \E line \in LinesOf(i) : Write(i, line)
    \/ \E b \in Bytes : RemoteWrite(b)

Spec == Init /\ [][Next]_<<tso, prog, retired, log, at, res>>
=============================================================================
