--------------------------- MODULE WritebackPorts ---------------------------
(***************************************************************************)
(* The writeback ports: IEW::instToCommit() puts each instruction that has *)
(* finished into a slot of iewQueue, in this cycle or a later one, and an  *)
(* older instruction may take the slot of a younger restricted one.        *)
(*                                                                         *)
(* Slot p of slots is insts[p % Width] of the row p \div Width cycles      *)
(* ahead; 0 is an empty slot.  An instruction is its sequence number.      *)
(***************************************************************************)
EXTENDS Integers, FiniteSets, FiniteSetsExt

CONSTANTS
    Width,    \* wbWidth
    Rows,     \* rows of the time buffer from this cycle on
    Insts,    \* instructions that finish in a behaviour
    Thread,   \* thread of each instruction
    STT       \* TRUE in STT mode

ASSUME PortsAssumption ==
    /\ Width \in Nat \ {0} /\ Rows \in Nat \ {0}
    /\ Insts \subseteq Nat \ {0} /\ IsFiniteSet(Insts)
    /\ Cardinality(Insts) <= Width * (Rows - 1) /\ STT \in BOOLEAN

VARIABLES
    phase,              \* "execute": in executeInsts(); "events": between two ticks
    slots,              \* iewQueue
    wbCycle, wbNumInst, \* where the search for a slot begins
    restricted,         \* instructions that are restricted
    finished,           \* instructions that were given to instToCommit()
    woken, sent         \* bags of those written back, and of those sent to commit

vars == <<phase, slots, wbCycle, wbNumInst, restricted, finished, woken, sent>>

Slots == 0..(Width * Rows - 1)

Init ==
    /\ phase = "events"
    /\ slots = [p \in Slots |-> 0]
    /\ wbCycle = 0 /\ wbNumInst = 0
    /\ restricted \in SUBSET Insts
    /\ finished = {}
    /\ woken = [i \in Insts |-> 0] /\ sent = [i \in Insts |-> 0]

\* IEW::tick() and executeInsts() begin.
StartTick ==
    /\ phase = "events"
    /\ phase' = "execute"
    /\ wbCycle' = 0 /\ wbNumInst' = 0
    /\ UNCHANGED <<slots, restricted, finished, woken, sent>>

-----------------------------------------------------------------------------
\* The slots at which the search begins, and the free one at which it ends.
Begin == wbCycle * Width + wbNumInst
FreeSlot == Min({p \in Slots : p >= Begin /\ slots[p] = 0})

\* The state of the search: the slots, the instruction to insert, the last unsafe
\* contender of a row (-1: none), and whether it is to be replaced.
Search(i) == [slots |-> slots, inst |-> i, idx |-> -1, contention |-> FALSE]

\* Mutant: the contender is overwritten.
MutantSwap(s, p) ==
    IF ~s.contention THEN s
    ELSE LET c == (p \div Width - 1) * Width + s.idx
         IN  [s EXCEPT !.slots[c] = s.inst, !.contention = FALSE]
\* At slot p, the instruction takes the place of the contender in the row before.
Swap(s, p) ==
    IF ~s.contention THEN s
    ELSE LET c == (p \div Width - 1) * Width + s.idx
         IN  [s EXCEPT !.slots[c] = s.inst, !.inst = s.slots[c], !.contention = FALSE]

\* Instruction o, in a slot, is a younger unsafe one of the same thread.
Contends(o, i) == Thread[o] = Thread[i] /\ o \in restricted /\ ~STT /\ o > i

\* The loop body at an occupied slot p.
Step(s, p) ==
    LET t == Swap(s, p)
        idx == IF Contends(t.slots[p], t.inst) THEN p % Width ELSE t.idx
    IN  [t EXCEPT !.idx = idx,
                  !.contention = t.contention \/ ((p + 1) % Width = 0 /\ idx # -1)]

\* The loop over the occupied slots; at[p] is the state when it comes to slot p.
SearchEnd(i) ==
    LET at[p \in Begin..FreeSlot] == IF p = Begin THEN Search(i) ELSE Step(at[p - 1], p - 1)
    IN  at[FreeSlot]
\* instToCommit(), from executeInsts() or from a writeback event.
InstToCommit(i) ==
    /\ i \notin finished
    /\ slots' = [SearchEnd(i).slots EXCEPT ![FreeSlot] = SearchEnd(i).inst]
    /\ wbCycle' = FreeSlot \div Width /\ wbNumInst' = FreeSlot % Width
    /\ finished' = finished \cup {i}
    /\ UNCHANGED <<phase, restricted, woken, sent>>
-----------------------------------------------------------------------------
Row(r) == {p \in Slots : p \div Width = r}
\* writebackInsts() stops at the first empty slot.
WrittenBack == {slots[p] : p \in {q \in Row(0) : \A o \in 0..q : slots[o] # 0}}
\* What commit finds: as many instructions as were put into the row.
Sent == {slots[p] : p \in Row(0)} \ {0}
CountIn(bag, S) == [i \in Insts |-> bag[i] + (IF i \in S THEN 1 ELSE 0)]

\* Mutant: the next slot is kept for the writeback events.
MutantWbNumInst == wbNumInst
\* executeInsts() resets wbNumInst, but not wbCycle, for the writeback events.
ResetWbNumInst == 0

\* The rest of the tick: executeInsts() ends, some restrictions end, the first row is
\* written back and sent to commit, and iewQueue advances.
EndTick ==
    /\ phase = "execute"
    /\ phase' = "events"
    /\ wbNumInst' = ResetWbNumInst
    /\ \E R \in SUBSET restricted : restricted' = R
    /\ woken' = CountIn(woken, WrittenBack) /\ sent' = CountIn(sent, Sent)
    /\ slots' = [p \in Slots |-> IF p + Width \in Slots THEN slots[p + Width] ELSE 0]
    /\ UNCHANGED <<wbCycle, finished>>

Next == StartTick \/ EndTick \/ \E i \in Insts : InstToCommit(i)
Spec == Init /\ [][Next]_vars
-----------------------------------------------------------------------------
\* However often instToCommit() swaps, every instruction that finished is in one
\* slot, or was sent to commit once; no swap loses or duplicates one.
EachOnce ==
    \A i \in Insts :
        sent[i] + Cardinality({p \in Slots : slots[p] = i}) = IF i \in finished THEN 1 ELSE 0

\* What is sent to commit has woken its dependents: a row has no empty slot before
\* an instruction, also when writeback events put it there between two ticks.
SentWereWoken == woken = sent
=============================================================================
