----------------------------- MODULE RenameRegs -----------------------------
(***************************************************************************)
(* Physical registers of one register class: the rename map, the free      *)
(* list, the history buffer of the rename stage, the rename map of commit  *)
(* and the scoreboard, for the hardware threads that share the registers.  *)
(*                                                                         *)
(* A cycle runs through the phases rename -> iew -> commit.  What commit   *)
(* tells rename (commitInfo: doneSeqNum and squash) arrives in the next    *)
(* cycle.  The free list is a set: which free register getReg() returns is *)
(* left open.  The history buffer is a set of entries, ordered by their    *)
(* sequence numbers.  A thread renames at most one instruction per cycle.  *)
(***************************************************************************)
EXTENDS Integers, FiniteSets, FiniteSetsExt

CONSTANTS
    Threads,
    ArchRegs,   \* architectural registers of the class
    ZeroReg,    \* the one that always reads zero
    PhysRegs,
    InitMap,    \* the mapping the constructor of the CPU sets up
    MaxSeq,     \* bound: instructions of a behaviour
    MaxSrcs, MaxDests   \* bounds: operands of an instruction

Renamed == ArchRegs \ {ZeroReg}

ASSUME RegsAssumption ==
    /\ MaxSeq \in Nat /\ MaxSrcs \in Nat /\ MaxDests \in Nat
    /\ InitMap \in [Threads -> [ArchRegs -> PhysRegs]]
    \* The threads share the zero register and nothing else.
    /\ \A t, u \in Threads : \A a, b \in ArchRegs :
          (InitMap[t][a] = InitMap[u][b]) <=> (a = b /\ (t = u \/ a = ZeroReg))

VARIABLES
    phase, todo,   \* todo: threads rename has still to handle in this cycle
    map,           \* rename map of each thread
    commitMap,     \* rename map of each thread in the commit stage
    free,          \* free list
    history,       \* history buffer of each thread
    ready,         \* scoreboard: registers whose value is available
    insts,         \* renamed instructions of each thread, not committed or squashed
    late,          \* destinations of squashed instructions still to be written back
    done,          \* sequence number of the last committed instruction
    msg,           \* commitInfo, from commit to rename
    nextSeq

vars == <<phase, todo, map, commitMap, free, history, ready, insts, late, done, msg, nextSeq>>

\* The registers of operands f.
Regs(f) == {f[a] : a \in DOMAIN f}

NoMsg == [done |-> 0, squash |-> FALSE]
Operands == UNION {[A -> PhysRegs] : A \in SUBSET ArchRegs}
InstType == [seq: 1..MaxSeq, srcs: Operands, dests: Operands, wb: BOOLEAN]
Entries == [seq: 1..MaxSeq, arch: ArchRegs, new: PhysRegs, prev: PhysRegs]

Init ==
    /\ phase = "rename" /\ todo = Threads
    /\ map = InitMap /\ commitMap = InitMap
    /\ free = PhysRegs \ {InitMap[t][a] : t \in Threads, a \in ArchRegs}
    /\ history = [t \in Threads |-> {}]
    /\ ready = PhysRegs \ free
    /\ insts = [t \in Threads |-> {}] /\ late = {}
    /\ done = [t \in Threads |-> 0]
    /\ msg = [t \in Threads |-> NoMsg]
    /\ nextSeq = 1

-----------------------------------------------------------------------------
(***************************************************************************)
(* The rename stage.                                                       *)
(***************************************************************************)

\* SimpleRenameMap::rename(): the destinations D get registers reg, a free one
\* each; the zero register keeps its own.
Allocates(t, D, reg) ==
    /\ \A a \in D : reg[a] \in (IF a = ZeroReg THEN {map[t][a]} ELSE free)
    /\ \A a, b \in D : reg[a] = reg[b] => a = b

\* renameInsts() for one instruction of thread t with sources S and destinations
\* D.  checkStall() and canRename() ask for enough free registers.
RenameInst(t, S, D) ==
    /\ phase = "rename" /\ t \in todo /\ ~msg[t].squash /\ nextSeq <= MaxSeq
    /\ free # {} /\ Cardinality(D) <= Cardinality(free)
    /\ \E reg \in [D -> PhysRegs] :
        /\ Allocates(t, D, reg)
        /\ map' = [map EXCEPT ![t] = [a \in ArchRegs |-> IF a \in D THEN reg[a] ELSE @[a]]]
        /\ free' = free \ {reg[a] : a \in D}
        /\ ready' = ready \ {reg[a] : a \in D \ {ZeroReg}}
        /\ history' = [history EXCEPT ![t] = @ \cup
              {[seq |-> nextSeq, arch |-> a, new |-> reg[a], prev |-> map[t][a]] : a \in D}]
        /\ insts' = [insts EXCEPT ![t] = @ \cup
              {[seq |-> nextSeq, srcs |-> [a \in S |-> map[t][a]], dests |-> reg, wb |-> FALSE]}]
    /\ nextSeq' = nextSeq + 1
    /\ todo' = todo \ {t}
    /\ UNCHANGED <<phase, commitMap, late, done, msg>>

\* Nothing comes from decode, or rename stalls.
RenameNothing(t) ==
    /\ phase = "rename" /\ t \in todo /\ ~msg[t].squash
    /\ todo' = todo \ {t}
    /\ UNCHANGED <<phase, map, commitMap, free, history, ready, insts, late, done, msg, nextSeq>>

\* Mutant: the mapping of the youngest undone instruction is restored.
MutantUndone(t, num, a) == {e \in history[t] : e.seq = nextSeq - 1 /\ e.seq > num /\ e.arch = a /\ e.new # e.prev}
\* The entries of register a that a squash down to num undoes.
Undone(t, num, a) == {e \in history[t] : e.seq > num /\ e.arch = a /\ e.new # e.prev}
Oldest(E) == CHOOSE e \in E : \A f \in E : e.seq <= f.seq
\* doSquash(): undoes the mappings from the youngest to the oldest.
DoSquash(t) ==
    /\ phase = "rename" /\ t \in todo /\ msg[t].squash
    /\ LET num == msg[t].done IN
       /\ map' = [map EXCEPT ![t] = [a \in ArchRegs |->
             IF Undone(t, num, a) = {} THEN @[a]
             ELSE Oldest(Undone(t, num, a)).prev]]
       /\ free' = free \cup UNION {{e.new : e \in Undone(t, num, a)} : a \in ArchRegs}
       /\ history' = [history EXCEPT ![t] = {e \in @ : e.seq <= num}]
    /\ todo' = todo \ {t}
    /\ UNCHANGED <<phase, commitMap, ready, insts, late, done, msg, nextSeq>>

\* Mutant: registers are freed one instruction early.
MutantCommittedEarly(t) ==
    IF msg[t].squash \/ msg[t].done = 0 THEN {} ELSE {e \in history[t] : e.seq <= msg[t].done + 1}
\* Mutant: removeFromHistory() is not called.
MutantCommitted(t) == {}
\* The entries removeFromHistory() takes out of the history buffer.
Committed(t) ==
    IF msg[t].squash THEN {} ELSE {e \in history[t] : e.seq <= msg[t].done}
\* The end of Rename::tick(): removeFromHistory() frees the registers that
\* committed instructions replaced.
EndRename ==
    /\ phase = "rename" /\ todo = {}
    /\ free' = free \cup UNION {{e.prev : e \in {f \in Committed(t) : f.new # f.prev}} : t \in Threads}
    /\ history' = [t \in Threads |-> history[t] \ Committed(t)]
    /\ msg' = [t \in Threads |-> NoMsg]
    /\ phase' = "iew"
    /\ UNCHANGED <<todo, map, commitMap, ready, insts, late, done, nextSeq>>

-----------------------------------------------------------------------------
(***************************************************************************)
(* Writeback and commit.                                                   *)
(***************************************************************************)

\* Mutant: squashed instructions wake their dependents.
MutantSetReady(R, squashed) == ready' = ready \cup R
\* writebackInsts() marks the destinations R of an instruction ready, unless it
\* is squashed.
SetReady(R, squashed) == ready' = IF squashed THEN ready ELSE ready \cup R

\* An instruction reads its operands once they are ready, executes and is
\* written back.
Writeback(t, i) ==
    /\ phase = "iew" /\ ~i.wb
    /\ Regs(i.srcs) \subseteq ready
    /\ SetReady(Regs(i.dests), FALSE)
    /\ insts' = [insts EXCEPT ![t] = (@ \ {i}) \cup
          {[seq |-> i.seq, srcs |-> i.srcs, dests |-> i.dests, wb |-> TRUE]}]
    /\ UNCHANGED <<phase, todo, map, commitMap, free, history, late, done, msg, nextSeq>>

\* A squashed instruction with destination p reaches writeback.
WritebackSquashed(p) ==
    /\ phase = "iew"
    /\ SetReady({p}, TRUE)
    /\ late' = late \ {p}
    /\ UNCHANGED <<phase, todo, map, commitMap, free, history, insts, done, msg, nextSeq>>

EndIEW ==
    /\ phase = "iew"
    /\ phase' = "commit"
    /\ UNCHANGED <<todo, map, commitMap, free, history, ready, insts, late, done, msg, nextSeq>>

\* A squash of thread t down to num: after a branch, before a load that read too
\* early, or before the instruction that traps.
CommitSquash(t, num) ==
    /\ phase = "commit" /\ msg[t] = NoMsg
    /\ msg' = [msg EXCEPT ![t] = [done |-> num, squash |-> TRUE]]
    /\ LET S == {i \in insts[t] : i.seq > num}
       IN  /\ insts' = [insts EXCEPT ![t] = @ \ S]
           /\ late' = late \cup UNION {Regs(i.dests) : i \in {j \in S : ~j.wb}}
    /\ UNCHANGED <<phase, todo, map, commitMap, free, history, ready, done, nextSeq>>

\* Mutant: only the first destination register is updated.
MutantWithDests(t, i) ==
    [a \in ArchRegs |-> IF a \in DOMAIN i.dests /\ a = Min(DOMAIN i.dests) THEN i.dests[a]
                        ELSE commitMap[t][a]]
\* The rename map of commit with the destinations of i.
WithDests(t, i) ==
    [a \in ArchRegs |-> IF a \in DOMAIN i.dests THEN i.dests[a] ELSE commitMap[t][a]]

\* commitHead(): the oldest instruction of thread t commits.
CommitHead(t) ==
    /\ phase = "commit" /\ ~msg[t].squash
    /\ \E i \in insts[t] :
        /\ i.wb /\ \A j \in insts[t] : i.seq <= j.seq
        /\ commitMap' = [commitMap EXCEPT ![t] = WithDests(t, i)]
        /\ insts' = [insts EXCEPT ![t] = @ \ {i}]
        /\ done' = [done EXCEPT ![t] = i.seq]
        /\ msg' = [msg EXCEPT ![t] = [done |-> i.seq, squash |-> FALSE]]
    /\ UNCHANGED <<phase, todo, map, free, history, ready, late, nextSeq>>

EndCommit ==
    /\ phase = "commit"
    /\ phase' = "rename" /\ todo' = Threads
    /\ UNCHANGED <<map, commitMap, free, history, ready, insts, late, done, msg, nextSeq>>

\* Sequence numbers a squash may go back to.
SquashTargets(t) == {done[t]} \cup {i.seq : i \in insts[t]} \cup {i.seq - 1 : i \in insts[t]}

Next ==
    \/ \E t \in Threads :
        \/ \E S \in SUBSET Renamed, D \in SUBSET ArchRegs :
              Cardinality(S) <= MaxSrcs /\ Cardinality(D) <= MaxDests /\ RenameInst(t, S, D)
        \/ RenameNothing(t) \/ DoSquash(t) \/ CommitHead(t)
        \/ \E i \in insts[t] : Writeback(t, i)
        \/ \E num \in SquashTargets(t) : CommitSquash(t, num)
    \/ \E p \in late : WritebackSquashed(p)
    \/ EndRename \/ EndIEW \/ EndCommit

Spec == Init /\ [][Next]_vars

\* The clock ticks, instructions execute and commit.
Fairness ==
    /\ WF_vars(Next)
    /\ SF_vars(\E t \in Threads : \E i \in insts[t] : Writeback(t, i))
    /\ SF_vars(\E t \in Threads : CommitHead(t))
    /\ SF_vars(EndRename) /\ SF_vars(EndIEW) /\ SF_vars(EndCommit)
FairSpec == Spec /\ Fairness

-----------------------------------------------------------------------------
(***************************************************************************)
(* Properties.                                                             *)
(***************************************************************************)

\* The state is well formed.
TypeOK ==
    /\ phase \in {"rename", "iew", "commit"} /\ todo \subseteq Threads
    /\ map \in [Threads -> [ArchRegs -> PhysRegs]]
    /\ commitMap \in [Threads -> [ArchRegs -> PhysRegs]]
    /\ free \subseteq PhysRegs /\ ready \subseteq PhysRegs /\ late \subseteq PhysRegs
    /\ history \in [Threads -> SUBSET Entries] /\ insts \in [Threads -> SUBSET InstType]
    /\ done \in [Threads -> 0..MaxSeq]
    /\ msg \in [Threads -> [done: 0..MaxSeq, squash: BOOLEAN]]
    /\ nextSeq \in 1..(MaxSeq + 1)

\* The history entries that keep a register which was replaced.
Kept(t) == {e \in history[t] : e.new # e.prev}
\* Register p is mapped, or was replaced and waits in a history buffer.
Held(p) == \E t \in Threads : (\E a \in ArchRegs : map[t][a] = p) \/ (\E e \in Kept(t) : e.prev = p)

\* Every physical register is in one place: free, mapped, or replaced and
\* waiting in a history buffer.  Squashes and commits of several threads, in
\* any order, neither lose a register nor free it twice; addReg() has no check
\* of its own.
RegsPartitioned ==
    /\ \A p \in PhysRegs : p \in free <=> ~Held(p)
    /\ \A t, u \in Threads :
        /\ \A a, b \in ArchRegs : map[t][a] = map[u][b] => a = b /\ (t = u \/ a = ZeroReg)
        /\ \A e \in Kept(t), f \in Kept(u) : e.prev = f.prev => t = u /\ e = f
        /\ \A a \in ArchRegs, e \in Kept(u) : map[t][a] # e.prev

\* The register that holds a for the next instruction of thread t: that of the
\* youngest instruction in flight that writes a, else the committed one.
Expected(t, a) ==
    LET W == {i \in insts[t] : a \in DOMAIN i.dests}
    IN  IF W = {} THEN commitMap[t][a]
        ELSE (CHOOSE i \in W : \A j \in W : j.seq <= i.seq).dests[a]

\* The rename map follows program order: once rename has handled the squash
\* commit sent, an operand is renamed to the register of its youngest producer
\* that was not squashed.
MapMatchesInsts ==
    \A t \in Threads : ~msg[t].squash => \A a \in ArchRegs : map[t][a] = Expected(t, a)

\* No register is free while it holds committed state or an instruction in
\* flight reads or writes it, though rename learns of commits a cycle late.
NoUseAfterFree ==
    \A t \in Threads :
        /\ \A a \in ArchRegs : commitMap[t][a] \notin free
        /\ \A i \in insts[t] : (Regs(i.srcs) \cup Regs(i.dests)) \cap free = {}

\* The scoreboard says of every destination in flight whether its producer was
\* written back: a squashed instruction that finishes late does not make the
\* new owner of its register ready.
ScoreboardRight ==
    \A t \in Threads : \A i \in insts[t] : \A a \in DOMAIN i.dests \ {ZeroReg} :
        i.dests[a] \in ready <=> i.wb

\* Rename does not run dry: there is a free register again and again.
FreeRegsReturn == []<>(free # {})
=============================================================================
