------------------------------- MODULE MemDep -------------------------------
(***************************************************************************)
(* The memory dependence unit of a thread (MemDepUnit) with its predictor  *)
(* (StoreSet): memory instructions and barriers enter in program order,    *)
(* wait for their registers, for a store the predictor names or for a      *)
(* barrier, and are moved to the ready list of the IQ; they are rescheduled*)
(* and replayed, completed or squashed.  An instruction is its sequence    *)
(* number; numbers are not used again after a squash.                      *)
(***************************************************************************)
EXTENDS Integers

CONSTANTS
    N,             \* bound: instructions of a behaviour
    Programs,      \* the instructions that come, in the order of their numbers
    SSITSize, LFSTSize, ClearPeriod,
    MaxRetries     \* bound: executions that do not complete

Seqs == 1..N
Kinds == {"load", "store", "memBarrier", "writeBarrier"}
\* An instruction: may it be restricted, at one time or other?
Types == [kind: Kinds, nonSpec: BOOLEAN, mayRestrict: BOOLEAN, pc: 0..1023]
SSIDs == 0..(LFSTSize - 1)
Indexes == 0..(SSITSize - 1)
NoSet == -1        \* an SSIT entry that is not valid; a store not in storeList

\* Addresses are below 2^10: the term PC >> 10 of calcSSID() is 0.
ASSUME MemDepAssumption ==
    /\ N \in Nat /\ SSITSize \in Nat \ {0} /\ LFSTSize \in Nat \ {0}
    /\ ClearPeriod \in Nat /\ MaxRetries \in Nat
    /\ Programs \subseteq [Seqs -> Types]

VARIABLES
    inst, tail,               \* the program, and how many of it came
    committed, squashed,      \* youngest instruction that left the ROB; squashed ones
    restricted, retries,
    insts,                    \* memDepHash and instList: those in the unit
    dependInsts,              \* of each entry
    regsReady, memDepReady,   \* entries with these bits
    instsToReplay, nonSpecInsts,
    ready, executing,         \* how often one is in readyInsts; those that have issued
    loadBarrier, loadBarrierSN, storeBarrier, storeBarrierSN,
    SSIT, LFST, validLFST, storeList, memOpsPred   \* of the predictor

rob == <<inst, tail, committed, squashed>>
places == <<insts, dependInsts, regsReady, memDepReady, instsToReplay, nonSpecInsts, ready,
            executing>>
barriers == <<loadBarrier, loadBarrierSN, storeBarrier, storeBarrierSN>>
predictor == <<SSIT, LFST, validLFST, storeList, memOpsPred>>
vars == <<rob, restricted, retries, places, barriers, predictor>>

IsStore(i) == inst[i].kind = "store"
IsLoad(i) == inst[i].kind = "load"
IsBarrier(i) == inst[i].kind \in {"memBarrier", "writeBarrier"}
InROB == {i \in 1..tail : i > committed /\ i \notin squashed}

-----------------------------------------------------------------------------
(***************************************************************************)
(* StoreSet.                                                               *)
(***************************************************************************)
CalcIndex(pc) == (pc \div 4) % SSITSize
CalcSSID(pc) == pc % LFSTSize

\* violation(): the SSIT entries of the store and of the load get the same set.
Joined(ssit, storePC, loadPC) ==
    LET l == CalcIndex(loadPC)
        s == CalcIndex(storePC)
        set == IF ssit[l] = NoSet /\ ssit[s] = NoSet THEN CalcSSID(loadPC)
               ELSE IF ssit[s] = NoSet \/ (ssit[l] # NoSet /\ ssit[s] > ssit[l]) THEN ssit[l]
               ELSE ssit[s]
    IN  [ssit EXCEPT ![l] = set, ![s] = set]

\* checkInst(): the last store of the instruction's set, 0 if there is none.
CheckInst(pc) ==
    LET set == SSIT[CalcIndex(pc)]
    IN  IF set # NoSet /\ set \in validLFST THEN LFST[set] ELSE 0

\* Mutant: the numbers of the last stores are reset, the list of stores is kept.
MutantClear ==
    /\ SSIT' = [x \in Indexes |-> NoSet]
    /\ validLFST' = {} /\ LFST' = [s \in SSIDs |-> 0]
    /\ memOpsPred' = 0
    /\ UNCHANGED storeList
\* checkClear() wipes the predictor.
Clear ==
    /\ SSIT' = [x \in Indexes |-> NoSet]
    /\ validLFST' = {} /\ storeList' = [i \in Seqs |-> NoSet]
    /\ memOpsPred' = 0
    /\ UNCHANGED LFST
ClearDue == memOpsPred + 1 > ClearPeriod
\* insertStore(), of store i.
InsertStore(i, pc) ==
    LET set == SSIT[CalcIndex(pc)] IN
    IF ClearDue THEN Clear
    ELSE /\ memOpsPred' = memOpsPred + 1
         /\ IF set = NoSet THEN UNCHANGED <<LFST, validLFST, storeList>>
            ELSE /\ LFST' = [LFST EXCEPT ![set] = i]
                 /\ validLFST' = validLFST \cup {set}
                 /\ storeList' = [storeList EXCEPT ![i] = set]
         /\ UNCHANGED SSIT

\* issued(): the set of store i no longer waits for it, if it still is its last store.
IssuedStore(i) ==
    LET set == SSIT[CalcIndex(inst[i].pc)] IN
    /\ storeList' = [storeList EXCEPT ![i] = NoSet]
    /\ validLFST' = IF set # NoSet /\ LFST[set] = i THEN validLFST \ {set} ELSE validLFST
    /\ UNCHANGED <<SSIT, LFST, memOpsPred>>

\* squash(): the entries of storeList younger than num are erased, and their sets are
\* left without a last store.  An entry whose set has an older last store would stay
\* for ever under the loop's iterator.
SquashStores(num) ==
    LET gone == {i \in Seqs : i > num /\ storeList[i] # NoSet /\ LFST[storeList[i]] > num} IN
    /\ storeList' = [i \in Seqs |-> IF i \in gone THEN NoSet ELSE storeList[i]]
    /\ validLFST' = validLFST \ {storeList[i] : i \in gone}
    /\ UNCHANGED <<SSIT, LFST, memOpsPred>>

\* The predictor as it is found: cold, or trained by a violation or two.
Cold == [x \in Indexes |-> NoSet]
TrainedOnce(p, table) ==
    {Joined(table, p[s].pc, p[l].pc) : s \in {i \in Seqs : p[i].kind = "store"},
                                       l \in {i \in Seqs : p[i].kind = "load"}}
Trained(p) == TrainedOnce(p, Cold) \cup UNION {TrainedOnce(p, q) : q \in TrainedOnce(p, Cold)}

Init ==
    /\ inst \in Programs /\ tail = 0 /\ committed = 0 /\ squashed = {}
    /\ restricted = {} /\ retries = 0
    /\ insts = {} /\ dependInsts = [i \in Seqs |-> {}]
    /\ regsReady = {} /\ memDepReady = {} /\ instsToReplay = {} /\ nonSpecInsts = {}
    /\ ready = [i \in Seqs |-> 0] /\ executing = {}
    /\ loadBarrier = FALSE /\ loadBarrierSN = 0
    /\ storeBarrier = FALSE /\ storeBarrierSN = 0
    /\ SSIT \in {Cold} \cup Trained(inst) /\ LFST = [s \in SSIDs |-> 0] /\ validLFST = {}
    /\ storeList = [i \in Seqs |-> NoSet] /\ memOpsPred = 0

-----------------------------------------------------------------------------
(***************************************************************************)
(* MemDepUnit.                                                             *)
(***************************************************************************)
\* moveToReady(), of the instructions in S.
Readied(S) == [i \in Seqs |-> IF i \in S THEN ready[i] + 1 ELSE ready[i]]

\* The barrier or the store that a new instruction of type t is to follow, or 0.
ProducingStore(t) ==
    IF t.kind = "load" /\ loadBarrier THEN loadBarrierSN
    ELSE IF t.kind = "store" /\ storeBarrier THEN storeBarrierSN
    ELSE CheckInst(t.pc)
\* The entries it is made dependent on: none if that instruction has left the unit, or
\* is restricted.
Producers(t) == {p \in insts \ restricted : p = ProducingStore(t)}

\* insert(), of instruction i of type t: its registers are ready (regs) or not.
InsertMemRef(i, t, regs, r) ==
    LET free == Producers(t) = {} IN
    /\ dependInsts' = [p \in Seqs |-> IF p \in Producers(t) THEN dependInsts[p] \cup {i}
                                      ELSE dependInsts[p]]
    /\ memDepReady' = IF free THEN memDepReady \cup {i} ELSE memDepReady
    /\ regsReady' = IF regs THEN regsReady \cup {i} ELSE regsReady
    /\ ready' = IF free /\ regs THEN Readied({i}) ELSE ready
    /\ IF t.kind = "store" /\ ~r THEN InsertStore(i, t.pc) ELSE UNCHANGED predictor
    /\ UNCHANGED <<nonSpecInsts, barriers>>

\* insertNonSpec(), and insertNonSpec() of the IQ.
InsertNonSpec(i, t) ==
    /\ nonSpecInsts' = nonSpecInsts \cup {i}
    /\ IF t.kind = "store" THEN InsertStore(i, t.pc) ELSE UNCHANGED predictor
    /\ UNCHANGED <<dependInsts, memDepReady, regsReady, ready, barriers>>

\* insertBarrier(): later loads and stores (a write barrier: stores) are to wait.
InsertBarrier(i, t) ==
    /\ loadBarrier' = (loadBarrier \/ t.kind = "memBarrier")
    /\ loadBarrierSN' = IF t.kind = "memBarrier" THEN i ELSE loadBarrierSN
    /\ storeBarrier' = TRUE /\ storeBarrierSN' = i
    /\ nonSpecInsts' = nonSpecInsts \cup {i}
    /\ UNCHANGED <<dependInsts, memDepReady, regsReady, ready, predictor>>

\* dispatchInsts(): the next instruction, restricted (r) or not, enters.
Insert(regs, r) ==
    LET i == tail + 1
        t == inst[i]
        memRef == t.kind \in {"load", "store"}
    IN
    /\ tail < N /\ (r => t.mayRestrict)
    /\ tail' = i
    /\ insts' = insts \cup {i}
    /\ restricted' = IF r THEN restricted \cup {i} ELSE restricted
    /\ \/ memRef /\ ~t.nonSpec /\ InsertMemRef(i, t, regs, r)
       \/ memRef /\ t.nonSpec /\ ~regs /\ InsertNonSpec(i, t)
       \/ ~memRef /\ ~regs /\ InsertBarrier(i, t)
    /\ UNCHANGED <<inst, committed, squashed, retries, instsToReplay, executing>>

\* Mutant: an instruction with its registers is ready.
MutantRegsSuffice(i) == TRUE
\* An instruction with its registers is ready if nothing in memory holds it back.
RegsSuffice(i) == i \in memDepReady
\* regsReady(): the last source register of i is written, with restricted data or not.
RegsReady(i, r) ==
    /\ i \in insts \ regsReady /\ ~inst[i].nonSpec /\ ~IsBarrier(i)
    /\ (r => inst[i].mayRestrict)
    /\ restricted' = IF r THEN restricted \cup {i} ELSE restricted
    /\ regsReady' = regsReady \cup {i}
    /\ ready' = IF RegsSuffice(i) THEN Readied({i}) ELSE ready
    /\ UNCHANGED <<rob, retries, insts, dependInsts, memDepReady, instsToReplay, nonSpecInsts,
                   executing, barriers, predictor>>

\* updateSafeStatus(): the restriction of i ends.
Unrestrict(i) ==
    /\ i \in restricted
    /\ restricted' = restricted \ {i}
    /\ UNCHANGED <<rob, retries, places, barriers, predictor>>

\* Mutant: squashed instructions are waited for.
MutantAtHead(i) == \A j \in (committed + 1)..tail : i <= j
AtHead(i) == \A j \in InROB : i <= j
\* scheduleNonSpec(): the head of the ROB is a barrier or not speculative.
ScheduleNonSpec(i) ==
    /\ i \in nonSpecInsts /\ AtHead(i)
    /\ nonSpecInsts' = nonSpecInsts \ {i}
    /\ ready' = Readied({i})
    /\ UNCHANGED <<rob, restricted, retries, insts, dependInsts, regsReady, memDepReady,
                   instsToReplay, executing, barriers, predictor>>

\* scheduleReadyInsts() and issue(): i issues.
Issue(i) ==
    /\ ready[i] > 0
    /\ ready' = [ready EXCEPT ![i] = @ - 1]
    /\ executing' = executing \cup {i}
    /\ IF IsStore(i) THEN IssuedStore(i) ELSE UNCHANGED predictor
    /\ UNCHANGED <<rob, restricted, retries, insts, dependInsts, regsReady, memDepReady,
                   instsToReplay, nonSpecInsts, barriers>>

\* The access waits for the cache, a translation or its restriction; then i is ready
\* again.
Retry(i) ==
    /\ i \in executing /\ ~IsBarrier(i) /\ retries < MaxRetries
    /\ retries' = retries + 1
    /\ executing' = executing \ {i}
    /\ ready' = Readied({i})
    /\ UNCHANGED <<rob, restricted, insts, dependInsts, regsReady, memDepReady,
                   instsToReplay, nonSpecInsts, barriers, predictor>>

\* rescheduleMemInst(): load i is to be replayed.
Reschedule(i) ==
    /\ i \in executing /\ IsLoad(i) /\ retries < MaxRetries
    /\ retries' = retries + 1
    /\ executing' = executing \ {i}
    /\ instsToReplay' = instsToReplay \cup {i}
    /\ UNCHANGED <<rob, restricted, insts, dependInsts, regsReady, memDepReady, nonSpecInsts,
                   ready, barriers, predictor>>

\* replay(): all of them are replayed.
Replay ==
    /\ instsToReplay # {}
    /\ ready' = Readied(instsToReplay)
    /\ instsToReplay' = {}
    /\ UNCHANGED <<rob, restricted, retries, insts, dependInsts, regsReady, memDepReady,
                   nonSpecInsts, executing, barriers, predictor>>

\* Mutant: an instruction that already has its registers is only marked.
MutantWoken(i) == {}
\* The dependents that wakeDependents() moves to the ready list.
Woken(i) == {w \in dependInsts[i] : w \in regsReady /\ w \notin squashed}

\* completeMemInst() or completeBarrier(), at writeback: the dependents of a store or
\* barrier are woken, and i leaves the unit.
Complete(i) ==
    /\ i \in executing
    /\ ready' = Readied(Woken(i))
    /\ memDepReady' = memDepReady \cup (dependInsts[i] \ Woken(i))
    /\ dependInsts' = [dependInsts EXCEPT ![i] = {}]
    /\ insts' = insts \ {i} /\ executing' = executing \ {i}
    /\ loadBarrier' = (loadBarrier /\ ~(IsBarrier(i) /\ loadBarrierSN = i))
    /\ storeBarrier' = (storeBarrier /\ ~(IsBarrier(i) /\ storeBarrierSN = i))
    /\ UNCHANGED <<rob, restricted, retries, regsReady, instsToReplay, nonSpecInsts,
                   loadBarrierSN, storeBarrierSN, predictor>>

\* violation(): load l has executed before the older store s of the same address, or
\* before an older load s whose line was written in between.  It is called as s executes;
\* when DOLMA has held it back, as commit redirects, and s may have left the ROB by then.
\* The squash comes later.
Violation(s, l) ==
    /\ s < l /\ l \in InROB /\ {s, l} \cap (squashed \cup restricted) = {}
    /\ (IsStore(s) \/ IsLoad(s)) /\ IsLoad(l)
    /\ {s, l} \cap insts \subseteq executing
    /\ SSIT' = Joined(SSIT, inst[s].pc, inst[l].pc)
    /\ UNCHANGED <<rob, restricted, retries, places, barriers, LFST, validLFST, storeList,
                   memOpsPred>>

\* A barrier that is not squashed stays in effect.
Stands(flag, sn, S) == flag /\ sn \notin S

\* Mutant: instructions that wait for a replay are not squashed.
MutantKept(S, gone) == IF S = instsToReplay THEN S ELSE S \ gone
\* What is left of a list of instructions.
Kept(S, gone) == S \ gone

\* squash() of the IQ and of the unit; a squashed instruction on a ready list is
\* dropped when its turn comes.
Squash(num) ==
    LET S == {i \in InROB : i > num} IN
    /\ S # {}
    /\ squashed' = squashed \cup S
    /\ restricted' = restricted \ S
    /\ insts' = insts \ S
    /\ instsToReplay' = Kept(instsToReplay, S)
    /\ nonSpecInsts' = Kept(nonSpecInsts, S)
    /\ executing' = Kept(executing, S)
    /\ ready' = [i \in Seqs |-> IF i \in S THEN 0 ELSE ready[i]]
    /\ loadBarrier' = Stands(loadBarrier, loadBarrierSN, S \cap insts)
    /\ storeBarrier' = Stands(storeBarrier, storeBarrierSN, S \cap insts)
    /\ SquashStores(num)
    /\ UNCHANGED <<inst, tail, committed, retries, dependInsts, regsReady, memDepReady,
                   loadBarrierSN, storeBarrierSN>>

\* The head of the ROB retires.
Commit(i) ==
    /\ i \in InROB \ (insts \cup restricted) /\ AtHead(i)
    /\ committed' = i
    /\ UNCHANGED <<inst, tail, squashed, restricted, retries, places, barriers, predictor>>

\* What the pipeline does by itself, and what comes from elsewhere.
Advance ==
    \/ \E i \in insts :
        \/ \E r \in BOOLEAN : RegsReady(i, r)
        \/ ScheduleNonSpec(i) \/ Issue(i) \/ Retry(i) \/ Reschedule(i) \/ Complete(i)
    \/ Replay
    \/ \E i \in InROB : Unrestrict(i) \/ Commit(i)
Next ==
    \/ Advance
    \/ \E regs, r \in BOOLEAN : Insert(regs, r)
    \/ \E s \in 1..tail, l \in InROB : Violation(s, l)
    \/ \E num \in committed..(tail - 1) : Squash(num)
Spec == Init /\ [][Next]_vars
\* The clock ticks: what waits for a register, the scheduler or the cache goes on.
FairSpec == Spec /\ WF_vars(Advance)
-----------------------------------------------------------------------------
\* The state is well formed.
TypeOK ==
    /\ inst \in Programs /\ tail \in 0..N
    /\ committed \in 0..tail /\ retries \in 0..MaxRetries
    /\ \A S \in {squashed, restricted, insts, regsReady, memDepReady, instsToReplay,
                 nonSpecInsts, executing} : S \subseteq 1..tail
    /\ dependInsts \in [Seqs -> SUBSET (1..tail)] /\ ready \in [Seqs -> Nat]
    /\ loadBarrier \in BOOLEAN /\ storeBarrier \in BOOLEAN
    /\ loadBarrierSN \in 0..tail /\ storeBarrierSN \in 0..tail
    /\ SSIT \in [Indexes -> SSIDs \cup {NoSet}] /\ LFST \in [SSIDs -> 0..tail]
    /\ validLFST \subseteq SSIDs /\ storeList \in [Seqs -> SSIDs \cup {NoSet}]
    /\ memOpsPred \in 0..ClearPeriod

\* Instructions that wait for a store or a barrier in the unit; those that only wait
\* for registers; those on a ready list.
Dependents == UNION {dependInsts[p] : p \in insts}
WaitForRegs == {i \in memDepReady \ regsReady : i \notin Dependents}
OnReadyList == {i \in Seqs : ready[i] > 0}

\* No instruction is lost: each one in the unit is on a ready list, executes, waits for
\* a replay, for the head of the ROB or for its registers, or depends on an entry that
\* is still in the unit and will wake it; completions, squashes and replays in any
\* order leave none behind.
NoneLost ==
    insts \subseteq OnReadyList \cup executing \cup instsToReplay \cup nonSpecInsts
                    \cup WaitForRegs \cup Dependents

\* No instruction issues twice: one is on at most one of these lists, and at most once
\* on a ready list, although its registers, its producer and a replay each put it there.
ReadyOnce ==
    /\ \A i \in insts : ready[i] <= 1
    /\ OnReadyList \cap (executing \cup instsToReplay) = {} /\ executing \cap instsToReplay = {}
    /\ nonSpecInsts \cap (OnReadyList \cup executing \cup instsToReplay) = {}
    /\ (WaitForRegs \cup Dependents)
          \cap (OnReadyList \cup executing \cup instsToReplay \cup nonSpecInsts) = {}

\* An instruction on a list is in the unit: findInHash() and the assertion of
\* moveToReady() do not fail for one that was squashed or completed.
ListedInUnit == OnReadyList \cup executing \cup instsToReplay \cup nonSpecInsts \subseteq insts

\* A barrier in effect is the youngest one of its kind in the unit, after completions
\* and squashes of barriers in any order.
YoungestBarrier ==
    LET Youngest(sn, kinds) ==
            sn \in insts /\ \A i \in insts : inst[i].kind \in kinds => i <= sn
    IN  /\ loadBarrier => Youngest(loadBarrierSN, {"memBarrier"})
        /\ storeBarrier => Youngest(storeBarrierSN, {"memBarrier", "writeBarrier"})

\* The loop of StoreSet::squash() ends: the last store of a set is not older than a
\* store of the set in storeList, also after the SSIT was changed or wiped while the
\* stores were in flight.
SquashEnds == \A i \in Seqs : storeList[i] # NoSet => LFST[storeList[i]] >= i

\* "Memory barriers block loads and stores, write barriers only stores": a load or
\* store that may execute has no older barrier in the unit.
BarriersBlock ==
    \A i \in OnReadyList \cup executing : \A b \in insts :
        b < i /\ ~inst[i].nonSpec =>
            /\ inst[b].kind = "memBarrier" => IsBarrier(i)
            /\ inst[b].kind = "writeBarrier" => ~IsStore(i)

\* Every instruction completes or is squashed, whatever it was made to wait for.
AllComplete == \A i \in Seqs : i \in insts ~> i \notin insts
=============================================================================
