---------------------------- MODULE FUContention ----------------------------
(***************************************************************************)
(* Functional units: scheduleReadyInsts() issues ready instructions, the   *)
(* oldest first, to the units of the FU pool; an older instruction may     *)
(* evict a younger restricted one; completion events free the units.       *)
(*                                                                         *)
(* One hardware thread; every unit can do every operation of the model,    *)
(* like IntMult and IntDiv on IntMultDiv; loads are modelled in STT mode,  *)
(* which stalls a restricted one when it is its turn to issue.  A cycle    *)
(* runs through the phases free -> dispatch -> issue -> commit; the events *)
(* of the cycle come after it (their priority is below that of the tick).  *)
(* A failed assertion does not stop the model: a build without assertions  *)
(* goes on, and the properties say which ones fail.                        *)
(***************************************************************************)
EXTENDS Integers, FiniteSets, FiniteSetsExt

CONSTANTS
    N,          \* bound: instructions of a behaviour
    Ops,        \* operation classes
    Loads,      \* those of the loads
    Programs,   \* the mode, and the operation class of each instruction
    Latency, NonPipelined,  \* of the operation classes
    Units, IQEntries, IssueWidth

Insts == 1..N

ASSUME UnitsAssumption ==
    /\ N \in Nat /\ IQEntries \in Nat /\ IssueWidth \in Nat
    /\ Latency \in [Ops -> Nat \ {0}] /\ NonPipelined \subseteq Ops
    /\ Loads \subseteq Ops /\ Programs \subseteq [stt: BOOLEAN, op: [Insts -> Ops]]
    /\ \A p \in Programs : p.stt \/ \A i \in Insts : p.op[i] \notin Loads

VARIABLES
    stt, op,               \* fixed by Init: TRUE in STT mode; the operation classes
    phase, width, skipped, \* of scheduleReadyInsts(): instructions issued, classes left
    tail, retired,         \* youngest dispatched instruction; those out of the ROB
    ready, stalledInsts,   \* readyInsts, dolmaStalledInsts
    toExecute,             \* instsToExecute
    issued, inIQ, executed, squashed, restricted, stalled,  \* status bits
    count,                 \* IQ entries in use; freeEntries is IQEntries - count
    events,                \* scheduled FUCompletion events
    unitBusy, toFree       \* FU pool; how often a unit is in unitsToBeFreed

sched == <<phase, width, skipped>>
rob == <<tail, retired>>
bits == <<issued, inIQ, executed, squashed, restricted, stalled, count>>
pool == <<events, unitBusy, toFree>>
vars == <<stt, op, sched, rob, ready, stalledInsts, toExecute, bits, pool>>

InROB == (1..tail) \ retired

Init ==
    /\ \E p \in Programs : stt = p.stt /\ op = p.op
    /\ phase = "dispatch" /\ width = 0 /\ skipped = {}
    /\ tail = 0 /\ retired = {}
    /\ ready = {} /\ stalledInsts = {} /\ toExecute = {}
    /\ issued = {} /\ inIQ = {} /\ executed = {} /\ squashed = {}
    /\ restricted = {} /\ stalled = {}
    /\ count = 0 /\ events = {}
    /\ unitBusy = [u \in Units |-> 0] /\ toFree = [u \in Units |-> 0]

-----------------------------------------------------------------------------
\* insertInst() and insert(): an instruction enters the ROB and the IQ.  That it is
\* restricted (r), be it only later through its operands, matters once it has issued.
Insert(r) ==
    /\ phase = "dispatch" /\ tail < N /\ count < IQEntries
    /\ tail' = tail + 1
    /\ inIQ' = inIQ \cup {tail + 1} /\ count' = count + 1
    /\ restricted' = IF r THEN restricted \cup {tail + 1} ELSE restricted
    /\ UNCHANGED <<stt, op, sched, retired, ready, stalledInsts, toExecute, issued, executed,
                   squashed, stalled, pool>>

\* The instructions getDolmaStalledInstToExecute() returns when restrictions R remain.
Resumed(R) == stalledInsts \ (stalled \cap R)
\* executeInsts(), updateSafeStatus() (restrictions R remain), writebackInsts()
\* (the operands of W become ready), and the stalled instructions that are safe
\* or squashed go back to the ready lists.
ExecuteInsts(R, W) ==
    /\ phase = "dispatch"
    /\ executed' = executed \cup toExecute /\ toExecute' = {}
    /\ restricted' = R
    /\ stalled' = stalled \cap R
    /\ ready' = ready \cup W \cup Resumed(R)
    /\ stalledInsts' = stalledInsts \ Resumed(R)
    /\ phase' = "issue" /\ width' = 0 /\ skipped' = {}
    /\ UNCHANGED <<stt, op, rob, issued, inIQ, squashed, count, pool>>

IsLoad(i) == op[i] \in Loads
\* completeMemInst(), when a load is written back: memOpDone is set.
CompleteMemInst(i) ==
    /\ phase = "dispatch" /\ i \in (executed \cap inIQ) \ squashed /\ IsLoad(i)
    /\ inIQ' = inIQ \ {i} /\ count' = count - 1
    /\ UNCHANGED <<stt, op, sched, rob, ready, stalledInsts, toExecute, issued, executed,
                   squashed, restricted, stalled, pool>>

-----------------------------------------------------------------------------
(***************************************************************************)
(* scheduleReadyInsts().                                                   *)
(***************************************************************************)
Candidates == {i \in ready : op[i] \notin skipped}
\* i is the next instruction to look at.
Considers(i) == phase = "issue" /\ width < IssueWidth /\ i \in Candidates /\ i = Min(Candidates)

PopSquashed(i) ==
    /\ Considers(i) /\ i \in squashed
    /\ ready' = ready \ {i}
    /\ UNCHANGED <<stt, op, sched, rob, stalledInsts, toExecute, bits, pool>>

\* A restricted load does not issue in STT mode.
Stalls(i) == stt /\ i \in restricted /\ IsLoad(i)
\* The classes behind the iterator after load i was stalled: it is advanced twice, so
\* the next class on the list is left, too; past the end it comes to the first class
\* again (the list of the C++ library is circular).
PassedAfterStall(i) ==
    LET rest == Candidates \ {i}
    IN  IF rest = {} THEN {} ELSE skipped \cup {op[Min(rest)]}
StallLoad(i) ==
    /\ Considers(i) /\ Stalls(i)
    /\ ready' = ready \ {i}
    /\ skipped' = PassedAfterStall(i)
    /\ stalled' = stalled \cup {i} /\ stalledInsts' = stalledInsts \cup {i}
    /\ issued' = issued \ {i}
    /\ UNCHANGED <<stt, op, phase, width, rob, toExecute, inIQ, executed, squashed, restricted,
                   count, pool>>
\* i is to get a unit.
Wants(i) == Considers(i) /\ i \notin squashed /\ ~Stalls(i)

\* Mutant: a unit whose operation completes in this cycle is handed out.
MutantFreeUnits ==
    {u \in Units : unitBusy[u] = 0 \/ \E e \in events : e.unit = u /\ e.left = 0}
\* The units getUnit() may return.
FreeUnits == {u \in Units : unitBusy[u] = 0}

\* The FUCompletion event of an operation that takes several cycles.
Completion(i, u) ==
    [inst |-> i, unit |-> u, freeFU |-> op[i] \in NonPipelined, left |-> Latency[op[i]] - 1]

\* i goes to unit u and, unless it is a load, leaves the IQ; the unit is freed in the
\* next cycle unless the operation is long and not pipelined.
StartOn(i, u) ==
    /\ unitBusy' = [unitBusy EXCEPT ![u] = i]
    /\ LET long == Latency[op[i]] > 1 IN
       /\ events' = IF long THEN events \cup {Completion(i, u)} ELSE events
       /\ toExecute' = IF long THEN toExecute ELSE toExecute \cup {i}
       /\ toFree' = IF long /\ op[i] \in NonPipelined THEN toFree
                    ELSE [toFree EXCEPT ![u] = @ + 1]
    /\ ready' = ready \ {i}
    /\ inIQ' = IF IsLoad(i) THEN inIQ ELSE inIQ \ {i}
    /\ count' = IF IsLoad(i) THEN count ELSE count - 1
    /\ width' = width + 1

Issue(i, u) ==
    /\ Wants(i) /\ u \in FreeUnits
    /\ StartOn(i, u)
    /\ issued' = issued \cup {i}
    /\ UNCHANGED <<stt, op, phase, skipped, rob, stalledInsts, executed, squashed, restricted, stalled>>

\* Units held by a younger restricted instruction.
Unsafe(i) == {u \in Units : unitBusy[u] \in InROB \cap restricted /\ unitBusy[u] > i}
\* Mutant: only an occupant of the same operation class is evicted.
MutantEvictable(i) == {u \in Unsafe(i) : ~stt /\ op[unitBusy[u]] = op[i]}
\* Units the scheduler takes from their occupants.
Evictable(i) == {u \in Unsafe(i) : ~stt}

\* "Unsafe contention at issue": i takes the unit, its occupant is stalled.  The
\* completion event of the occupant stays scheduled.
Evict(i, u) ==
    /\ Wants(i) /\ FreeUnits = {} /\ u \in Evictable(i)
    /\ LET v == unitBusy[u] IN
       /\ stalled' = stalled \cup {v}
       /\ stalledInsts' = IF v \in stalled THEN stalledInsts ELSE stalledInsts \cup {v}
       /\ issued' = (IF v \in stalled THEN issued ELSE issued \ {v}) \cup {i}
    /\ StartOn(i, u)
    /\ UNCHANGED <<stt, op, phase, skipped, rob, executed, squashed, restricted>>

\* No unit for i: its operation class is left until the next cycle.
NoUnit(i) ==
    /\ Wants(i) /\ FreeUnits = {} /\ Evictable(i) = {}
    /\ skipped' = skipped \cup {op[i]}
    /\ UNCHANGED <<stt, op, phase, width, rob, ready, stalledInsts, toExecute, bits, pool>>

EndIssue ==
    /\ phase = "issue" /\ (width = IssueWidth \/ Candidates = {})
    /\ phase' = "commit"
    /\ UNCHANGED <<stt, op, width, skipped, rob, ready, stalledInsts, toExecute, bits, pool>>

-----------------------------------------------------------------------------
\* The head of the ROB retires.
Retire ==
    /\ phase = "commit" /\ InROB # {}
    /\ LET h == Min(InROB) IN
       /\ h \in (executed \ (restricted \cup stalled)) \cup squashed
       /\ ~(IsLoad(h) /\ h \in inIQ)
       /\ retired' = retired \cup {h}
    /\ UNCHANGED <<stt, op, sched, tail, ready, stalledInsts, toExecute, bits, pool>>

\* Mutant: loads that are done are taken out of the IQ again.
MutantLeaveIQ(S) == {i \in S : i \notin issued \/ IsLoad(i)}
\* Squashed instructions doSquash() takes out of the IQ: those that have not issued,
\* and loads whose memOpDone is not set.
LeaveIQ(S) == {i \in S : i \notin issued \/ (IsLoad(i) /\ i \in inIQ)}
\* Instructions younger than num are squashed, in the ROB and in the IQ.
Squash(num) ==
    /\ phase = "commit"
    /\ LET S == {i \in InROB \ squashed : i > num} IN
       /\ S # {}
       /\ squashed' = squashed \cup S
       /\ restricted' = restricted \ S /\ stalled' = stalled \ S
       /\ inIQ' = inIQ \ LeaveIQ(S) /\ issued' = issued \cup LeaveIQ(S)
       /\ count' = count - Cardinality(LeaveIQ(S))
    /\ UNCHANGED <<stt, op, sched, rob, ready, stalledInsts, toExecute, executed, pool>>

Due == {e \in events : e.left = 0}
Frees(e, u) == e.freeFU /\ e.unit = u
\* The cycle ends, and processFUCompletion() handles the events that are due.
EndCycle ==
    /\ phase = "commit"
    /\ toExecute' = toExecute \cup {e.inst : e \in Due}
    /\ toFree' = [u \in Units |->
          toFree[u] + Cardinality({e \in Due : Frees(e, u)})]
    /\ events' = {[e EXCEPT !.left = @ - 1] : e \in events \ Due}
    /\ phase' = "free"
    /\ UNCHANGED <<stt, op, width, skipped, rob, ready, stalledInsts, bits, unitBusy>>

\* Mutant: the unit of a long operation is not released.
MutantReleased(u) == toFree[u] > 0 /\ unitBusy[u] # 0 /\ op[unitBusy[u]] \notin NonPipelined
Released(u) == toFree[u] > 0
\* processFreeUnits(), at the beginning of the next tick.
ProcessFreeUnits ==
    /\ phase = "free"
    /\ unitBusy' = [u \in Units |-> IF Released(u) THEN 0 ELSE unitBusy[u]]
    /\ toFree' = [u \in Units |-> 0]
    /\ phase' = "dispatch"
    /\ UNCHANGED <<stt, op, width, skipped, rob, ready, stalledInsts, toExecute, bits, events>>

\* Instructions in the IQ whose operands may become ready.
Waiting == inIQ \ (ready \cup issued \cup stalledInsts)

Schedule ==
    \/ \E i \in ready : \/ PopSquashed(i) \/ StallLoad(i) \/ NoUnit(i)
                        \/ \E u \in Units : Issue(i, u) \/ Evict(i, u)
    \/ EndIssue
Execute == \E R \in SUBSET restricted, W \in SUBSET Waiting : ExecuteInsts(R, W)
Next ==
    \/ \E r \in BOOLEAN : Insert(r)
    \/ \E i \in inIQ : CompleteMemInst(i)
    \/ Execute \/ Schedule \/ Retire
    \/ \E num \in 0..N : Squash(num)
    \/ EndCycle \/ ProcessFreeUnits
Spec == Init /\ [][Next]_vars

\* The clock ticks; the operands of an instruction become ready and its
\* restriction ends, since older instructions finish.
Fairness ==
    /\ WF_vars(Execute) /\ WF_vars(Schedule) /\ WF_vars(EndCycle) /\ WF_vars(ProcessFreeUnits)
    /\ \A i \in Insts :
        /\ SF_vars(\E R \in SUBSET restricted, W \in SUBSET Waiting : i \in W /\ ExecuteInsts(R, W))
        /\ SF_vars(\E R \in SUBSET restricted, W \in SUBSET Waiting :
                      i \in restricted \ R /\ ExecuteInsts(R, W))
FairSpec == Spec /\ Fairness
-----------------------------------------------------------------------------
\* The purpose of the eviction: outside STT mode, an instruction that is refused a
\* unit does not wait for a younger restricted one, whichever units, classes and
\* evictions came before.
NoUnsafeContention ==
    (~stt /\ phase = "issue") =>
        \A i \in ready \ squashed :
            (op[i] \in skipped /\ \A j \in ready : op[j] = op[i] => i <= j) => Unsafe(i) = {}

\* The assertions of freeUnitNextCycle() and processFreeUnits(): a unit that is freed
\* is busy, and it is freed once.
UnitsFreedOnce == \A u \in Units : toFree[u] > 0 => toFree[u] = 1 /\ unitBusy[u] # 0

\* Where no instruction is evicted, these assertions hold, and an operation that is not
\* pipelined has its unit to itself until it completes.
UnitsExclusive ==
    stt => /\ UnitsFreedOnce
           /\ \A e \in events : e.freeFU =>
                 /\ unitBusy[e.unit] = e.inst
                 /\ \A f \in events : f.freeFU /\ f.unit = e.unit => f = e

\* Where no instruction is evicted, the IQ counts each instruction it holds once,
\* whether it leaves by issue, by completion (a load) or by a squash, and however
\* often it was stalled.
EntriesCounted == stt => count = Cardinality(inIQ)

\* No instruction waits for a unit for ever: its class may be passed over because a
\* load before it on the list was stalled, its unit may be taken from it, but it
\* gets a unit in the end, in every mode.  (Neither set ever loses an instruction, so
\* this is said of all that were inserted at once.)
AllExecute == []<>(1..tail \subseteq executed \cup squashed)
=============================================================================
