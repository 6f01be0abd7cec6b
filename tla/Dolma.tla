------------------------------- MODULE Dolma -------------------------------
(***************************************************************************)
(* Speculation tracking of the out-of-order core: which micro-ops are      *)
(* restricted, which ones induce restrictions, which redirects wait, and   *)
(* how the ROB, the instruction queue, the load/store unit, IEW and commit *)
(* update that state cycle by cycle.                                       *)
(*                                                                         *)
(* An instruction is its sequence number.  A status bit of BaseDynInst is  *)
(* the set of instructions that have it.  Every predicate of the source    *)
(* (isControlInducer(), isDolmaRestricted(), ...) is false of a squashed   *)
(* instruction, so the sets drop an instruction when it is squashed.       *)
(*                                                                         *)
(* A cycle runs through the phases                                         *)
(*   rename -> dispatch -> execute -> writeback -> issue -> retire         *)
(* in the order of FullO3CPU::tick(), IEW::tick() and Commit::tick();      *)
(* updateSafeStatus() ends execute, the squash decision of commit() begins *)
(* retire.  Rename, dispatch, writeback and issue may do nothing.          *)
(* Messages between stages (toCommit, toIEW) take one cycle, the default   *)
(* of every delay in O3CPU.py.                                             *)
(***************************************************************************)
EXTENDS Integers, FiniteSets, FiniteSetsExt

CONSTANTS
    N,            \* bound: dynamic instructions of a behaviour
    Addrs,        \* effective addresses
    DepCheckShift,\* LSQDepCheckShift: violations are checked on addr >> shift
    Configs,      \* configurations [mode |-> 1..4, stt |-> BOOLEAN]
    Programs,     \* instruction streams [Insts -> InstTypes]
    SquashWidth,  \* ROB entries squashed per cycle
    CommitWidth,  \* instructions retired per cycle
    CacheBlocks   \* TRUE if the L1 may refuse a request because it is blocked

Insts == 1..N
Kinds == {"alu", "branch", "jump", "load", "store"}
InstTypes == [kind: Kinds, srcs: SUBSET Insts, addr: Addrs, bad: BOOLEAN]

ASSUME NAssumption == N \in Nat
ASSUME WidthAssumption == SquashWidth \in Nat \ {0} /\ CommitWidth \in Nat \ {0}
ASSUME ConfigAssumption == Configs \subseteq [mode: 1..4, stt: BOOLEAN]
ASSUME ProgramAssumption ==
    /\ Addrs \subseteq Nat /\ DepCheckShift \in Nat /\ CacheBlocks \in BOOLEAN
    /\ Programs \subseteq [Insts -> InstTypes]
    /\ \A p \in Programs : \A i \in Insts :
          /\ p[i].srcs \subseteq 1..(i-1)
          /\ p[i].bad => p[i].kind \in {"branch", "jump"}

VARIABLES
    config, prog,             \* fixed by Init
    phase, cursor,            \* position in the cycle
    stage,                    \* where each instruction is
    squashed, canCommit,      \* status bits of BaseDynInst ...
    ctlInd, dataInd, ctlRes, dataRes, pendBr, pendMO, stalled, effValid,
    ydi,                      \* youngest data inducer
    collider,                 \* colliderSeqNum of a pending memory-order redirect
    violSeq, violator,        \* violatorSeqNum and violator of a store
    toCommit, fromIEW, toIEW, \* time buffers
    commitStatus, squashNum, squashIt, youngest,
    readFrom, wrong, redirected  \* history: see the properties

status == <<squashed, canCommit, ctlInd, dataInd, ctlRes, dataRes, pendBr,
            pendMO, stalled, effValid>>
links == <<ydi, collider, violSeq, violator>>
buffers == <<toCommit, fromIEW, toIEW>>
robState == <<commitStatus, squashNum, squashIt, youngest>>
history == <<readFrom, wrong, redirected>>
fixed == <<config, prog>>
vars == <<fixed, phase, cursor, stage, status, links, buffers, robState, history>>

-----------------------------------------------------------------------------
Stages == {"none",        \* not fetched
           "renamed",     \* on its way to the ROB
           "rob",         \* in the ROB, waiting for dispatch
           "queued",      \* in the instruction queue
           "issued",      \* executes in the next IEW tick
           "access",      \* load waiting for its data
           "done",        \* executed, waiting for a writeback slot
           "wb",          \* written back
           "retired"}     \* out of the ROB

Phases == {"rename", "dispatch", "execute", "writeback", "issue", "retire"}

\* The configuration flags BaseCPU derives from its parameters.
Conservative == config.mode % 2 = 0
MemOnly == config.mode > 2
STT == config.stt

Kind(i) == prog[i].kind
IsStore(i) == Kind(i) = "store"
IsLoad(i) == Kind(i) = "load"
Block(i) == prog[i].addr \div (2^DepCheckShift)

InROB == {i \in Insts : stage[i] \notin {"none", "renamed", "retired"}}
Live == {i \in Insts : stage[i] \notin {"none", "retired"}} \ squashed
\* Entries of the load and store queues that are not squashed.
InLSQ == {i \in Live : stage[i] \notin {"renamed", "rob"}}
Restricted(i) == i \in ctlRes \cup dataRes

\* The register an instruction reads is ready: the scoreboard bit is set.
Ready(s) == s \in squashed \/ stage[s] \in {"wb", "retired"}
MaxOr0(S) == Max(S \cup {0})

\* Mutant: taint does not pass through a restricted producer.
MutantInheritedYdi(S) == MaxOr0(S \cap dataInd)
\* The youngest data inducer an instruction inherits from producers S.
InheritedYdi(S) ==
    MaxOr0({IF s \in dataInd THEN s ELSE ydi[s] : s \in S \cap (dataInd \cup dataRes)})

NoSignal == [squash |-> 0, include |-> FALSE, insts |-> {}]

Init ==
    /\ config \in Configs
    /\ prog \in Programs
    /\ phase = "rename" /\ cursor = 0
    /\ stage = [i \in Insts |-> "none"]
    /\ squashed = {} /\ canCommit = {} /\ ctlInd = {} /\ dataInd = {}
    /\ ctlRes = {} /\ dataRes = {} /\ pendBr = {} /\ pendMO = {}
    /\ stalled = {} /\ effValid = {}
    /\ ydi = [i \in Insts |-> 0] /\ collider = [i \in Insts |-> 0]
    /\ violSeq = [i \in Insts |-> 0] /\ violator = [i \in Insts |-> 0]
    /\ toCommit = NoSignal /\ fromIEW = NoSignal /\ toIEW = -1
    /\ commitStatus = "Running" /\ squashNum = 0 /\ squashIt = 0 /\ youngest = 0
    /\ readFrom = [i \in Insts |-> 0] /\ wrong = {} /\ redirected = {}

\* Goes to phase p, with instruction i handled (0 for none).
Goto(p, i) == phase' = p /\ cursor' = i
\* The instructions up to this one have been handled in phase p.
HandledIn(p) == IF phase = p THEN cursor ELSE 0
\* Messages of commit are read before anything is dispatched or executed.
BeforeIEW == phase \in {"rename", "dispatch"}
CanExecute == phase = "execute" \/ (BeforeIEW /\ toIEW = -1)
CanIssue == phase \in {"writeback", "issue"}

-----------------------------------------------------------------------------
(***************************************************************************)
(* Rename and dispatch.                                                    *)
(***************************************************************************)

\* Taint of i from the producers in S whose value is already available: the
\* "DOLMA corner case" of renameSrcRegs() and addToDependents().  A register
\* that was ready at rename is not examined again at dispatch by the code;
\* examining it again changes nothing, taint of a written-back producer only
\* shrinks and ydi keeps the maximum.
TaintFromReady(i) ==
    LET S == {s \in prog[i].srcs : Ready(s)}
        y == InheritedYdi(S)
    IN  /\ dataRes' = IF y # 0 THEN dataRes \cup {i} ELSE dataRes
        /\ ydi' = [ydi EXCEPT ![i] = Max({@, y})]

\* Fetch, decode and rename deliver the next instruction.  It is on a wrong
\* path if an older mispredicted branch has not redirected fetch yet.
Rename(i) ==
    /\ phase = "rename"
    /\ commitStatus = "Running" /\ toIEW = -1
    /\ stage[i] = "none" /\ \A j \in 1..(i-1) : stage[j] # "none"
    /\ stage' = [stage EXCEPT ![i] = "renamed"]
    /\ TaintFromReady(i)
    /\ wrong' = IF \E b \in 1..(i-1) : b \notin squashed /\ prog[b].bad /\ b \notin redirected
                THEN wrong \cup {i} ELSE wrong
    /\ Goto("dispatch", 0)
    /\ UNCHANGED <<fixed, squashed, canCommit, ctlInd, dataInd, ctlRes, pendBr, pendMO,
                   stalled, effValid, collider, violSeq, violator, buffers, robState,
                   readFrom, redirected>>

\* The status of instructions S is never looked at again: they are squashed,
\* dropped or retired.
Forget(S) ==
    /\ dataInd' = dataInd \ S
    /\ ctlRes' = ctlRes \ S /\ dataRes' = dataRes \ S
    /\ stalled' = stalled \ S /\ effValid' = effValid \ S
    /\ ydi' = [i \in Insts |-> IF i \in S THEN 0 ELSE ydi[i]]
    /\ collider' = [i \in Insts |-> IF i \in S THEN 0 ELSE collider[i]]
    /\ violSeq' = [i \in Insts |-> IF violSeq[i] \in S \/ i \in S THEN 0 ELSE violSeq[i]]
    /\ violator' = [i \in Insts |-> IF violator[i] \in S \/ i \in S THEN 0 ELSE violator[i]]
    /\ readFrom' = [i \in Insts |-> IF i \in S THEN 0 ELSE readFrom[i]]

\* IEW::squash(): the IQ squashes what has not issued and memory operations
\* that are not done, the LSQ every younger load and store.
IEWSquash ==
    /\ BeforeIEW /\ toIEW # -1
    /\ LET younger == {i \in InROB : i > toIEW}
           lsq == {i \in younger : stage[i] # "rob" /\ (IsLoad(i) \/ IsStore(i))}
           iq == {i \in younger : stage[i] = "queued" \/ (i \in lsq /\ stage[i] # "wb")}
           dead == iq \cup lsq
       IN  /\ squashed' = squashed \cup dead
           /\ Forget(dead)
           /\ ctlInd' = ctlInd \ dead /\ pendBr' = pendBr \ dead /\ pendMO' = pendMO \ dead
           /\ canCommit' = canCommit \cup iq
    /\ toIEW' = -1
    /\ Goto("execute", 0)
    /\ UNCHANGED <<fixed, stage, toCommit, fromIEW, robState, wrong, redirected>>

\* Dispatch of the oldest instruction waiting for it.  IEW::squash() empties
\* the skid buffer, so one younger than the last squash never gets here.
Dispatch(i) ==
    /\ BeforeIEW /\ toIEW = -1
    /\ i \in Live /\ stage[i] = "rob" /\ i <= youngest
    /\ \A j \in Live : stage[j] = "rob" => i <= j
    /\ stage' = [stage EXCEPT ![i] = "queued"]
    /\ TaintFromReady(i)
    /\ Goto("execute", 0)
    /\ UNCHANGED <<fixed, squashed, canCommit, ctlInd, dataInd, ctlRes, pendBr, pendMO,
                   stalled, effValid, collider, violSeq, violator, buffers, robState, history>>

-----------------------------------------------------------------------------
(***************************************************************************)
(* IEW::executeInsts(): every instruction issued in the previous cycle, in *)
(* program order (the scheduler issues the oldest first).                  *)
(***************************************************************************)

\* i is the next instruction to execute in this tick.
NextToExecute(i) ==
    /\ CanExecute /\ i > HandledIn("execute") /\ stage[i] = "issued"
    /\ \A j \in Insts : (j > HandledIn("execute") /\ stage[j] = "issued") => i <= j
    /\ Goto("execute", i)

\* No older redirect was already sent to commit in this tick.
MayRedirect(i) == toCommit.squash = 0 \/ toCommit.squash > i

\* A squashed instruction is only marked executed and ready to commit.
ExecuteSquashed(i) ==
    /\ NextToExecute(i) /\ i \in squashed
    /\ stage' = [stage EXCEPT ![i] = "done"]
    /\ canCommit' = canCommit \cup {i}
    /\ UNCHANGED <<fixed, squashed, ctlInd, dataInd, ctlRes, dataRes, pendBr, pendMO, stalled,
                   effValid, links, buffers, robState, history>>

\* Non-memory instructions.  A mispredicted branch signals a redirect; if it
\* is a restricted control inducer the redirect is left pending.  A correctly
\* predicted branch stops being an inducer.  When an older redirect has been
\* signalled already, neither happens.
ExecuteInst(i) ==
    /\ NextToExecute(i) /\ i \notin squashed /\ ~IsLoad(i) /\ ~IsStore(i)
    /\ stage' = [stage EXCEPT ![i] = "done"]
    /\ IF MayRedirect(i) /\ prog[i].bad
       THEN /\ toCommit' = [toCommit EXCEPT !.squash = i, !.include = FALSE]
            /\ pendBr' = IF i \in ctlInd /\ Restricted(i) THEN pendBr \cup {i} ELSE pendBr
            /\ UNCHANGED ctlInd
       ELSE /\ ctlInd' = IF MayRedirect(i) THEN ctlInd \ {i} ELSE ctlInd
            /\ UNCHANGED <<toCommit, pendBr>>
    /\ UNCHANGED <<fixed, squashed, canCommit, dataInd, ctlRes, dataRes, pendMO, stalled,
                   effValid, links, fromIEW, toIEW, robState, history>>

\* setDolmaStalled() and dolmaStallInst(): i leaves execution until it is safe.
Stall(i) ==
    /\ stalled' = stalled \cup {i}
    /\ pendBr' = pendBr \ {i} /\ pendMO' = pendMO \ {i}
    /\ stage' = [stage EXCEPT ![i] = "queued"]

\* A restricted memory operation misses in the TLB: delay on miss.  STT
\* translates a restricted store normally and never executes a restricted load.
ExecuteTLBMiss(i) ==
    /\ NextToExecute(i) /\ i \notin squashed /\ (IsLoad(i) \/ IsStore(i))
    /\ Restricted(i) /\ ~STT
    /\ Stall(i)
    /\ UNCHANGED <<fixed, squashed, canCommit, ctlInd, dataInd, ctlRes, dataRes, effValid,
                   links, buffers, robState, history>>

\* Mutant: forwarding compares blocks instead of addresses.
MutantCovering(i) == {s \in 1..(i-1) : /\ IsStore(s) /\ Block(s) = Block(i) /\ s \notin squashed
                                       /\ s \in effValid \/ stage[s] = "retired"}
\* Older stores whose address is known, of the bytes load i reads.
Covering(i) == {s \in 1..(i-1) : /\ IsStore(s) /\ prog[s].addr = prog[i].addr
                                 /\ s \notin squashed
                                 /\ s \in effValid \/ stage[s] = "retired"}
\* The store read() takes the data from; 0 is the memory's initial value.
Source(i) == MaxOr0(Covering(i))
\* The store is still in the store queue and forwards its data.
Forwards(i) == Source(i) # 0 /\ stage[Source(i)] # "retired"
\* Forwarding from an unsafe store to a safe load is masked by a cache access.
Masked(i) == Forwards(i) /\ Restricted(Source(i)) /\ ~Restricted(i)
\* read() passes a store whose address is unknown, younger than the source.
Bypasses(i) == \E s \in InLSQ : s < i /\ IsStore(s) /\ s \notin effValid /\ s > Source(i)

\* LSQUnit::executeLoad() and read(), when the load gets its data (now, or
\* later from the cache).
ExecuteLoad(i) ==
    /\ NextToExecute(i) /\ i \notin squashed /\ IsLoad(i)
    /\ stage' = [stage EXCEPT ![i] = "access"]
    /\ effValid' = effValid \cup {i}
    /\ dataInd' = IF Bypasses(i) /\ ~Conservative /\ ~STT THEN dataInd \cup {i} ELSE dataInd
    /\ readFrom' = [readFrom EXCEPT ![i] = Source(i)]
    /\ UNCHANGED <<fixed, squashed, canCommit, ctlInd, ctlRes, dataRes, pendBr, pendMO, stalled,
                   links, buffers, robState, wrong, redirected>>

\* A restricted load misses in the L1: delay on miss.
ExecuteLoadMiss(i) ==
    /\ NextToExecute(i) /\ i \notin squashed /\ IsLoad(i)
    /\ Restricted(i) /\ ~Forwards(i)
    /\ Stall(i)
    /\ effValid' = effValid \cup {i}
    /\ dataInd' = dataInd \ {i}
    /\ UNCHANGED <<fixed, squashed, canCommit, ctlInd, ctlRes, dataRes,
                   links, buffers, robState, history>>

\* The L1 is blocked by other misses: blockMemInst(), retried later.
ExecuteLoadBlocked(i) ==
    /\ NextToExecute(i) /\ i \notin squashed /\ IsLoad(i) /\ CacheBlocks
    /\ ~Forwards(i) \/ Masked(i)
    /\ stage' = [stage EXCEPT ![i] = "queued"]
    /\ effValid' = effValid \cup {i}
    /\ dataInd' = dataInd \ {i}
    /\ UNCHANGED <<fixed, squashed, canCommit, ctlInd, ctlRes, dataRes, pendBr, pendMO, stalled,
                   links, buffers, robState, history>>

\* Mutant: restricted loads are not checked.
MutantViolator(i) ==
    LET L == {l \in InLSQ : /\ l > i /\ IsLoad(l) /\ l \in effValid /\ ~Restricted(l)
                            /\ l \notin stalled /\ Block(l) = Block(i)}
    IN  IF L = {} THEN 0 ELSE Min(L)
\* checkViolations(): the oldest younger load to the same block whose address
\* is known and that is not stalled.
Violator(i) ==
    LET L == {l \in InLSQ : /\ l > i /\ IsLoad(l) /\ l \in effValid
                            /\ l \notin stalled /\ Block(l) = Block(i)}
    IN  IF L = {} THEN 0 ELSE Min(L)

\* squashDueToMemOrder(): signals the violator, and leaves the redirect pending
\* if the store or the violator is restricted.
SquashDueToMemOrder(i, v) ==
    LET unsafe == Restricted(i) /\ ~STT IN
    /\ toCommit' = [toCommit EXCEPT !.squash = v, !.include = TRUE]
    /\ IF unsafe \/ Restricted(v)
       THEN pendMO' = pendMO \cup {v} /\ canCommit' = canCommit \ {v}
       ELSE UNCHANGED <<pendMO, canCommit>>
    /\ violator' = IF unsafe THEN [violator EXCEPT ![i] = v] ELSE violator
    /\ collider' = IF ~unsafe /\ Restricted(v) /\ (collider[v] = 0 \/ i < collider[v])
                   THEN [collider EXCEPT ![v] = i] ELSE collider

\* LSQUnit::executeStore() and the handling of its violation.
ExecuteStore(i) ==
    /\ NextToExecute(i) /\ i \notin squashed /\ IsStore(i)
    /\ stage' = [stage EXCEPT ![i] = "done"]
    /\ effValid' = effValid \cup {i}
    /\ LET v == Violator(i) IN
       /\ violSeq' = IF v # 0 /\ ~Conservative /\ ~STT
                     THEN [violSeq EXCEPT ![i] = v] ELSE violSeq
       /\ IF v # 0 /\ MayRedirect(i) /\ (toCommit.squash = 0 \/ v <= toCommit.squash)
          THEN SquashDueToMemOrder(i, v)
          ELSE UNCHANGED <<toCommit, pendMO, canCommit, violator, collider>>
    /\ UNCHANGED <<fixed, squashed, ctlInd, dataInd, ctlRes, dataRes, pendBr, stalled,
                   ydi, fromIEW, toIEW, robState, history>>

-----------------------------------------------------------------------------
(***************************************************************************)
(* ROB::updateSafeStatus(), with the data inducers in di.  The code visits *)
(* the ROB from the oldest to the youngest entry and collects in "ydis"    *)
(* the inducers that stay; kept is that set at the end of the visit.  It   *)
(* is determined by the equation below, since whether an instruction stays *)
(* depends on older ones only.                                             *)
(***************************************************************************)
UnresolvedBranch(i) == \E b \in InROB : b < i /\ b \in ctlInd
\* Mutant: a store counts as unresolved until it retires.
MutantUnresolvedStore(i) == \E s \in InROB \ squashed : s < i /\ IsStore(s)
UnresolvedStore(i) ==
    \E s \in InROB \ squashed : s < i /\ IsStore(s) /\ s \notin effValid
\* Some older resolved store has a live violator that is not younger than i.
AfterViolator(i) ==
    \E s \in InROB \ squashed : /\ s < i /\ IsStore(s) /\ s \in effValid
                                /\ violSeq[s] \in InROB \ squashed /\ violSeq[s] <= i

\* Mutant: control restrictions are recomputed instead of only lifted.
MutantCtlResKept == {i \in InROB : UnresolvedBranch(i)}
CtlResKept == {i \in ctlRes : i \in InROB => UnresolvedBranch(i)}
DataResKept(kept) == {i \in dataRes : i \in InROB => ydi[i] \in kept}
\* Mutant: only the last control restriction frees an instruction.
MutantFreed(kept) == (InROB \cap ctlRes) \ (CtlResKept \cup DataResKept(kept))
\* Instructions that become safe.
Freed(kept) == (InROB \cap (ctlRes \cup dataRes)) \ (CtlResKept \cup DataResKept(kept))
\* Stores that become safe and caused a violation: its redirect may proceed.
FreedColliders(kept) ==
    {s \in Freed(kept) : IsStore(s) /\ s \notin stalled /\ violator[s] # 0 /\ ~STT}
Violators(kept) == {violator[s] : s \in FreedColliders(kept)}

KeepDataInducer(i, kept) ==
    \/ Conservative
    \/ i \in pendMO \cup Violators(kept)
    \/ MemOnly /\ UnresolvedBranch(i)
    \/ ~STT /\ (UnresolvedStore(i) \/ AfterViolator(i))

UpdateSafeStatus(di) ==
    \E kept \in SUBSET di :
        /\ kept = {i \in di : KeepDataInducer(i, kept)}
        /\ dataInd' = kept
        /\ ctlRes' = CtlResKept
        /\ dataRes' = DataResKept(kept)
        /\ stalled' = stalled \ Freed(kept)
        /\ pendMO' = pendMO \cup Violators(kept)
        /\ canCommit' = canCommit \ Violators(kept)
        /\ collider' = [v \in Insts |->
              LET C == {s \in FreedColliders(kept) : violator[s] = v}
                          \cup ({collider[v]} \ {0})
              IN  IF C = {} THEN 0 ELSE Min(C)]

\* IEW::tick() updates the safety status once the instructions have executed.
SafeTick ==
    /\ CanExecute
    /\ \A j \in Insts : j > HandledIn("execute") => stage[j] # "issued"
    /\ UpdateSafeStatus(dataInd)
    /\ Goto("writeback", 0)
    /\ UNCHANGED <<fixed, stage, squashed, ctlInd, pendBr, effValid, ydi, violSeq, violator,
                   buffers, robState, history>>

-----------------------------------------------------------------------------
(***************************************************************************)
(* Writeback and issue.                                                    *)
(***************************************************************************)

\* wakeDependentInstructions(): load i becomes a data inducer when it writes
\* back (in default mode a bypassing load already is one).
InducesAtWriteback(i) ==
    /\ IsLoad(i)
    /\ \/ Conservative
       \/ ~STT /\ i \in pendMO
       \/ MemOnly /\ UnresolvedBranch(i)

\* IEW::writebackInsts() for i: wakes the dependents and taints them.
Writeback(i) ==
    /\ phase = "writeback" /\ i > cursor
    /\ i \in Live /\ (stage[i] = "done" \/ stage[i] = "access")
    /\ stage' = [stage EXCEPT ![i] = "wb"]
    /\ dataInd' = IF InducesAtWriteback(i) THEN dataInd \cup {i} ELSE dataInd
    /\ LET tainted == i \in dataInd' \cup dataRes
           y == IF i \in dataInd' THEN i ELSE ydi[i]
           deps == {d \in Live : stage[d] = "queued" /\ i \in prog[d].srcs}
       IN  /\ dataRes' = IF tainted THEN dataRes \cup deps ELSE dataRes
           /\ ydi' = [d \in Insts |-> IF tainted /\ d \in deps THEN Max({ydi[d], y})
                                      ELSE ydi[d]]
    /\ toCommit' = [toCommit EXCEPT !.insts = @ \cup {i}]
    /\ Goto("writeback", i)
    /\ UNCHANGED <<fixed, squashed, canCommit, ctlInd, ctlRes, pendBr, pendMO, stalled, effValid,
                   collider, violSeq, violator, fromIEW, toIEW, robState, history>>

\* scheduleReadyInsts() takes i.  STT holds back a restricted load.
Issue(i) ==
    /\ CanIssue /\ i > HandledIn("issue")
    /\ i \in Live \ stalled /\ stage[i] = "queued"
    /\ \A s \in prog[i].srcs : Ready(s)
    /\ IF STT /\ IsLoad(i) /\ Restricted(i)
       THEN Stall(i)
       ELSE /\ stage' = [stage EXCEPT ![i] = "issued"]
            /\ UNCHANGED <<stalled, pendBr, pendMO>>
    /\ Goto("issue", i)
    /\ UNCHANGED <<fixed, squashed, canCommit, ctlInd, dataInd, ctlRes, dataRes, effValid,
                   links, buffers, robState, history>>

-----------------------------------------------------------------------------
(***************************************************************************)
(* Commit::tick().                                                         *)
(***************************************************************************)

\* ROB::doSquash() from entry it: the SquashWidth youngest entries above num.
\* Mutant: the squash stops one entry early.
MutantSquashable(num, it) == {j \in InROB : num + 1 < j /\ j <= it}
Squashable(num, it) == {j \in InROB : num < j /\ j <= it}
Marked(num, it) ==
    {j \in Squashable(num, it) : Cardinality({k \in Squashable(num, it) : k > j}) < SquashWidth}
NextIt(num, it) == MaxOr0(Squashable(num, it) \ Marked(num, it))

\* A squash in progress goes on at the beginning of the tick.
Ongoing == IF commitStatus = "ROBSquashing" /\ squashIt # 0 THEN Marked(squashNum, squashIt) ELSE {}

\* ROB::getResolvedRedirect(): the oldest pending redirect that is safe.
ResolvedRedirects ==
    {i \in InROB \ (squashed \cup Ongoing) :
        ~Restricted(i) /\ (i \in pendBr \/ (i \in pendMO /\ (collider[i] # 0 \/ STT)))}
Squasher == IF ResolvedRedirects = {} THEN 0 ELSE Min(ResolvedRedirects)

\* Mutant: the youngest instruction of the ROB may not redirect.
MutantFireResolved ==
    /\ Squasher # 0 /\ Squasher < youngest
    /\ fromIEW.squash = 0 \/ Squasher <= fromIEW.squash
FireResolved ==
    /\ Squasher # 0 /\ Squasher <= youngest
    /\ fromIEW.squash = 0 \/ Squasher <= fromIEW.squash
\* The redirect IEW signalled is not made obsolete by an older squash.
Signalled == fromIEW.squash # 0 /\ fromIEW.squash <= youngest
\* It has to wait: it is unsafe, or the store that collided with it is.
MustWait(i) ==
    /\ i \notin squashed \cup Ongoing
    /\ \/ Restricted(i) /\ i \in pendBr \cup pendMO
       \/ ~STT /\ i \in pendMO /\ collider[i] = 0

\* Entries S are squashed; what rename sent in this cycle is dropped.  The
\* redirect of q, if any, is not pending any longer.
Squash(S, q) ==
    LET dropped == {i \in Insts : stage[i] = "renamed"} IN
    /\ squashed' = squashed \cup S
    /\ Forget(S \cup dropped)
    /\ ctlInd' = ctlInd \ (S \cup {q})
    /\ pendBr' = pendBr \ (S \cup {q})
    /\ pendMO' = pendMO \ (S \cup {q})
    /\ canCommit' = canCommit \cup S \cup ({q} \cap InROB)
    /\ stage' = [i \in Insts |-> IF i \in dropped THEN "none" ELSE stage[i]]
    /\ wrong' = wrong \ dropped

\* rob->squash(num) caused by q.
BeginSquash(num, q) ==
    LET tail == Max(InROB) IN
    /\ Squash(Ongoing \cup Marked(num, tail), q)
    /\ commitStatus' = "ROBSquashing" /\ squashNum' = num /\ squashIt' = NextIt(num, tail)
    /\ youngest' = num /\ toIEW' = num
    /\ redirected' = IF num = q THEN redirected \cup {q} ELSE redirected

\* doPendingRedirect(): a pending redirect has become safe.
CommitPendingRedirect ==
    /\ CanIssue /\ FireResolved
    /\ BeginSquash(IF Squasher \in pendMO THEN Squasher - 1 ELSE Squasher, Squasher)
    /\ Goto("retire", 0)
    /\ UNCHANGED <<fixed, toCommit, fromIEW>>

\* The redirect signalled by IEW in the previous cycle.
CommitSignalledSquash ==
    /\ CanIssue /\ ~FireResolved /\ Signalled /\ ~MustWait(fromIEW.squash)
    /\ BeginSquash(IF fromIEW.include THEN fromIEW.squash - 1 ELSE fromIEW.squash, fromIEW.squash)
    /\ Goto("retire", 0)
    /\ UNCHANGED <<fixed, toCommit, fromIEW>>

\* No new squash.  A resolved redirect of an instruction that is being squashed
\* is discarded; the ROB takes the renamed instruction (insertInst()), which is
\* restricted if an unresolved branch precedes it.
CommitNoSquash ==
    /\ CanIssue /\ ~FireResolved
    /\ Signalled => MustWait(fromIEW.squash)
    /\ LET q == IF Signalled THEN 0 ELSE Squasher
           running == commitStatus = "Running" \/ squashIt = 0
           new == {i \in Insts : stage[i] = "renamed"}
       IN  IF running
           THEN /\ commitStatus' = "Running"
                /\ stage' = [i \in Insts |-> IF i \in new THEN "rob" ELSE stage[i]]
                /\ ctlRes' = IF ~MemOnly /\ InROB \cap (ctlInd \ {q}) # {}
                             THEN ctlRes \cup new ELSE ctlRes
                /\ ctlInd' = (ctlInd \ {q}) \cup {i \in new : Kind(i) = "branch"}
                /\ pendBr' = pendBr \ {q} /\ pendMO' = pendMO \ {q}
                /\ canCommit' = canCommit \cup ({q} \cap InROB)
                /\ youngest' = Max(new \cup {youngest})
                /\ UNCHANGED <<squashed, dataInd, dataRes, stalled, effValid, links, squashIt,
                               readFrom, wrong>>
           ELSE /\ Squash(Ongoing, q)
                /\ squashIt' = NextIt(squashNum, squashIt)
                /\ UNCHANGED <<commitStatus, youngest>>
    /\ Goto("retire", 0)
    /\ UNCHANGED <<fixed, buffers, squashNum, redirected>>

\* The head of the ROB can leave it in this tick.
HeadReady ==
    /\ phase = "retire" /\ commitStatus = "Running" /\ InROB # {}
    /\ Min(InROB) \in canCommit
    /\ cursor < CommitWidth
Head == Min(InROB)

RetireSquashed ==
    /\ HeadReady /\ Head \in squashed
    /\ stage' = [stage EXCEPT ![Head] = "retired"]
    /\ UNCHANGED <<fixed, phase, cursor, status, links, buffers, robState, history>>

\* ROB::retireHead().  In conservative mode a load stops being a data inducer
\* here, and the safety status of the younger instructions is updated.
RetireHead ==
    /\ HeadReady /\ Head \notin squashed
    /\ stage' = [stage EXCEPT ![Head] = "retired"]
    /\ IF Head \in dataInd
       THEN UpdateSafeStatus(dataInd \ {Head})
       ELSE UNCHANGED <<dataInd, ctlRes, dataRes, stalled, pendMO, canCommit, collider>>
    /\ Goto("retire", cursor + 1)
    /\ UNCHANGED <<fixed, squashed, ctlInd, pendBr, effValid, ydi, violSeq, violator,
                   buffers, robState, history>>

\* Mutant: a pending redirect does not keep an instruction from committing.
MutantCompleted == fromIEW.insts \ squashed
\* markCompletedInsts(): the written back instructions that may commit.
Completed == fromIEW.insts \ (squashed \cup pendBr \cup pendMO)

\* The instructions that completed may commit, and the time buffers advance.
EndCommit ==
    /\ phase = "retire" /\ ~HeadReady
    /\ canCommit' = canCommit \cup Completed
    /\ fromIEW' = toCommit /\ toCommit' = NoSignal
    /\ Goto("rename", 0)
    /\ UNCHANGED <<fixed, stage, squashed, ctlInd, dataInd, ctlRes, dataRes, pendBr, pendMO,
                   stalled, effValid, links, toIEW, robState, history>>

Execute(i) ==
    \/ ExecuteSquashed(i) \/ ExecuteInst(i) \/ ExecuteTLBMiss(i)
    \/ ExecuteLoad(i) \/ ExecuteLoadMiss(i) \/ ExecuteLoadBlocked(i) \/ ExecuteStore(i)

Next ==
    \/ \E i \in Insts : Rename(i) \/ Dispatch(i) \/ Execute(i) \/ Writeback(i) \/ Issue(i)
    \/ IEWSquash \/ SafeTick
    \/ CommitPendingRedirect \/ CommitSignalledSquash \/ CommitNoSquash
    \/ RetireSquashed \/ RetireHead \/ EndCommit

Spec == Init /\ [][Next]_vars

\* Fetch delivers, the scheduler and the writeback ports serve the oldest first,
\* and the L1 does not stay blocked for ever.
Fairness ==
    /\ WF_vars(Next)
    /\ SF_vars(\E i \in Insts : Rename(i))
    /\ SF_vars(\E i \in Insts : Dispatch(i))
    /\ SF_vars(\E i \in Insts : Issue(i))
    /\ SF_vars(\E i \in Insts : Writeback(i))
    /\ SF_vars(\E i \in Insts : ExecuteLoad(i))

FairSpec == Spec /\ Fairness

-----------------------------------------------------------------------------
(***************************************************************************)
(* Properties.                                                             *)
(***************************************************************************)

\* The state is well formed.
TypeOK ==
    /\ config \in Configs /\ prog \in Programs
    /\ phase \in Phases /\ cursor \in Nat
    /\ stage \in [Insts -> Stages]
    /\ squashed \subseteq Insts /\ canCommit \subseteq Insts
    /\ ctlInd \subseteq Insts /\ dataInd \subseteq Insts
    /\ ctlRes \subseteq Insts /\ dataRes \subseteq Insts
    /\ pendBr \subseteq Insts /\ pendMO \subseteq Insts
    /\ stalled \subseteq Insts /\ effValid \subseteq Insts
    /\ ydi \in [Insts -> 0..N] /\ collider \in [Insts -> 0..N]
    /\ violSeq \in [Insts -> 0..N] /\ violator \in [Insts -> 0..N]
    /\ toCommit \in [squash: 0..N, include: BOOLEAN, insts: SUBSET Insts]
    /\ fromIEW \in [squash: 0..N, include: BOOLEAN, insts: SUBSET Insts]
    /\ toIEW \in -1..N
    /\ commitStatus \in {"Running", "ROBSquashing"}
    /\ squashNum \in 0..N /\ squashIt \in 0..N /\ youngest \in 0..N
    /\ readFrom \in [Insts -> 0..N] /\ wrong \subseteq Insts /\ redirected \subseteq Insts

Retired == {i \in Insts : stage[i] = "retired"} \ squashed

\* No instruction retires while its own redirect is pending (clearInROB()
\* asserts it): setPendingMemOrder() and markCompletedInsts() take back, or
\* refuse, the permission to commit, in whatever order the violation, the
\* writeback and the end of the restriction happen.
NoPendingRetires == HeadReady /\ Head \notin squashed => Head \notin pendBr \cup pendMO

\* The other assertions of clearInROB(), retireHead() and commitHead(): an
\* instruction that retires has executed, is no inducer (a data inducer only in
\* conservative mode, cleared on the spot), not restricted and not stalled.
RetireAssertions ==
    HeadReady /\ Head \notin squashed =>
        /\ stage[Head] \in {"done", "wb"}
        /\ Head \notin ctlInd \cup ctlRes \cup dataRes \cup stalled
        /\ Head \in dataInd => Conservative

\* A load that retires has read the value of the youngest older store to its
\* address: every memory-order violation executeStore() finds ends in a squash
\* of the load, however long the redirect is held back.
LoadsReadLatestStore ==
    \A l \in Retired : IsLoad(l) =>
        readFrom[l] = MaxOr0({s \in 1..(l-1) : /\ IsStore(s) /\ s \notin squashed
                                               /\ prog[s].addr = prog[l].addr})

\* Nothing fetched behind a mispredicted branch retires: no redirect is lost
\* while it is pending.
NoWrongPathRetires == wrong \cap Retired = {}

\* Data restrictions are tracked through registers: when a cycle ends, an
\* instruction that may issue, or has, is restricted if a producer of its
\* operands is an unresolved data inducer or restricted by one.  This is what
\* ydi and updateSafeStatus() are for.
TaintTracked ==
    phase = "rename" =>
        \A i \in Live : \A s \in prog[i].srcs :
            (/\ stage[i] \notin {"renamed", "rob"} /\ i <= youngest
             /\ s \in Live /\ stage[s] = "wb" /\ s \in dataInd \cup dataRes) => Restricted(i)

\* An instruction that has issued safe stays safe: insertion, taint at dispatch
\* and wake-up only restrict what has not issued.
SafeStep ==
    \A i \in Insts : (/\ stage[i] \in {"issued", "access", "done", "wb"}
                      /\ ~Restricted(i)) => ~(Restricted(i)')
SafeStaysSafe == [][SafeStep]_vars

\* A redirect that is pending does not vanish: it is acted on, or its
\* instruction is squashed, or the load is stalled and will execute again.
KeepStep ==
    \A i \in pendBr \cup pendMO :
        \/ i \in (pendBr \cup pendMO)'
        \/ i \in squashed' \/ youngest' < i \/ i \in redirected'
        \/ i \in stalled'
PendingRedirectKept == [][KeepStep]_vars

\* The core does not wait for itself: whatever is stalled, restricted or held
\* back as a pending redirect, every instruction leaves the ROB in the end.
EverythingLeaves == <>[](\A i \in Insts : stage[i] = "retired")

=============================================================================
