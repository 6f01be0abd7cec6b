# Verification of the DOLMA out-of-order core

DOLMA extends gem5's out-of-order CPU (`src/cpu/o3`) so that micro-ops which might
still be squashed leave no trace: it tracks which micro-ops are *restricted*
(speculative in a way that matters), delays those that miss, holds back the
redirects they cause, and lets older micro-ops take execution and writeback
resources from them.  This directory keeps TLA+ models of that machinery, TLC
instances that check them, and TLAPS proofs of their main invariants.

## The system

| part | state | operations that change it | what makes it hard |
|---|---|---|---|
| Reorder buffer (`rob_impl.hh`) | entries in program order, squash iterator | `insertInst`, `updateSafeStatus`, `squash`/`doSquash`, `retireHead` | a squash takes several cycles while other stages go on; the safety status of all entries is recomputed every cycle |
| Status of an instruction (`base_dyn_inst.hh`) | control/data inducer, control/data restricted, pending branch, pending memory-order redirect, stalled, youngest data inducer (`ydi`), collider and violator | one setter each, some of which reset other bits | bits are set by five stages and reset in several places |
| IEW (`iew_impl.hh`) | issued instructions, `toCommit`, writeback slots | `dispatchInsts`, `executeInsts`, `instToCommit`, `writebackInsts`, `squash` | several instructions of one tick may redirect |
| Instruction queue (`inst_queue_impl.hh`), functional units (`fu_pool.cc`) | ready lists, dependence graph, stalled and blocked instructions, busy units | `insert`, `scheduleReadyInsts`, `wakeDependents`, `dolmaStallInst`, `doSquash`, unit release | an unsafe occupant is evicted while its completion is already scheduled |
| Load/store unit (`lsq_unit.hh`, `lsq_unit_impl.hh`, `lsq_impl.hh`) | circular load and store queues, `memDepViolator`, one recorded stall, blocked store | `insert`, `executeLoad`/`read`, `executeStore`/`checkViolations`, `checkSnoop`, `commitStores`, `writebackStores`, `recvRetry`, `completeDataAccess`, `squash` | loads pass stores of unknown address and other loads, cross lines, are masked, delayed and refused; snoops arrive at any time |
| Commit (`commit_impl.hh`) | status, youngest sequence number, held-back redirects | `commit`, `doPendingRedirect`, `commitInsts`, `markCompletedInsts`, traps, interrupts | chooses between a redirect that became safe and one that arrives |
| Rename (`rename_impl.hh`, `rename_map.cc`, `free_list.hh`, `scoreboard.hh`) | rename maps, history buffer, free list, scoreboard | `renameInsts`, `doSquash`, `removeFromHistory` | hears of commits and squashes a cycle late; threads share the registers |
| Memory dependence unit and predictor (`mem_dep_unit_impl.hh`, `store_set.cc`) | entries with dependents, replay list, the barriers in effect, store sets | `insert`, `insertNonSpec`, `insertBarrier`, `regsReady`, `reschedule`, `replay`, `completed`, `violation`, `squash` | a wake-up that is lost or given twice stops the core; the tables are cleared under way |
| Fetch, decode (`fetch_impl.hh`, `decode_impl.hh`), and the handshakes of all stages | fetch queue, skid buffers, statuses, block and unblock signals, counts of free entries | one `tick()` per stage | every stage acts on what the others said a cycle ago; wrong-path instructions are under way when a squash is heard of |
| Caches, TLB (`mem/cache/base.cc`, `arch/x86/tlb.cc`, `mem/request.hh`) | tags, replacement data, blocked state | unsafe requests that must not change state | metadata is updated later, when the instruction is safe |

The stages are ticked in the order fetch, decode, rename, IEW, commit, and talk to
each other through time buffers (one cycle by default).  An instruction is restricted
at insertion when an unresolved branch precedes it, or through its operands when their
producer is a *data inducer* (a load that may have read too early) or is restricted
itself.  `updateSafeStatus()` lifts restrictions; commit acts on redirects only when
they are safe.

Correctness, per part:

* ROB and commit: what retires is on the right path, has executed and is not
  restricted; a held-back redirect is not forgotten; everything leaves the ROB.
* Load/store unit: a load retires with the value of the youngest older store; more
  generally, what loads read and stores write is what a memory in order could show;
  every access completes; a restricted access leaves the replacement state alone until
  it is safe.
* Memory dependence: an instruction in the unit is always somewhere from where it will be
  woken, once; barriers hold what they are meant to hold.
* Status: taint follows registers; what was issued as safe stays safe.
* Writeback and units: a completion is neither lost nor made twice; older instructions
  are not delayed by younger restricted ones; a unit is freed once, by its owner.
* Stages: nothing is lost, reordered or kept too long between two stages; no buffer or queue
  overflows; a serializing or non-speculative instruction is alone; no stage waits for ever.
* Rename: every physical register is in exactly one place; nothing in flight uses a
  free register; the maps follow program order; rename does not run dry.

## Modules

### `Dolma`: the speculation core

Models the ROB, the status bits, IEW, the wake-up and issue part of the instruction
queue, the execution part of the load/store unit, and the redirect and retirement part
of commit, for one hardware thread.  An instruction is its sequence number; a status bit
is the set of instructions that have it.  The program (kinds, operand producers,
addresses, which branches are mispredicted) and the configuration (`mode` 1..4 as in
`cpu/base.cc`, STT or not) are chosen by `Init`.

A cycle goes through `rename, dispatch, execute, writeback, issue, retire`:

| action | code |
|---|---|
| `Rename`, `Dispatch` | `renameSrcRegs()`, `dispatchInsts()` with `addToDependents()`; taint of operands that are already available |
| `IEWSquash` | `IEW::squash()` with the squashes of IQ and LSQ |
| `ExecuteInst`, `ExecuteLoad`, `ExecuteStore`, `ExecuteSquashed` | the branches of `executeInsts()` with `squashDueToBranch()`, `squashDueToMemOrder()`, `executeLoad()`/`read()`, `executeStore()`/`checkViolations()` |
| `ExecuteTLBMiss`, `ExecuteLoadMiss`, `ExecuteLoadBlocked` | delay on miss (TLB, L1) and the retry of a load refused by a blocked cache |
| `SafeTick` | `updateSafeStatus()` |
| `Writeback`, `Issue` | `writebackInsts()`/`wakeDependentInstructions()`, `scheduleReadyInsts()` |
| `CommitPendingRedirect`, `CommitSignalledSquash`, `CommitNoSquash` | the three outcomes of the squash decision in `commit()`, with `getInsts()`/`insertInst()` |
| `RetireSquashed`, `RetireHead`, `EndCommit` | `commitInsts()`, `retireHead()`, `markCompletedInsts()` and the advance of the time buffers |

`updateSafeStatus()` is a loop over the ROB that collects the surviving inducers.  The
model states it as the solution of one equation for that set; since whether an inducer
survives depends on older entries only, the solution exists and is unique.

Abstractions: at most one instruction is renamed and one dispatched per cycle (an
arbitrary number may issue, execute, write back); an instruction dropped on its way to
the ROB gives its number to the next one; execution order within a tick is program
order, as the scheduler issues the oldest first; deferred translations and memory
dependence prediction appear as arbitrary delays of issue; data is the identity of the
store a load read (`readFrom`).  The history variables `readFrom`, `wrong` and
`redirected` are only read by properties and by the wrong-path marks.  Not in this
module: faults and traps, external snoops, partial store forwards, replacement metadata,
mode 0 (no protection).

### `Stages`: how the stages hand instructions on and stop each other

The pipeline from fetch to commit without values or speculation status: one action per stage
(`FetchTick`, `DecodeTick`, `RenameTick`, `IEWTick`, `CommitTick`), which is the whole `tick()` of
that stage, in the order of `FullO3CPU::tick()`.  Within a stage every operation of the code is
an operator on the state of the stage, with its name:

| stage | code |
|---|---|
| fetch | `FetchInsts`: `fetch()` and the fetch queue; `FetchSquash`: `squash()`, `squashFromDecode()` with `removeInstsNotInROB()`, `removeInstsUntil()` |
| decode | `DecodeCheck`, `Decode`, `DecodeInsts`, `DecodeBlock`, `DecodeUnblock`, `DecodeSquash` |
| rename | `ReadFreeEntries`, `RenameCheck`, `RenameStalls` (`checkStall()`), `RenameInsts` with `RenameStep`, `SerializeAfter`, `EndSerialize`, `RenameBlock`, `RenameUnblock`, `RenameSquash` |
| IEW | `IEWCheck`, `Dispatch`, `DispatchInsts`, `EmptyRenameInsts`, `IEWBlock`, `IEWUnblock`, `IEWSquash`, and `Execute` for the rest of the tick: execution, issue, store write-back, release of non-speculative instructions, the counts sent to rename |
| commit | `ContinueSquash` and `DoSquash` (`ROB::doSquash()`, some entries a cycle), `CommitSquash`, `GetInsts`, `CommitInsts`, `CommitHead`, `SendROB` |

The delays between the stages are the defaults of `O3CPU.py`: two cycles from rename to IEW, one
elsewhere.  An instruction is one of six kinds: `alu` (which may turn out a mispredicted branch), `load`,
`store`, serializing `before` or `after`, and `nonspec` (barriers and other instructions that wait
for commit).  `dead` (abandoned by a squash) and `committed` are only read by properties.
Commit squashes at arbitrary moments to a number that the code could choose (`SquashTo`: after a
branch, or from a load that passed an older load or store); why it does so is `Dolma`'s subject, and the rename history is `RenameRegs`'.
A stage that does less than it could (icache, missing registers, late operands, late answers of
the cache, a store not yet written) uses up one of a bounded number of delays.

Abstractions: one thread, equal widths, the status `Idle` is `Running` (the code treats
them alike).  Nops, strictly ordered loads, store conditionals, quiescing, draining and the wait
for a trap are left out.

### `RenameRegs`: physical registers

Rename map, commit's rename map, free list, history buffer and scoreboard of one
register class, shared by any number of threads.  `RenameInst` is `renameSrcRegs()` and
`renameDestRegs()` behind `checkStall()`/`canRename()`; `DoSquash` undoes history entries;
`EndRename` includes `removeFromHistory()`, which is skipped in the cycle of a squash;
`Writeback`/`WritebackSquashed` are the scoreboard part of `writebackInsts()`;
`CommitHead` and `CommitSquash` send the messages rename sees in the next cycle.
The free list is a set (which free register is handed out is left open), an instruction
names an architectural destination once, and a thread renames at most one instruction a
cycle.  `CommitSquash` may go back to any sequence number a branch, a violating load, a
trap or an empty ROB would give.

### `WritebackPorts`: the writeback slots

`iewQueue` as one array of slots, `Width` per cycle.  `InstToCommit(i)` is
`instToCommit()`: `SearchEnd` goes through the occupied slots with the loop's own state (the
instruction to insert, `unsafe_contender_idx`, `unsafe_contention`), including that the swap is
made at the top of the next iteration and that the index is not reset.  It is
called within a tick (`executeInsts()`) or between two ticks (writeback events).
`StartTick` resets `wbNumInst` and `wbCycle`; `EndTick` resets `wbNumInst` alone, lets
restrictions end, writes back row 0 (`writebackInsts()` stops at the first empty slot),
passes it to commit (`markCompletedInsts()` takes all of it) and advances the buffer.
Instructions finish in any order; each finishes once.

The model keeps three ways in which `instToCommit()` departs from its comment "Assure that
eldest N instructions get the ports" (`iew_impl.hh:631`), for which there is no run: the swap
is made at the first slot of the next row, and only if that slot is occupied, so that otherwise
the restricted instruction keeps its port; `unsafe_contender_idx` is not reset after a swap, so
the displaced instruction takes the slot with the same index in the next full row, whoever is
in it; and `wbCycle` keeps its value for the writeback events of the next cycle, so a load's
result may be put behind a row with free ports.  None of them loses an instruction
(`EachOnce`, `SentWereWoken`).

### `FUContention`: functional units

`Insert`, `ExecuteInsts`, `CompleteMemInst`, the outcomes of one iteration of
`scheduleReadyInsts()` (`PopSquashed`, `StallLoad`, `Issue`, `Evict`, `NoUnit`, `EndIssue`),
`Retire`, `Squash`, the completion events that are due (`EndCycle`), and
`processFreeUnits()`.  Eviction stalls the occupant (`dolmaStallInst()`) and leaves its
completion event scheduled, as in the code.  In STT mode a restricted load is stalled
instead of issued, and the iterator over the op classes is advanced twice
(`inst_queue_impl.hh:873`, `876`): `PassedAfterStall` gives the classes that are passed
over, and the wrap to the first class when the iterator steps past the end of the
list, which the circular list of the C++ library makes of it.
A failed assertion does not stop the model, since a build without assertions
goes on; the properties say which assertions fail.

Abstractions: one thread, every unit can do every operation of the model; `getUnit()` goes
round the units, the model takes any of them; the squash of ROB and IQ is one step; whether
an instruction becomes restricted is chosen at insertion (it matters only after issue), and
restrictions end at arbitrary ticks; a load executes in one cycle (what follows is
`LoadStoreQueue`).

### `MemoryOrder` and `LoadStoreQueue`: the load/store queue and what it promises

`MemoryOrder` is the abstract specification.  The memory is the log of the writes made to
it.  Accesses commit in program order; a committed store is written later, one line at a time.
A load takes place at a position of the log: it reads the thread's own older stores that are
not written before that position, and the log otherwise.  With total store order (x86,
`needsTSO`) positions never go back and stores are written in order; without it the same
holds per byte, and per line for stores.

`LoadStoreQueue` is `LSQUnit` with the circular queues, head, tail and saved indexes kept as
they are in the code, so that wrapping and squashing are part of the model.  The queues are empty
at first, with their indexes at any slot (`Start`), as earlier accesses have left them.  An access
is a set of bytes; it may cross a line (split) and overlap a store in part.

| action | code |
|---|---|
| `Insert` | `insertLoad()`, `insertStore()` |
| `Unrestrict` | the part of `updateSafeStatus()` that concerns an access: release of a delayed one, `setPendingMetadata()` |
| `ExecuteStore` | `executeStore()`, `initiateTranslation()`, `checkViolations()` |
| `Forward`, `PartialHit`, `Refused`, `DelayOnMiss`, `Access` | the outcomes of `executeLoad()`/`read()`: all data from a store, masked by a request if the store is restricted and the load is not; a partial hit, which stalls; a blocked cache; a restricted miss; a request |
| `CommitDone` | `commitLoads()`, `commitStores()` on commit's message |
| `WritebackStore`, `Retry` | `writebackStores()`, `writebackPendingStore()`, `storePostSend()`; `recvReqRetry()` with `cacheUnblocked()` and `recvRetry()` |
| `Respond` | `recvTimingResp()`, `completeDataAccess()`, `completeStore()`; the answer for a squashed load is dropped (`RespondSquashed`) |
| `RemoteWrite`, `Evict` | `recvTimingSnoopReq()`, `checkSnoop()`; the eviction callback of Ruby |
| `SquashViolator`, `SquashOther` | `squash()`, for a load that passed an older access or for another reason |
| `TrapReExec`, `Retire` | `commitHead()` and `retireHead()` with `updateMetadataIfNeeded()` |

`Refuse` is `tryTiming()` of the cache: once it has refused a request it refuses every one,
whatever port of the queue it comes from, until it has asked for a retry.  `UpdateMetadata` is
`updateMetadataIfNeeded()` with `dolmaLoad()` and `updateLRU()`.  `dolmaLoad()` does not look at the
answer of the cache: an update that is refused, or whose line the cache has lost since the access,
changes nothing and is not sent again (`lostUpdates`).  So the code promises less than that each
committed access has updated the replacement state: `UpdatesDeferred` says that nothing is updated
while an access is restricted, and that an update is lost only as its access commits.

The refinement mapping takes `log`, `retired` and `at` as they are and the result of a
committed load from `data`.  `at` is a history variable: at retirement it takes the first
position of the log that explains what the load has read, if there is one; the
abstract specification then accepts the step only if there is.

Abstractions: one thread; the value of a byte is the number of the write that made it; the
answer to a hit comes with the access; an answer that also invalidates its line
(`isInvalidate()` in `recvTimingResp()`) is a `Respond` followed by a `RemoteWrite`; the first half of a split load of which the second half was refused is
ignored, as in the code; the number of cache ports is left open.  Left out: load-locked and
store-conditional, memory-mapped registers, prefetches, predicated stores, strictly ordered
accesses and cache maintenance.  The cache is external: it answers the misses of a line in
order, may refuse, evict, and lose a line to another agent.  An eviction is forwarded to the
queue as Ruby does.  The classic caches evict silently, after which the queue hears of no
write to the line; what loads then may see is outside this code, and not claimed here.

### `MemDep`: memory dependence unit and store sets

`Insert` is the memory part of `dispatchInsts()`: `insert()`, `insertNonSpec()`,
`insertBarrier()`.  `RegsReady`, `ScheduleNonSpec` (commit's release of the head of the
ROB), `Issue`, `Reschedule`, `Replay`, `Complete` (with `wakeDependents()`), `Violation` and
`Squash` are the operations of the unit; `Retry` stands for the lists of the IQ from which an
instruction comes back (deferred, blocked, stalled).  The predictor is translated entry by
entry: `CheckInst`, `InsertStore`, `IssuedStore`, `Joined` (the four cases of
`violation()`), `ClearDue` and `Clear`, `SquashStores`.  `violation()` is called by IEW, where the
earlier access may be a load, and by commit, where it may have left the ROB.  `ready` counts how often an
instruction is on the ready list.  The initial tables are cold, or trained by one or two
violations.

Abstractions: one thread; addresses below 2^10 (so `PC >> 10` in `calcSSID()` is 0); an
instruction that is replayed may be replayed at any time (that the replay comes is shown in
`LoadStoreQueue`); faulting instructions, draining and the immediate training of STT are left
out.

### Proof modules

`OldestYoungest` (lemmas on minimum and maximum of finite sets of numbers); `Dolma_proofs`
(types, squashes, pending redirects), `DolmaPipe_proofs` (where instructions, redirects and messages
can be) and `DolmaRetire_proofs` (what retires), each extending the one before; `RenameRegs_proofs`,
`MemDep_proofs`, `FUContention_proofs`, `WritebackPorts_proofs`.
The modules whose names begin with `MC` define programs, register maps, threads and latencies
for TLC.

## Runs

| run | instance | result |
|---|---|---|
| `dolma_all` | N = 3, all streams of branches, loads, stores with at most one operand that begin with a branch or a store; two addresses; all eight configurations; a cache that does not block; squash width 1, commit width 2 | `RetireAssertions`, `LoadsReadLatestStore`, `NoWrongPathRetires`, `SafeStaysSafe`, `PendingRedirectKept` hold (1.4 M states) |
| `dolma_uses` | N = 4, chosen streams in which a loaded value is used once or twice, or with two stores and two loads; three addresses, violations checked on pairs of addresses; modes 1, 3, 4; squash width 2 | `NoPendingRetires`, `LoadsReadLatestStore`, `TaintTracked` hold (0.7 M states) |
| `dolma_live` | N = 3, store, branch or load, dependent load; default and STT | `EverythingLeaves` holds under fairness |
| `dolma_lost_redirect` | N = 4, store, branch, load, branch; mode 1; blocking cache | `RetireAssertions` is violated, see below |
| `stages` | width 2, squash width 1, fetch queue of 2; two programs of eight instructions with every kind, a ROB of 4, IQ of 3, LQ of 2, SQ of 1, two squashes and two delays; one of seventeen with a ROB of 8, one squash and no delay | `BuffersFit`, `UnblocksStalled`, `NoneLost`, `AbandonedNeverCommit`, `RedirectsHeard`, `CountsRight`, `SerializedAlone`, `NonSpecFound`, `NonSpecAlone` hold, `AllDone` under fairness (0.4 M states) |
| `rename` | one thread, two architectural registers (one of them the zero register), two spare physical ones, three instructions in flight with up to two destinations | `RegsPartitioned`, `MapMatchesInsts`, `NoUseAfterFree`, `ScoreboardRight` hold, `FreeRegsReturn` under fairness (0.13 M states) |
| `ports_slots` | two ports, four rows, five instructions of two threads, any of them restricted | `EachOnce`, `SentWereWoken` hold |
| `units` | three instructions on one unit: multiplications (2 cycles, pipelined), divisions (3 cycles, not pipelined), loads; with eviction, or in STT mode with stalled loads | `NoUnsafeContention`, `UnitsExclusive`, `EntriesCounted` hold, `AllExecute` under fairness |
| `units_freed_twice` | two instructions on one unit, with eviction | `UnitsFreedOnce` is violated, see below |
| `lsq_order` | eight programs of two to four accesses to three bytes on two lines: forwarding, masked and partial hits, split loads and stores, loads of one line around another, two stores before a load, two loads that wait for different stores; with and without total store order; queues of three slots that begin at the last; two remote writes, evictions, refusals or squashes, one in the program of four | `StallRecorded`, `SearchesRightSlots`, `UpdatesDeferred` hold, the queue implements `MemoryOrder`, `AllComplete` under fairness (0.2 M states) |
| `memdep` | six programs of four instructions: stores and loads of one set and of another, both kinds of barriers, non-speculative accesses, restricted ones; tables of four and two entries, cleared every two accesses; one retry | `NoneLost`, `ReadyOnce`, `ListedInUnit`, `SquashEnds` hold, `AllComplete` under fairness (0.13 M states) |
| `memdep_barriers` | two memory barriers and a load | `BarriersBlock` is violated, see below |

Why the bounds are enough.  A violation needs a store and a younger load; a restriction
needs an inducer before it; a held-back redirect needs both and a third instruction that
resolves: three instructions give every pairwise race, four give chains of taint
(inducer, use, use of the use) and two overlapping redirects.  Two addresses are
necessary: with one, every bypassing load collides and no inducer is ever cleared
without a squash.  Squash width 1 makes every squash take several cycles.  Three
instructions in flight over two registers give two writers of one register on a wrong
path and one on the right path.
In `Stages`, the skid buffers of decode and rename fill to their last entry; every queue
fills; a squash can meet each status of each stage.  A ROB of 8 squashed one entry a cycle
squashes for longer than a new instruction takes from fetch to IEW, which is when IEW has to
hold instructions back.
In `WritebackPorts`, two ports and five instructions fill two rows and overflow
into a third, which the swaps need (a second swap in one search takes six, and is covered by the
proof only); the assumption on the number of instructions keeps the
search inside the buffer.  In `FUContention`, an eviction needs two instructions and one unit;
a third lets an evictor be evicted.
In `LoadStoreQueue`, queues of three slots (two usable) that begin at the last slot wrap with the
first access; two stores of a byte and a load of it make the load choose; store, load, store, load
has a store younger than a load and two loads that wait for different stores; the reordering of loads needs two loads of a line, a third access that delays the
older one, and one remote write; a refusal of each half of a split access needs two
events.  In `MemDep`, a chain of dependences takes three instructions, the nesting of
barriers three, and the clearing of the tables between the insertion and the issue of a
store happens with a period of two.

Fairness.  The clock ticks (weak fairness of `Next`); fetch delivers, and dispatch,
the scheduler and the writeback ports serve the oldest instruction first, so none
of them ignores an instruction for ever (strong fairness of these actions, because a
cycle may begin or end in between); the cache does not stay blocked for ever (strong
fairness of `ExecuteLoad`).  Misses are not limited: a restricted load may miss every time.
In `Stages`, only the clock ticks: the next stage's turn comes (`WF_stage(Clock)`); squashes and
delays are bounded, everything else is what the stages do by themselves.
In `RenameRegs`, instructions execute and the head of the ROB commits.  In
`FUContention`, the
clock ticks, operands become ready and restrictions end, since older instructions
finish (strong fairness, because the step is possible once a cycle).
In `LoadStoreQueue`, some step is taken whenever one is possible: since remote writes,
evictions, refusals and squashes are bounded, all else is the progress of the core and of
the cache.  In `MemDep`, weak fairness of `Advance`, which is every step but a squash and a
violation: registers become ready, restrictions end, the head of the ROB is released and
retired, what has issued completes or is replayed.

### The disagreement `dolma_lost_redirect` shows

`clearInROB()` asserts that a retiring instruction is no control inducer
(`base_dyn_inst.hh:1085`).  A store S(1), a branch B(2), a load L(3) restricted by B and
refused by a blocked cache, and a branch C(4): S and C execute in one tick.  S collides
with L, so the redirect for L is signalled and L becomes pending; C's outcome is dropped
because of it ("Violation will not be handled because already squashing",
`iew_impl.hh:1473`), so C stays a control inducer.  Commit holds L's redirect back.  L is
retried, misses, and `setDolmaStalled()` clears its pending redirect.  No squash happens,
C never executes again, and the assertion fails when C retires (or C's own redirect is
lost).  If the redirect that is lost is the one a fifth instruction needs, that instruction
retires on a wrong path or with an old value: with five instructions and a blocking cache
`NoWrongPathRetires` and `LoadsReadLatestStore` fail for the same reason.  With a cache that does not
block the three properties hold for every number of instructions, which is proved below;
`dolma_all` checks the same case.

### The disagreement `units_freed_twice` shows

An instruction is evicted while its `FUCompletion` event is scheduled.  The event frees the
unit of the evictor; when the evictor completes, the unit is freed although it is not busy
(assertions in `fu_pool.cc:191`, `202`).  Two other assertions fail after an eviction: the event
hands the stalled instruction to `executeInsts()` (`iew_impl.hh:1301`), and the instruction
issues again and gives its IQ entry back a second time (`inst_queue_impl.hh:1014`).
Without eviction units are freed once and entries counted right (`UnitsExclusive`,
`EntriesCounted` in `units`).

### The disagreement `memdep_barriers` shows

"Memory barriers block loads and stores, write barriers only stores."
(`mem_dep_unit_impl.hh:319`).  The unit remembers one barrier of each kind, the youngest.
When the younger of two memory barriers is squashed, `squash()` (520-524) resets
`loadBarrier` although the older barrier is still there; a load inserted afterwards has no
producer and may execute before it.  On x86 two `mfence` micro-ops on both sides of a
mispredicted branch are such a pair.  A second way past a barrier is intended: a restricted
producer is not waited for (`mem_dep_unit_impl.hh:215`), which includes a restricted
barrier.

## Proofs

For every number of instructions, program, configuration, width and address set
satisfying the `ASSUME`s of `Dolma` (operands are older instructions, only branches and jumps are
mispredicted, widths are positive):

* `TypeCorrect`: `Spec => []TypeOK`.
* `SafeStays`: `Spec => SafeStaysSafe`.  Each action that adds restrictions
  adds them to instructions that have not issued.
* `RedirectsKept`: `Spec => PendingRedirectKept`.
* `PendingNeverRetires`: `Spec => []NoPendingRetires`.  The property is not inductive.
  `SquashInv` says what a squash in progress guarantees (entries above the squash number
  are squashed or still ahead of the iterator, `youngest` bounds what is not), `PendInv` that
  a pending instruction is not allowed to commit and has executed; `SignalInv`
  relates the redirect in the time buffers to the instruction that sent it.

The same with the hypothesis `~CacheBlocks` (an L1 that never refuses a request; otherwise
the three are false, as `dolma_lost_redirect` shows for the last):

* `WrongPathNeverRetires`: `Spec => []NoWrongPathRetires`;
* `RetiredLoadsAreRight`: `Spec => []LoadsReadLatestStore`;
* `RetiresSafe`: `Spec => []RetireAssertions`.

  The argument is about redirects that are *due*: pending at commit or on their way to it
  (`Coming`).  A redirect that is due *covers* its instruction and all younger ones, and so does a
  squash that has passed them (`Covered`).  `CoverInv` says that whatever must not retire as it is
  (a branch that has executed and has not redirected fetch, the violator a store has recorded, a
  load that has not read the latest store to its address) is covered.  It is inductive because a cover
  ends only with a squash of what it covers or with the redirect of its own instruction: a redirect
  that IEW drops as "already squashing" is covered by the older one, and one that commit ignores
  waits behind an older one.  The step that breaks this with a blocking cache is a pending load
  that executes a second time and stalls; `PendKept` excludes it.  The head of the ROB is never
  covered when it retires (`HeadNotCovered`), since an instruction with a redirect may not commit and
  a signalled one is acted on before commit goes on.  Hence a retiring branch is settled
  (`SettledInv`), an instruction on a wrong path stays behind a branch that is not (`WrongInv`), and the
  stores a retiring load depends on have all retired.  For the assertions, `Reasons` says why
  something is still restricted after `updateSafeStatus()`: an older unresolved branch or
  store, an older inducer, or a cover, none of which the head has.
  `PipeInv` collects where instructions, messages and status bits can be meanwhile: program order
  in the ROB, what a squashed instruction keeps, what a signalled redirect names.

For every set of threads, architectural and physical registers (the initial maps are
disjoint except for the shared zero register):

* `TypeCorrect`: `Spec => []TypeOK`.
* `Partitioned`: `Spec => []RegsPartitioned`.  The partition is inductive only together
  with the shape of the history buffer: per thread and architectural register the
  entries form a chain (`ChainInv`: the `prev` of an entry is the `new` of the one before, the
  map holds the youngest), so that undoing a suffix restores a register which some
  entry kept, and `EntriesInv` bounds the sequence numbers.
* `MapFollowsOrder`, `UsedNotFree`, `ScoreboardCorrect`: `Spec => []MapMatchesInsts`,
  `[]NoUseAfterFree`, `[]ScoreboardRight`.  They rest on the partition and on `FlightInv`.  Its central
  notion is `Maps(t, a, n, p)`: the history buffer keeps enough of the past to say that register `a` was
  mapped to `p` after instruction `n`.  Commit's map and the sources and destinations of
  every instruction in flight are such maps of the past (`CommitMapInv`, `OperandsInv`), and a register of a
  map of the past is mapped or kept by a history entry, hence not free.  `SeqInv`, `MsgInv` and
  `WritersInv` relate the sequence numbers in the messages of commit to what rename has
  acted on; `DestsInv` gives every register in flight one writer, which the scoreboard needs.

For every program, number of instructions, table size and clear period (`MemDep`):

* `NothingLost`, `NothingTwice`, `NothingStale`: `Spec => []NoneLost`, `[]ReadyOnce`,
  `[]ListedInUnit`.  None is inductive.  `IInv` adds that an entry depends on at
  most one older entry of the unit (`Dependences`, so that a squash never takes a producer
  without its dependents), what each bit says about where an entry may be
  (`Bits`), and that an entry is on exactly one list (`Somewhere`, `Once`).  There is one
  lemma per operation.
* `TypeCorrect`: `Spec => []TypeOK`, from `IInv`, `PredictorInv` and the ranges of the barriers'
  numbers and of the last stores, which grow with the tail (`Types2`, `TypesLFST`).
* `BarrierIsYoungest`: `Spec => []YoungestBarrier`, from `BarrierInv` (a barrier in effect is
  an entry of the unit, of the right kind).
* `StoreSetSquashEnds`: `Spec => []SquashEnds`.  The loop of `StoreSet::squash()` does not
  advance past an entry whose set has an older last store; `PredictorInv` says that
  there is none: a store in `storeList` is never younger than the last store of its set,
  also after a violation merges sets and after the tables are cleared.

For every program, number of units and latency (`FUContention`):

* `ContentionIsSafe`, `UnitsAreExclusive`, `EntriesAreCounted`: `Spec => []NoUnsafeContention`,
  `[]UnitsExclusive`, `[]EntriesCounted`, from `FUInv`.  `ContentionInv` carries through one pass of the
  scheduler what holds once a class was skipped: no unit becomes free, and what is looked
  at later is younger than what was refused.  `UnitsInv` says that in STT mode, where nothing is evicted,
  a busy unit is either about to be freed or held until one completion event; `QueueInv` where an
  instruction of each status can be, and that the count is the number of entries.

For every number of ports, rows, threads and instructions that fit into the buffer
(`WritebackPorts`):

* `PortsKeepEach`, `PortsWakeAll`: `Spec => []EachOnce`, `[]SentWereWoken`, from `PortsInv`: every instruction
  that has finished is in one slot or was sent (`OnceInv`), the rows to come have no gap in front of
  an instruction (`GapInv`), and there is a free slot within reach (`RoomInv`, a count of the occupied
  ones).  The loop of `instToCommit()` is treated by its invariant: at every slot the instruction in
  hand and the slots together hold what they held at the beginning.

The inductive invariants were model-checked on the instances above before they were proved.
Type correctness and `YoungestBarrier` are proved and not repeated in the runs.
Only model-checked: the liveness properties; `TaintTracked`, which follows chains of `ydi` through
squashes; the refinement of `MemoryOrder` and the other invariants of `LoadStoreQueue`; and `Stages` as
a whole.  Liveness under fairness, and facts that need induction over data, are outside the
prover's reach.

## Not modelled

* Traps other than re-execution, interrupts, squash-after and draining in commit; PC
  values of a redirect.
* The branch predictor, the PCs and macro-ops in fetch and decode, the icache.
* Sets, ways and coherence states of the caches; the TLB walker.
* Simultaneous multithreading, except in `RenameRegs` and `WritebackPorts`.
* The store-conditional and memory-mapped paths of the load/store queue.
* Simple CPUs, other ISAs, Ruby, devices, SystemC and the simulator kernel: stock gem5,
  untouched by the scheme.  They are most of the repository, which is why the models cover a
  small share of its lines although they cover most of the scheme.
* Scripts and experiment tooling.

To be proved next: `SearchesRightSlots` and `StallRecorded` for `LoadStoreQueue`; `CountsRight` and
`BuffersFit` for `Stages`; `TaintTracked` for `Dolma`.
