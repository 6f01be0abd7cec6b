------------------------------- MODULE Stages -------------------------------
(***************************************************************************)
(* How the stages of the O3 pipeline pass instructions on, and stop one    *)
(* another: the block and unblock signals and the skid buffers of decode,  *)
(* rename and IEW, the counts of free entries that rename works from, the  *)
(* serializing instructions that wait in rename, and the squashes of       *)
(* decode and commit.  One thread.                                         *)
(*                                                                         *)
(* A cycle is FullO3CPU::tick(): one action per stage, in that order.  An  *)
(* instruction is its sequence number.  A time buffer is the sequence of   *)
(* its slots, slot 1 the one written in this cycle; a signal that goes     *)
(* backward with a delay of one cycle needs one slot only, because its     *)
(* reader ticks before its writer.  All widths are Width.                  *)
(***************************************************************************)
EXTENDS Integers, FiniteSets, FiniteSetsExt, SequencesExt

CONSTANTS
    Width,           \* fetchWidth, decodeWidth, renameWidth, dispatchWidth, commitWidth
    SquashWidth,     \* entries of the ROB that are squashed in a cycle
    FetchQueueSize,  \* fetchQueueSize
    Setups           \* what Init chooses from: for each setup, the kinds of the instructions in
                     \* the order they are fetched, the entries of the queues, and bounds on the
                     \* squashes and on the cycles in which a stage does less than it could

\* before and after: serializing instructions; nonspec: barriers and other instructions that
\* IEW does not execute before commit tells it to.
Kinds == {"alu", "load", "store", "before", "after", "nonspec"}

ASSUME StagesAssumption ==
    /\ {Width, SquashWidth, FetchQueueSize} \subseteq Nat \ {0}
    /\ Setups \subseteq [program : Seq(Kinds), entries : [{"ROB", "IQ", "LQ", "SQ"} -> Nat \ {0}],
                         squashes : Nat, delays : Nat]

VARIABLES
    stage,        \* the stage that ticks next
    program,      \* kinds of the instructions
    entries,      \* entries of the ROB, the IQ, the LQ and the SQ
    fetch,        \* status, stalls.decode, fetchQueue, number of instructions fetched
    decode,       \* status, stalls.rename, skidBuffer, insts
    rename,       \* status, stalls.iew, skidBuffer, insts, freeEntries, ...
    iew,          \* dispatchStatus, skidBuffer, insts, the IQ and the LSQ
    commit,       \* commitStatus, the ROB, ...
    fetchQueue, decodeQueue, renameQueue, iewQueue,  \* time buffers
    decodeSig, renameSig, iewSig, commitSig,         \* signals to the stages before
    squashed,     \* instructions marked squashed
    before,       \* those marked to serialize before (setSerializeBefore())
    handled,      \* those whose serialization has been handled
    squashes, delays,  \* how many more there may be
    dead,         \* ghost: instructions on a path that a squash has abandoned
    committed     \* ghost: instructions committed

buffers == <<fetchQueue, decodeQueue, renameQueue, iewQueue>>
signals == <<decodeSig, renameSig, iewSig, commitSig>>
marks == <<squashed, before, handled>>
setup == <<program, entries>>
bounds == <<squashes, delays>>
ghosts == <<dead, committed>>
vars == <<stage, setup, fetch, decode, rename, iew, commit, buffers, signals, marks,
          bounds, ghosts>>

Load(i) == program[i] = "load"
Store(i) == program[i] = "store"
MemRef(i) == Load(i) \/ Store(i)
NonSpec(i) == program[i] = "nonspec"
NumLoads(s) == Cardinality({k \in DOMAIN s : Load(s[k])})
NumStores(s) == Cardinality({k \in DOMAIN s : Store(s[k])})
Live(i) == i \notin squashed

NoDecodeSig == [block |-> FALSE, unblock |-> FALSE, squash |-> 0]
NoRenameSig == [block |-> FALSE, unblock |-> FALSE]
NoIEWSig == [block |-> FALSE, unblock |-> FALSE, dispatched |-> 0, toLQ |-> 0, toSQ |-> 0,
             used |-> FALSE, IQ |-> 0, LQ |-> 0, SQ |-> 0]
NoCommitSig == [squash |-> FALSE, robSquashing |-> FALSE, done |-> 0, nonSpec |-> 0,
                usedROB |-> FALSE, freeROB |-> 0, emptyROB |-> FALSE]

\* resetStage(); a stage that is Idle does what it does when it is Running.
Init ==
    /\ stage = "fetch"
    /\ \E s \in Setups : /\ program = s.program /\ entries = s.entries
                         /\ squashes = s.squashes /\ delays = s.delays
    /\ fetch = [status |-> "Running", stall |-> FALSE, queue |-> <<>>, seq |-> 0]
    /\ decode = [status |-> "Running", stall |-> FALSE, skid |-> <<>>, insts |-> <<>>]
    /\ rename = [status |-> "Running", stall |-> FALSE, skid |-> <<>>, insts |-> <<>>,
                 free |-> entries, emptyROB |-> TRUE, all |-> 0, loads |-> 0, stores |-> 0,
                 serial |-> 0, onNext |-> FALSE, resume |-> FALSE]
    /\ iew = [status |-> "Running", skid |-> <<>>, insts |-> <<>>, IQ |-> {}, LQ |-> {},
              SQ |-> {}, nonSpec |-> {}, issued |-> {}, executing |-> {}, canWB |-> {},
              updateLSQ |-> FALSE]
    /\ commit = [status |-> "Running", rob |-> <<>>, youngest |-> 0, last |-> 0,
                 canCommit |-> {}, squashIt |-> 0, squashTo |-> 0, checkEmpty |-> FALSE]
    /\ fetchQueue = <<<<>>, <<>>>> /\ decodeQueue = <<<<>>, <<>>>>
    /\ renameQueue = <<<<>>, <<>>, <<>>>> /\ iewQueue = <<{}, {}>>
    /\ decodeSig = NoDecodeSig /\ renameSig = NoRenameSig
    /\ iewSig = NoIEWSig /\ commitSig = NoCommitSig
    /\ squashed = {} /\ before = {} /\ handled = {}
    /\ dead = {} /\ committed = {}
-----------------------------------------------------------------------------
\* readStallSignals(): the stall bit after the block and unblock signals.
Stalled(stall, sig) == (stall \/ sig.block) /\ ~sig.unblock

\* Mutant: the first one is left.
MutantAfter(seq) == (seq + 2)..fetch.seq
\* removeInstsNotInROB() and removeInstsUntil(): the instructions fetched after seq.
After(seq) == (seq + 1)..fetch.seq
NotInROB == After(IF commit.rob = <<>> THEN commit.last ELSE Last(commit.rob))

\* Mutant: fetch does not mark them.
MutantFetchSquash(insts) ==
    /\ fetch' = [fetch EXCEPT !.status = "Squashing", !.queue = <<>>,
                              !.stall = Stalled(fetch.stall, decodeSig)]
    /\ UNCHANGED <<fetchQueue, delays, squashed>>
\* Fetch::doSquash() with the instructions that the CPU then marks squashed.
FetchSquash(insts) ==
    /\ fetch' = [fetch EXCEPT !.status = "Squashing", !.queue = <<>>,
                              !.stall = Stalled(fetch.stall, decodeSig)]
    /\ squashed' = squashed \cup insts
    /\ UNCHANGED <<fetchQueue, delays>>

Room == Min({Width, FetchQueueSize - Len(fetch.queue), Len(program) - fetch.seq})

\* fetch() puts n instructions into the fetch queue; tick() sends the first of the queue
\* to decode unless decode stalls.
FetchInsts(n) ==
    LET stall == Stalled(fetch.stall, decodeSig)
        queue == fetch.queue \o [k \in 1..n |-> fetch.seq + k]
        sent == IF stall THEN 0 ELSE Min({Width, Len(queue)})
    IN  /\ fetch' = [status |-> "Running", stall |-> stall, seq |-> fetch.seq + n,
                     queue |-> SubSeq(queue, sent + 1, Len(queue))]
        /\ fetchQueue' = [fetchQueue EXCEPT ![1] = SubSeq(queue, 1, sent)]
        /\ delays' = delays - (IF n < Room THEN 1 ELSE 0)
        /\ UNCHANGED squashed

\* Fetch::tick().
FetchTick ==
    /\ stage = "fetch" /\ stage' = "decode"
    /\ IF commitSig.squash THEN FetchSquash(NotInROB)
       ELSE IF decodeSig.squash # 0 /\ fetch.status # "Squashing"
            THEN FetchSquash(After(decodeSig.squash))
       ELSE \E n \in {Room} \cup (IF delays > 0 THEN 0..Room ELSE {}) : FetchInsts(n)
    /\ UNCHANGED <<setup, decode, rename, iew, commit, decodeQueue, renameQueue, iewQueue,
                   signals, before, handled, squashes, ghosts>>
-----------------------------------------------------------------------------
\* A stage at work: its state, the signals it sends and the instructions it passes on.
SkidInsert(s) == [s EXCEPT !.skid = s.skid \o s.insts, !.insts = <<>>]
Unblocking(s) == [s EXCEPT !.status = "Unblocking"]
Running(s) == [s EXCEPT !.status = "Running"]

\* Decode::block().
DecodeBlock(s) ==
    LET t == SkidInsert(s)
    IN  IF s.status = "Blocked" THEN t
        ELSE [t EXCEPT !.status = "Blocked",
                       !.sig.block = @ \/ ~s.sig.unblock, !.sig.unblock = FALSE]

\* Decode::unblock().
DecodeUnblock(s) ==
    IF s.skid = <<>> THEN [s EXCEPT !.status = "Running", !.sig.unblock = TRUE] ELSE s

\* Mutant: fetch is told to go on whatever decode's status is.
MutantDecodeSquash(s) ==
    [s EXCEPT !.sig.unblock = TRUE, !.status = "Squashing", !.insts = <<>>, !.skid = <<>>]
\* Decode::squash(), for commit's squash or for its own.
DecodeSquash(s) ==
    [s EXCEPT !.sig.unblock = @ \/ s.status \in {"Blocked", "Unblocking"},
              !.status = "Squashing", !.insts = <<>>, !.skid = <<>>]

\* Decode::checkSignalsAndUpdate().
DecodeCheck(s) ==
    IF commitSig.squash THEN DecodeSquash(s)
    ELSE IF s.stall THEN DecodeBlock(s)
    ELSE IF s.status = "Blocked" THEN DecodeUnblock(Unblocking(s))
    ELSE IF s.status = "Squashing" THEN Running(s)
    ELSE s

\* The instructions to work on, and the stage with rest left of them; status is the one
\* it had before.
Source(s) == IF s.status = "Unblocking" THEN s.skid ELSE s.insts
Leave(s, status, rest) ==
    IF status = "Unblocking" THEN [s EXCEPT !.skid = rest] ELSE [s EXCEPT !.insts = rest]

\* Decode::decodeInsts(): up to Width instructions, none after m, which decode finds to
\* be mispredicted (0: none).
DecodeInsts(s, m) ==
    LET src == Source(s)
        n == Min({k \in 0..Len(src) :
                     \/ k = Len(src)
                     \/ Len(SelectSeq(SubSeq(src, 1, k), Live)) = Width
                     \/ k > 0 /\ src[k] = m /\ Live(m)})
        out == SelectSeq(SubSeq(src, 1, n), Live)
        rest == SubSeq(src, n + 1, Len(src))
        t == [Leave(s, s.status, rest) EXCEPT !.out = out]
    IN  IF m \in Range(out)
        THEN [DecodeSquash(t) EXCEPT !.sig.squash = m]
        ELSE IF rest # <<>> THEN DecodeBlock(t) ELSE t

\* Decode::decode().
Decode(s, m) ==
    CASE s.status = "Running" -> DecodeInsts(s, m)
      [] s.status = "Unblocking" ->
             LET t == DecodeInsts(s, m)
             IN  DecodeUnblock(IF fetchQueue[2] # <<>> THEN SkidInsert(t) ELSE t)
      [] OTHER -> s

\* Decode::tick().
DecodeTick ==
    /\ stage = "decode" /\ stage' = "rename"
    /\ \E m \in {0} \cup {i \in 1..fetch.seq : program[i] = "alu" /\ squashes > 0} :
        LET s == Decode(DecodeCheck([status |-> decode.status, skid |-> decode.skid,
                                     stall |-> Stalled(decode.stall, renameSig),
                                     insts |-> decode.insts \o fetchQueue[2],
                                     sig |-> NoDecodeSig, out |-> <<>>]), m)
            young == IF m = 0 THEN {} ELSE After(m)
        IN  /\ s.sig.squash = m
            /\ decode' = [status |-> s.status, stall |-> s.stall, skid |-> s.skid,
                          insts |-> s.insts]
            /\ decodeSig' = s.sig /\ decodeQueue' = [decodeQueue EXCEPT ![1] = s.out]
            /\ squashed' = squashed \cup young
                             \cup IF commitSig.squash THEN Range(fetchQueue[2]) ELSE {}
            /\ dead' = dead \cup young
            /\ squashes' = squashes - (IF m = 0 THEN 0 ELSE 1)
    /\ fetchQueue' = [fetchQueue EXCEPT ![2] = <<>>]
    /\ UNCHANGED <<setup, fetch, rename, iew, commit, renameQueue, iewQueue, renameSig,
                   iewSig, commitSig, before, handled, delays, committed>>
-----------------------------------------------------------------------------
\* Rename's count of the free entries of a queue.
FreeROB(s) == s.free["ROB"] - (s.all - iewSig.dispatched)
FreeIQ(s) == s.free["IQ"] - (s.all - iewSig.dispatched)
FreeLQ(s) == s.free["LQ"] - (s.loads - iewSig.toLQ)
FreeSQ(s) == s.free["SQ"] - (s.stores - iewSig.toSQ)

\* Rename::readFreeEntries().
ReadFreeEntries(s) ==
    [s EXCEPT !.free = [q \in DOMAIN entries |->
                           CASE q = "ROB" -> IF commitSig.usedROB THEN commitSig.freeROB ELSE @[q]
                             [] OTHER -> IF iewSig.used THEN iewSig[q] ELSE @[q]],
              !.emptyROB = IF commitSig.usedROB THEN commitSig.emptyROB ELSE @]

\* Mutant: a serialize stall does not wait for the instructions in flight to IEW.
MutantRenameStalls(s, regs) ==
    \/ s.stall \/ FreeROB(s) <= 0 \/ FreeIQ(s) <= 0
    \/ FreeLQ(s) <= 0 /\ FreeSQ(s) <= 0
    \/ regs = 0
    \/ s.status = "SerializeStall" /\ ~s.emptyROB
\* Rename::checkStall(); regs is the number of instructions for which there are registers.
RenameStalls(s, regs) ==
    \/ s.stall
    \/ FreeROB(s) <= 0
    \/ FreeIQ(s) <= 0
    \/ FreeLQ(s) <= 0 /\ FreeSQ(s) <= 0
    \/ regs = 0
    \/ s.status = "SerializeStall" /\ (~s.emptyROB \/ s.all # 0)

\* Mutant: decode is not told to block.
MutantRenameBlock(s) ==
    IF s.status = "SerializeStall" THEN SkidInsert(s)
    ELSE [SkidInsert(s) EXCEPT !.status = "Blocked"]
\* Rename::block().
RenameBlock(s) ==
    LET t == SkidInsert(s)
        u == IF s.status \in {"Blocked", "Unblocking"} THEN t
             ELSE [t EXCEPT !.sig = [block |-> TRUE, unblock |-> FALSE]]
    IN  IF s.status = "SerializeStall" THEN u ELSE [u EXCEPT !.status = "Blocked"]

\* Rename::unblock().
RenameUnblock(s) ==
    IF s.skid = <<>> /\ s.status # "SerializeStall"
    THEN [s EXCEPT !.status = "Running", !.sig.unblock = TRUE] ELSE s

\* Rename::squash(); the rename history is left to RenameRegs.
RenameSquash(s) ==
    LET keeps == s.status = "SerializeStall" /\ s.serial <= commitSig.done
        frees == s.status \in {"Blocked", "Unblocking", "SerializeStall"} /\ ~keeps
    IN  [s EXCEPT !.sig.unblock = @ \/ frees, !.resume = (@ /\ ~frees) \/ keeps,
                  !.serial = IF frees THEN 0 ELSE @,
                  !.status = "Squashing", !.insts = <<>>, !.skid = <<>>]

\* A serialize stall ends: the instruction goes back to the front.
EndSerialize(s) ==
    LET t == RenameUnblock(Unblocking(s))
        u == [t EXCEPT !.serial = 0, !.before = @ \ {s.serial}]
    IN  IF t.skid # <<>> THEN [u EXCEPT !.skid = <<s.serial>> \o @]
        ELSE [u EXCEPT !.insts = <<s.serial>> \o @]

\* Rename::checkSignalsAndUpdate(); resumeUnblocking is never set.
RenameCheck(r, regs) ==
    LET s == ReadFreeEntries(r)
    IN  IF commitSig.squash THEN RenameSquash(s)
        ELSE IF RenameStalls(s, regs) THEN RenameBlock(s)
        ELSE CASE s.status = "Blocked" -> RenameUnblock(Unblocking(s))
               [] s.status = "Squashing" ->
                      IF s.resume THEN [s EXCEPT !.status = "SerializeStall"] ELSE Running(s)
               [] s.status = "SerializeStall" -> EndSerialize(s)
               [] OTHER -> s

\* Rename::serializeAfter(): the next instruction waits for the ROB to be empty.
SerializeAfter(a) ==
    IF a.rest = <<>> THEN [a EXCEPT !.onNext = TRUE]
    ELSE [a EXCEPT !.before = @ \cup {Head(a.rest)}]

SerializesBefore(a, i) == (program[i] = "before" \/ i \in a.before) /\ i \notin a.handled

\* Instruction i is renamed, if no serialization of it is left to handle.
RenameInst(a, i) ==
    LET p == [a EXCEPT !.rest = Tail(@)]
        q == IF program[i] = "after" /\ i \notin a.handled
             THEN SerializeAfter([p EXCEPT !.handled = @ \cup {i}]) ELSE p
    IN  IF SerializesBefore(a, i)
        THEN [p EXCEPT !.status = "SerializeStall", !.serial = i, !.stop = TRUE,
                       !.handled = IF i \in a.before THEN @ ELSE @ \cup {i}]
        ELSE [q EXCEPT !.out = Append(@, i), !.avail = @ - 1,
                       !.loads = @ + (IF Load(i) THEN 1 ELSE 0),
                       !.stores = @ + (IF Store(i) THEN 1 ELSE 0)]

\* One turn of the loop of renameInsts().
RenameStep(a, i) ==
    IF \/ a.stop \/ a.avail = 0 \/ Len(a.out) = Width
       \/ Load(i) /\ FreeLQ(a) <= 0
       \/ Store(i) /\ FreeSQ(a) <= 0
    THEN [a EXCEPT !.stop = TRUE]
    ELSE IF ~Live(i) THEN [a EXCEPT !.rest = Tail(@), !.avail = @ - 1]
    ELSE IF Len(a.out) >= a.regs THEN [a EXCEPT !.stop = TRUE]
    ELSE RenameInst(a, i)

\* serializeOnNextInst marks the first instruction, unless nothing is in flight.
MarkNext(a) ==
    IF ~a.onNext THEN a
    ELSE IF a.emptyROB /\ a.all = 0 THEN [a EXCEPT !.onNext = FALSE]
    ELSE [a EXCEPT !.before = @ \cup {Head(a.rest)}]

\* Rename::renameInsts().
RenameInsts(s, regs) ==
    LET src == Source(s)
        room == Min({FreeROB(s), FreeIQ(s)})
        a == FoldLeft(RenameStep,
                      MarkNext([s EXCEPT !.rest = src, !.avail = Min({room, Len(src)}),
                                         !.regs = regs]), src)
        t == [Leave(a, s.status, a.rest) EXCEPT !.all = @ + Len(a.out)]
        full == room < Len(src) \/ a.avail > 0
    IN  IF src = <<>> THEN s
        ELSE IF room <= 0 THEN RenameBlock(s)
        ELSE IF full THEN [RenameBlock(t) EXCEPT !.sig.unblock = FALSE] ELSE t

\* Rename::rename().
Rename(s, regs) ==
    CASE s.status = "Running" -> RenameInsts(s, regs)
      [] s.status = "Unblocking" ->
             LET t == RenameInsts(s, regs)
                 valid == \E k \in DOMAIN decodeQueue[2] : Live(decodeQueue[2][k])
             IN  RenameUnblock(IF valid THEN SkidInsert(t) ELSE t)
      [] s.status = "SerializeStall" /\ s.resume ->
             [RenameBlock([s EXCEPT !.resume = FALSE]) EXCEPT !.sig.unblock = FALSE]
      [] OTHER -> s

\* Rename::tick().
RenameTick ==
    /\ stage = "rename" /\ stage' = "iew"
    /\ \E regs \in {Width} \cup (IF delays > 0 THEN 0..Width ELSE {}) :
        LET r == [rename EXCEPT !.stall = Stalled(@, iewSig), !.insts = @ \o decodeQueue[2]]
            s == Rename(RenameCheck(r @@ [before |-> before, handled |-> handled,
                                          sig |-> NoRenameSig, out |-> <<>>, rest |-> <<>>,
                                          avail |-> 0, regs |-> 0, stop |-> FALSE], regs), regs)
        IN  /\ rename' = [Restrict(s, DOMAIN rename) EXCEPT !.all = @ - iewSig.dispatched,
                              !.loads = @ - iewSig.toLQ, !.stores = @ - iewSig.toSQ]
            /\ before' = s.before /\ handled' = s.handled
            /\ renameSig' = s.sig /\ renameQueue' = [renameQueue EXCEPT ![1] = s.out]
            /\ delays' = delays - (IF regs < Width THEN 1 ELSE 0)
    /\ squashed' = squashed \cup {i \in Range(decodeQueue[2]) :
                                      commitSig.squash /\ i > commitSig.done}
    /\ decodeQueue' = [decodeQueue EXCEPT ![2] = <<>>]
    /\ UNCHANGED <<setup, fetch, decode, iew, commit, fetchQueue, iewQueue, decodeSig,
                   iewSig, commitSig, squashes, ghosts>>
-----------------------------------------------------------------------------
\* IEW tells rename that it has taken the instructions of seq.
Report(s, seq) ==
    [s EXCEPT !.sig.dispatched = @ + Len(seq), !.sig.toLQ = @ + NumLoads(seq),
              !.sig.toSQ = @ + NumStores(seq)]

\* IEW::emptyRenameInsts().
EmptyRenameInsts(s) == [Report(s, s.insts) EXCEPT !.insts = <<>>]

\* IEW::block().
IEWBlock(s) ==
    [SkidInsert(s) EXCEPT !.sig.block = @ \/ s.status \notin {"Blocked", "Unblocking"},
                          !.status = "Blocked"]

\* IEW::unblock().
IEWUnblock(s) ==
    IF s.skid = <<>> THEN [s EXCEPT !.status = "Running", !.sig.unblock = TRUE] ELSE s

\* Mutant: the instructions of the skid buffer are not reported to rename.
MutantIEWSquash(s) ==
    LET Older(q) == {i \in q : i <= commitSig.done}
    IN  [EmptyRenameInsts(s) EXCEPT
            !.sig.unblock = s.status \in {"Blocked", "Unblocking"},
            !.status = "Squashing", !.skid = <<>>, !.updated = TRUE,
            !.IQ = Older(@), !.LQ = Older(@), !.SQ = Older(@), !.nonSpec = Older(@),
            !.executing = Older(@)]
\* IEW::squash(), with the squashes of the IQ and the LSQ, and the signal to rename.
IEWSquash(s) ==
    LET Older(q) == {i \in q : i <= commitSig.done}
    IN  [EmptyRenameInsts(Report(s, s.skid)) EXCEPT
            !.sig.unblock = s.status \in {"Blocked", "Unblocking"},
            !.status = "Squashing", !.skid = <<>>, !.updated = TRUE,
            !.IQ = Older(@), !.LQ = Older(@), !.SQ = Older(@), !.nonSpec = Older(@),
            !.executing = Older(@)]

Full(s, q) == Cardinality(s[q]) >= entries[q]

\* Mutant: IEW does not block while the ROB squashes.
MutantIEWCheck(r) ==
    IF commitSig.squash THEN IEWSquash(r)
    ELSE IF commitSig.robSquashing THEN EmptyRenameInsts([r EXCEPT !.status = "Squashing"])
    ELSE IF Full(r, "IQ") THEN IEWBlock(r)
    ELSE IF r.status = "Blocked" THEN IEWUnblock(Unblocking(r))
    ELSE IF r.status = "Squashing" THEN Running(r)
    ELSE r
\* IEW::checkSignalsAndUpdate().
IEWCheck(r) ==
    LET s == IF commitSig.robSquashing
             THEN EmptyRenameInsts([r EXCEPT !.status = "Squashing"]) ELSE r
    IN  IF commitSig.squash THEN IEWSquash(r)
        ELSE IF commitSig.robSquashing \/ Full(s, "IQ") THEN IEWBlock(s)
        ELSE IF s.status = "Blocked" THEN IEWUnblock(Unblocking(s))
        ELSE IF s.status = "Squashing" THEN Running(s)
        ELSE s

\* Instruction i goes into the IQ, and into the LSQ if it accesses memory, or into
\* nonSpecInsts if it has to wait for commit.
Insert(a, i) ==
    [a EXCEPT !.IQ = @ \cup {i}, !.LQ = @ \cup (IF Load(i) THEN {i} ELSE {}),
              !.SQ = @ \cup (IF Store(i) THEN {i} ELSE {}),
              !.nonSpec = @ \cup (IF NonSpec(i) THEN {i} ELSE {})]

\* One turn of the loop of dispatchInsts().
DispatchStep(a, i) ==
    LET t == Report([a EXCEPT !.rest = Tail(@), !.num = @ + 1], <<i>>)
    IN  IF a.stop \/ a.num = Width THEN [a EXCEPT !.stop = TRUE]
        ELSE IF ~Live(i) THEN t
        ELSE IF Full(a, "IQ") \/ (Load(i) /\ Full(a, "LQ")) \/ (Store(i) /\ Full(a, "SQ"))
             THEN [a EXCEPT !.stop = TRUE]
        ELSE Insert(t, i)

\* IEW::dispatchInsts().
DispatchInsts(s) ==
    LET a == FoldLeft(DispatchStep, [s EXCEPT !.rest = Source(s)], Source(s))
        t == Leave(a, s.status, a.rest)
    IN  IF a.rest # <<>> THEN [IEWBlock(t) EXCEPT !.sig.unblock = FALSE] ELSE t

\* IEW::dispatch().
Dispatch(s) ==
    CASE s.status = "Running" -> DispatchInsts(s)
      [] s.status = "Unblocking" ->
             LET t == DispatchInsts(s)
                 valid == \E k \in DOMAIN renameQueue[3] : Live(renameQueue[3][k])
             IN  IEWUnblock(IF valid THEN SkidInsert(t) ELSE t)
      [] OTHER -> s

\* Memory instructions that have been issued but not squashed; their cache answers later.
Accessing(s) == s.executing \cup {i \in s.issued \cap s.IQ : MemRef(i)}
Waiting(s) == s.IQ \ (Accessing(s) \cup s.nonSpec)
IsLate(set, chosen) == set # {} /\ Min(set) \notin chosen

\* IEW::tick() after dispatch: the instructions of issued execute, those of done finish
\* their access, those of issue are issued, and wb: the oldest committed store is written.
Execute(s, issue, done, wb) ==
    LET commits == commitSig.done # 0 /\ ~commitSig.squash /\ ~commitSig.robSquashing
        written == IF wb THEN {Min(s.canWB)} ELSE {}
        retired == {i \in s.LQ \cup s.SQ : commits /\ i <= commitSig.done}
        t == [s EXCEPT !.IQ = (@ \ done) \ {i \in issue : ~MemRef(i)},
                       !.issued = issue, !.executing = Accessing(s) \ done,
                       !.LQ = @ \ retired, !.SQ = @ \ written,
                       !.canWB = (@ \cup (retired \cap s.SQ)) \ written,
                       !.nonSpec = @ \ {commitSig.nonSpec}, !.updateLSQ = wb \/ commits]
        broadcast == s.updated \/ s.issued # {} \/ s.updateLSQ
        Free(q) == IF broadcast THEN entries[q] - Cardinality(t[q]) ELSE 0
    IN  [t EXCEPT !.sig.used = broadcast, !.sig.IQ = Free("IQ"), !.sig.LQ = Free("LQ"),
                  !.sig.SQ = Free("SQ")]

\* IEW::tick().
IEWTick ==
    /\ stage = "iew" /\ stage' = "commit"
    /\ LET r == [iew EXCEPT !.insts = @ \o renameQueue[3]]
           s == Dispatch(IEWCheck(r @@ [sig |-> NoIEWSig, rest |-> <<>>, num |-> 0,
                                        stop |-> FALSE, updated |-> FALSE]))
       IN  \E issue \in SUBSET Waiting(s), done \in SUBSET Accessing(s),
              wb \in {b \in BOOLEAN : b => s.canWB # {}} :
              LET t == Execute(s, issue, done, wb)
                  late == \/ IsLate(Waiting(s), issue) \/ IsLate(Accessing(s), done)
                          \/ s.canWB # {} /\ ~wb
              IN  /\ Cardinality(issue) <= Width
                  /\ late => delays > 0
                  /\ delays' = delays - (IF late THEN 1 ELSE 0)
                  /\ iew' = Restrict(t, DOMAIN iew) /\ iewSig' = t.sig
                  /\ iewQueue' = [iewQueue EXCEPT ![1] =
                                     done \cup {i \in s.issued : ~MemRef(i)}]
    /\ renameQueue' = [renameQueue EXCEPT ![3] = <<>>]
    /\ UNCHANGED <<setup, fetch, decode, rename, commit, fetchQueue, decodeQueue, decodeSig,
                   renameSig, commitSig, marks, squashes, ghosts>>
-----------------------------------------------------------------------------
\* ROB::doSquash(): the entries from squashIt down that are younger than squashTo, at most
\* SquashWidth of them; squashIt is 0 when the ROB is done squashing.
DoSquash(c) ==
    LET young == {k \in 1..c.squashIt : c.rob[k] > c.squashTo /\ k > c.squashIt - SquashWidth}
        it == c.squashIt - Cardinality(young)
    IN  [c EXCEPT !.squashed = @ \cup {c.rob[k] : k \in young},
                  !.squashIt = IF it > 0 /\ c.rob[it] > c.squashTo THEN it ELSE 0]

\* A squash of everything younger than seq: Commit::squashAll(), doPendingRedirect() or the
\* signal of IEW.
CommitSquash(c, seq) ==
    [DoSquash([c EXCEPT !.squashTo = seq, !.squashIt = Len(c.rob)]) EXCEPT
        !.status = "ROBSquashing", !.youngest = seq, !.changed = TRUE,
        !.sig.squash = TRUE, !.sig.robSquashing = TRUE, !.sig.done = seq]

\* What commit may squash to.  squashAll(): before the head of the ROB.  A redirect of an
\* instruction that has executed, at once or, as DOLMA holds it back, later: a branch, or a
\* load that an older load or store was found to have been passed by, which is squashed
\* itself; the older one may have left the queues by then.
SquashTo ==
    LET resolved == {i \in Range(commit.rob) : /\ i <= commit.youngest /\ Live(i)
                                               /\ i \in commit.canCommit \cup iewQueue[2]}
    IN  {IF commit.rob = <<>> THEN commit.last ELSE Head(commit.rob) - 1}
        \cup {i \in resolved : program[i] = "alu"}
        \cup {i - 1 : i \in {j \in resolved :
                  Load(j) /\ \E o \in 1..(j - 1) : MemRef(o) /\ Live(o)}}

\* Commit::tick() before commit().
ContinueSquash(c) ==
    IF c.status # "ROBSquashing" THEN c
    ELSE IF c.squashIt = 0 THEN Running(c)
    ELSE [DoSquash(c) EXCEPT !.sig.robSquashing = TRUE]

\* Commit::getInsts().
GetInsts(c) ==
    LET new == SelectSeq(renameQueue[2], Live)
    IN  [c EXCEPT !.rob = @ \o new, !.changed = @ \/ new # <<>>,
                  !.youngest = IF new = <<>> THEN @ ELSE Last(new)]

\* Mutant: commit does not wait for the stores.
MutantMayExecute(c) == c.num = 0
\* commitHead(): a head that has not executed is left until all stores are written, and
\* then commit tells IEW to execute it.
MayExecute(c) == c.num = 0 /\ iew.canWB = {}
CommitHead(c, i) ==
    IF i \in iew.nonSpec
    THEN [c EXCEPT !.stop = TRUE, !.sig.nonSpec = IF MayExecute(c) THEN i ELSE 0]
    ELSE [c EXCEPT !.rob = Tail(@), !.changed = TRUE, !.num = @ + 1, !.sig.done = i, !.last = i,
                   !.committed = @ \cup {i}, !.stores = @ \/ Store(i)]

\* Mutant: the head stays ready when commit has told IEW to execute it.
MutantCommitStep(c, i) ==
    LET told == {o \in iew.IQ \cup iew.issued : NonSpec(o) /\ o \notin c.canCommit}
    IN  IF c.stop \/ c.num = Width \/ i \notin c.canCommit \cup c.squashed \cup told
        THEN [c EXCEPT !.stop = TRUE]
        ELSE IF i \in c.squashed THEN [c EXCEPT !.rob = Tail(@), !.changed = TRUE]
        ELSE IF i \in told
             THEN [c EXCEPT !.stop = TRUE, !.sig.nonSpec = IF MayExecute(c) THEN i ELSE 0]
        ELSE CommitHead(c, i)
\* One turn of the loop of commitInsts().
CommitStep(c, i) ==
    IF c.stop \/ c.num = Width \/ i \notin c.canCommit \cup c.squashed \cup iew.nonSpec
    THEN [c EXCEPT !.stop = TRUE]
    ELSE IF i \in c.squashed THEN [c EXCEPT !.rob = Tail(@), !.changed = TRUE]
    ELSE CommitHead(c, i)

CommitInsts(c) == FoldLeft(CommitStep, c, c.rob)

\* Mutant: whether the ROB is empty is only sent in the cycle in which it becomes so.
MutantSendROB(c) ==
    LET empty == c.changed /\ c.rob = <<>> /\ iew.canWB = {} /\ ~c.stores
    IN  [c EXCEPT !.sig.usedROB = c.changed, !.sig.emptyROB = empty,
                  !.sig.freeROB = IF c.changed THEN entries["ROB"] - Len(c.rob) ELSE 0]
\* The end of commit(): the entries that are free, and whether the ROB is empty.
SendROB(c) ==
    LET check == c.checkEmpty \/ (c.changed /\ c.rob = <<>>)
        empty == check /\ c.rob = <<>> /\ iew.canWB = {} /\ ~c.stores
        used == c.changed \/ empty
    IN  [c EXCEPT !.checkEmpty = check /\ ~empty, !.sig.usedROB = used,
                  !.sig.emptyROB = empty,
                  !.sig.freeROB = IF used THEN entries["ROB"] - Len(c.rob) ELSE 0]

\* Commit::commit(), with a squash to seq if squash.
Commit(c, squash, seq) ==
    LET s == IF squash THEN CommitSquash(c, seq) ELSE c
    IN  SendROB(IF s.status = "ROBSquashing" THEN s ELSE CommitInsts(GetInsts(s)))

\* Commit::tick(), and the end of the CPU's tick: the time buffers advance.
CommitTick ==
    /\ stage = "commit" /\ stage' = "fetch"
    /\ \E squash \in {b \in BOOLEAN : b => squashes > 0},
          seq \in SquashTo :
        LET c == Commit(ContinueSquash(
                     commit @@ [sig |-> NoCommitSig, changed |-> FALSE, num |-> 0, stop |-> FALSE,
                                stores |-> FALSE, squashed |-> squashed,
                                committed |-> committed]), squash, seq)
        IN  /\ commit' = [Restrict(c, DOMAIN commit) EXCEPT
                             !.canCommit = (@ \cup iewQueue[2]) \cap Range(c.rob)]
            /\ commitSig' = c.sig /\ squashed' = c.squashed /\ committed' = c.committed
            /\ dead' = dead \cup IF squash THEN After(seq) ELSE {}
            /\ squashes' = squashes - (IF squash THEN 1 ELSE 0)
    /\ fetchQueue' = <<<<>>, fetchQueue[1]>> /\ decodeQueue' = <<<<>>, decodeQueue[1]>>
    /\ renameQueue' = <<<<>>, renameQueue[1], renameQueue[2]>>
    /\ iewQueue' = <<{}, iewQueue[1]>>
    /\ UNCHANGED <<setup, fetch, decode, rename, iew, decodeSig, renameSig, iewSig, before,
                   handled, delays>>

Next == FetchTick \/ DecodeTick \/ RenameTick \/ IEWTick \/ CommitTick
Spec == Init /\ [][Next]_vars
\* The CPU ticks as long as a stage is active: the next stage's turn always comes.
Clock == \E s \in {"fetch", "decode", "rename", "iew", "commit"} : stage' = s
FairSpec == Spec /\ WF_stage(Clock)
-----------------------------------------------------------------------------
\* No skid buffer grows past its size (the assertions of decode and IEW, the panic of
\* rename), and the ROB has an entry for each instruction that arrives, although a stage
\* hears a cycle late that the next one blocks, and rename counts from what it was told.
BuffersFit ==
    /\ Len(decode.skid) <= 2 * Width
    /\ Len(rename.skid) <= 2 * Width
    /\ Len(iew.skid) <= 3 * Width
    /\ Len(commit.rob) <= entries["ROB"]

\* An unblock signal only reaches a stage that stalls: the assertions of fetch, decode and
\* rename on reading the signals, also when a squash unblocks.
UnblocksStalled ==
    /\ (stage = "fetch" /\ decodeSig.unblock) => fetch.stall /\ ~decodeSig.block
    /\ (stage \in {"fetch", "decode"} /\ renameSig.unblock) => (decode.stall \/ renameSig.block)
    /\ (stage \in {"fetch", "decode", "rename"} /\ iewSig.unblock) => (rename.stall \/ iewSig.block)

Kept(s) == SelectSeq(s, LAMBDA i : i \notin dead)
\* The instructions on their way to the ROB and in it, oldest first.
ToROB ==
    commit.rob \o renameQueue[2] \o renameQueue[1]
    \o (IF rename.serial = 0 THEN <<>> ELSE <<rename.serial>>)
    \o rename.skid \o rename.insts \o decodeQueue[2] \o decodeQueue[1]
    \o decode.skid \o decode.insts \o fetchQueue[2] \o fetchQueue[1] \o fetch.queue

\* No instruction is lost, duplicated or overtaken: those that are neither abandoned nor
\* committed are in the pipeline once, in program order, also through the skid buffers, the
\* serialize stalls and the squashes.
NoneLost ==
    Kept(ToROB) = SelectSeq([k \in 1..fetch.seq |-> k], LAMBDA i : i \notin dead \cup committed)

\* No instruction commits that a squash has abandoned, though fetch, decode and rename
\* hear of the squash a cycle later.
AbandonedNeverCommit == dead \cap committed = {}

\* Fetch drops a redirect of decode while it squashes, but decode never sends one then:
\* what it would find mispredicted has been marked squashed by then.
RedirectsHeard ==
    (stage = "fetch" /\ decodeSig.squash # 0 /\ ~commitSig.squash) => fetch.status # "Squashing"

\* Rename's count of the instructions in flight to IEW is the number of those in the time
\* buffer, in IEW's skid buffer, or reported in this cycle.
InFlight == renameQueue[1] \o renameQueue[2] \o renameQueue[3] \o iew.skid \o iew.insts
CountsRight ==
    LET back == stage # "iew"
    IN  /\ rename.all = Len(InFlight) + (IF back THEN iewSig.dispatched ELSE 0)
        /\ rename.loads = NumLoads(InFlight) + (IF back THEN iewSig.toLQ ELSE 0)
        /\ rename.stores = NumStores(InFlight) + (IF back THEN iewSig.toSQ ELSE 0)

Renamed == Range(commit.rob) \cup Range(InFlight)
\* When a serializing instruction has left rename, all older ones have committed and their
\* stores are written.
SerializedAlone ==
    \A i \in Renamed \ dead :
        LET older == (1..(i - 1)) \ dead
            alone == program[i] = "before" \/ (older # {} /\ program[Max(older)] = "after")
        IN  /\ alone => older \subseteq committed
            /\ program[i] = "before" => iew.SQ \cap older = {}

\* IEW finds the instruction that commit tells it to execute (the assertion of
\* scheduleNonSpec()), whatever squashes are on their way.
NonSpecFound == (stage = "iew" /\ commitSig.nonSpec # 0) => commitSig.nonSpec \in iew.nonSpec

\* A non-speculative instruction does not execute before all older instructions have
\* committed and all their stores are written.
NonSpecAlone ==
    \A i \in (iew.IQ \cup iew.issued) \ (iew.nonSpec \cup dead) :
        NonSpec(i) => /\ (1..(i - 1)) \subseteq dead \cup committed
                      /\ \A o \in iew.SQ : o > i

\* Every instruction commits or is abandoned: no stage waits for ever for another, nor
\* rename for a count of free entries that has long been out of date.
AllDone == <>[](fetch.seq = Len(program) /\ (1..fetch.seq) \subseteq dead \cup committed)
=============================================================================
