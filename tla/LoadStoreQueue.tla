-------------------------- MODULE LoadStoreQueue --------------------------
(***************************************************************************)
(* LSQUnit: the circular load and store queues of one thread, store to     *)
(* load forwarding and its masking, partial hits, delay-on-miss, the       *)
(* checks for reordered loads, snoops, and the write back of stores.       *)
(*                                                                         *)
(* Access i of the program is its sequence number; it keeps the number     *)
(* when it is fetched again after a squash.  A slot of a queue that holds  *)
(* 0 is empty.  The memory is the log of the writes made to it, as in      *)
(* MemoryOrder, which this module implements.                              *)
(***************************************************************************)
EXTENDS Integers, Sequences, FiniteSetsExt

CONSTANTS
    N, Bytes, LineSize, Programs,  \* as in MemoryOrder; an access also says whether it may
                                   \* be fetched as a restricted one
    DepSize,        \* bytes of a dependence check block: 2^depCheckShift
    LQEntries,      \* slots of the load queue, one more than it may hold
    SQEntries,      \* slots of the store queue
    Start,          \* the slots that accesses before the program, complete by now, have
                    \* moved the indexes of both queues to
    MaxEvents       \* bound, for a program of each length: remote writes, evictions, requests
                    \* the cache refuses, and squashes from elsewhere, taken together

ASSUME QueueAssumption ==
    /\ N \in Nat \ {0} /\ LineSize \in Nat \ {0} /\ DepSize \in Nat \ {0}
    /\ LQEntries \in Nat \ {0, 1} /\ SQEntries \in Nat \ {0, 1}
    /\ Start \in 0..(LQEntries-1) /\ Start \in 0..(SQEntries-1)
    /\ MaxEvents \in [1..N -> Nat]
    /\ Bytes \subseteq Nat

ASSUME ProgramAssumption ==
    \A p \in Programs :
        /\ Len(p) <= N
        /\ p \in Seq([kind : {"load", "store"}, bytes : (SUBSET Bytes) \ {{}},
                      mayRestrict : BOOLEAN])

VARIABLES
    tso, prog,              \* needsTSO and the program: fixed by Init
    lq, loadHead, loadTail, lqIdx,
    sq, storeHead, storeTail, storeWBIdx, sqIdx,
    fetched,                \* accesses inserted so far
    status,                 \* of each access: none, ready, rescheduled, blocked, stalled,
                            \* access (waits for an answer) or done
    restricted, effAddrValid, \* sets of accesses
    reExec,                 \* loads with a ReExec fault
    hitExternalSnoop, possibleLoadViolation, partialStoreBufferHit,
    data,                   \* what a load has read of each byte
    dolmaVirtualReq, dolmaPhysicalReq, \* accesses whose TLB or cache request is kept
    pendingMetadata,        \* accesses that update the replacement state at commit
    tlbTouched, lineTouched, \* accesses that have updated that of the TLB, of the cache
    lostUpdates,            \* accesses whose update the cache did not make
    stall,                  \* stallingStoreIsn (0: not stalled) and stallingLoadIdx
    memDepViolator,         \* load from which to squash, 0 if there is none
    canWB, completed,       \* sets of stores
    storeInFlight, isStoreBlocked,
    unsent,                 \* packets of the store at storeWBIdx that were refused or wait
    reqs,                   \* for each line, the misses the cache works on; 0 stands for
                            \* that of a load squashed since
    held,                   \* lines in the cache
    log,                    \* writes to memory
    retired, marked,        \* accesses committed, and of those, seen by the queue
    at,                     \* where in the log the last load of each byte took place
    retryDue,               \* the cache has refused a request since the last retry
    events                  \* evictions, refusals and squashes so far

fixed == <<tso, prog>>
loadQ == <<lq, loadHead, loadTail, lqIdx>>
storeQ == <<sq, storeHead, storeTail, sqIdx>>
flags == <<restricted, effAddrValid, reExec, hitExternalSnoop, possibleLoadViolation,
           partialStoreBufferHit>>
meta == <<dolmaVirtualReq, dolmaPhysicalReq, pendingMetadata, tlbTouched, lineTouched,
          lostUpdates>>
wb == <<storeWBIdx, canWB, completed, storeInFlight, isStoreBlocked, unsent>>
cache == <<reqs, held, log>>
com == <<retired, marked, at>>
env == <<retryDue, events>>
vars == <<fixed, loadQ, storeQ, fetched, status, flags, data, meta, stall, memDepViolator, wb,
          cache, com, env>>

Ops == DOMAIN prog
Line(b) == b \div LineSize
LinesOf(i) == {Line(b) : b \in prog[i].bytes}
\* The lines the program accesses; what happens to the others does not concern the queue.
Lines == UNION {LinesOf(i) : i \in Ops}
Part(i, line) == {b \in prog[i].bytes : Line(b) = line}
IsLoad(i) == prog[i].kind = "load"
IsStore(i) == prog[i].kind = "store"

NoValue == N + 1
Unread == [b \in Bytes |-> NoValue]
NotStalled == [store |-> 0, loadIdx |-> 0]

\* The specification implemented; a committed load's result is the data it has read.
Mem == INSTANCE MemoryOrder WITH
    RemoteWrites <- Max({MaxEvents[n] : n \in 1..N}),
    res <- [i \in Ops |-> IF i <= retired /\ IsLoad(i)
                          THEN [b \in prog[i].bytes |-> data[i][b]] ELSE << >>]

Init ==
    /\ tso \in BOOLEAN /\ prog \in Programs
    /\ lq = [x \in 0..(LQEntries-1) |-> 0] /\ loadHead = Start /\ loadTail = Start
    /\ sq = [x \in 0..(SQEntries-1) |-> 0] /\ storeHead = Start /\ storeTail = Start
    /\ lqIdx = [i \in Ops |-> 0] /\ sqIdx = [i \in Ops |-> 0]
    /\ storeWBIdx = Start /\ fetched = 0
    /\ status = [i \in Ops |-> "none"]
    /\ restricted = {} /\ effAddrValid = {} /\ reExec = {}
    /\ hitExternalSnoop = {} /\ possibleLoadViolation = {} /\ partialStoreBufferHit = {}
    /\ data = [i \in Ops |-> Unread]
    /\ dolmaVirtualReq = {} /\ dolmaPhysicalReq = {} /\ pendingMetadata = {}
    /\ tlbTouched = {} /\ lineTouched = {} /\ lostUpdates = {}
    /\ stall = NotStalled /\ memDepViolator = 0
    /\ canWB = {} /\ completed = {}
    /\ storeInFlight = FALSE /\ isStoreBlocked = FALSE /\ unsent = << >>
    /\ reqs = [c \in Lines |-> << >>] /\ held \in {{}, Lines} /\ log = << >>
    /\ retired = 0 /\ marked = 0 /\ at = [b \in Bytes |-> 0]
    /\ retryDue = FALSE /\ events = 0

-----------------------------------------------------------------------------
MoreEvents == events + Mem!Remote < MaxEvents[Len(prog)]
CountEvent == MoreEvents /\ events' = events + 1
\* The cache is blocked: it refuses a request, and will ask for a retry.  While a retry is
\* due, it refuses every one.
Refuse(due) ==
    /\ IF due THEN UNCHANGED events ELSE CountEvent
    /\ retryDue' = TRUE

\* The slots of a circular queue of n slots from one index up to another.
Between(from, to, n) == {x \in 0..(n-1) : (x - from) % n < (to - from) % n}
Loads == Between(loadHead, loadTail, LQEntries)
Stores == Between(storeHead, storeTail, SQEntries)
\* Loads in the slots from x on, and stores not sent to the cache before slot x.
LoadsFrom(x) == {lq[y] : y \in Between(x, loadTail, LQEntries)}
StoresBefore(x) == IF x = -1 THEN {} ELSE {sq[y] : y \in Between(storeWBIdx, x, SQEntries)}

\* Mutant: the slot of the youngest store.
MutantSqIdx == IF Stores = {} THEN -1 ELSE (storeTail - 1) % SQEntries
\* Where the search for a store begins: behind the stores older than the load.
SqIdx == IF Stores = {} THEN -1 ELSE storeTail

InsertLoad(i) ==
    /\ IsLoad(i) /\ (loadTail + 1) % LQEntries # loadHead
    /\ lqIdx' = [lqIdx EXCEPT ![i] = loadTail]
    /\ sqIdx' = [sqIdx EXCEPT ![i] = SqIdx]
    /\ lq' = [lq EXCEPT ![loadTail] = i]
    /\ loadTail' = (loadTail + 1) % LQEntries
    /\ UNCHANGED <<sq, storeTail>>

InsertStore(i) ==
    /\ IsStore(i) /\ (storeTail + 1) % SQEntries # storeHead
    /\ sqIdx' = [sqIdx EXCEPT ![i] = storeTail]
    /\ lqIdx' = [lqIdx EXCEPT ![i] = loadTail]
    /\ sq' = [sq EXCEPT ![storeTail] = i]
    /\ storeTail' = (storeTail + 1) % SQEntries
    /\ UNCHANGED <<lq, loadTail>>

\* insert(), when dispatch has the entry free.
Insert ==
    LET i == fetched + 1 IN
    /\ i \in Ops /\ (InsertLoad(i) \/ InsertStore(i))
    /\ fetched' = i
    /\ status' = [status EXCEPT ![i] = "ready"]
    /\ \/ UNCHANGED restricted
       \/ prog[i].mayRestrict /\ restricted' = restricted \cup {i}
    /\ UNCHANGED <<fixed, loadHead, storeHead, effAddrValid, reExec, hitExternalSnoop,
          possibleLoadViolation, partialStoreBufferHit, data, meta, stall, memDepViolator, wb,
          cache, com, env>>

\* updateSafeStatus(): an access is no longer restricted.  A load or store that was
\* delayed is issued again; if it was not, but has executed, it has an update to make.
Unrestrict(i) ==
    /\ i \in restricted
    /\ restricted' = restricted \ {i}
    /\ status' = [status EXCEPT ![i] = IF @ = "stalled" THEN "ready" ELSE @]
    /\ pendingMetadata' = pendingMetadata \cup ({i} \cap dolmaVirtualReq)
    /\ UNCHANGED <<fixed, loadQ, storeQ, fetched, effAddrValid, reExec, hitExternalSnoop,
          possibleLoadViolation, partialStoreBufferHit, data, dolmaVirtualReq,
          dolmaPhysicalReq, tlbTouched, lineTouched, lostUpdates, stall, memDepViolator, wb,
          cache, com, env>>
-----------------------------------------------------------------------------
Block(b) == b \div DepSize
\* Loads from slot x on that checkViolations() finds in a block that i accesses.
Conflicting(i, x) ==
    {l \in LoadsFrom(x) : /\ l \in effAddrValid /\ status[l] # "stalled"
                          /\ \E b \in prog[i].bytes, c \in prog[l].bytes : Block(b) = Block(c)}
Eldest(S) == IF S = {} THEN 0 ELSE Min(S)

\* checkViolations() for a load: a younger load that a snoop has hit is squashed, and
\* those before it are marked.
CheckLoadViolations(l) ==
    LET found == Conflicting(l, (lqIdx[l] + 1) % LQEntries)
        hit == Eldest(found \cap hitExternalSnoop)
    IN  /\ memDepViolator' = Eldest({memDepViolator, hit} \ {0})
        /\ possibleLoadViolation' = possibleLoadViolation \cup
              {k \in found : hit = 0 \/ k < hit}

\* checkViolations() for a store: the eldest load that passed it is squashed.
CheckStoreViolations(s) ==
    memDepViolator' = Eldest((Conflicting(s, lqIdx[s]) \cup {memDepViolator}) \ {0})

\* initiateTranslation(): a restricted access uses the TLB without a trace, and keeps the
\* request; if it is delayed for a miss, it does not.
Translate(i, st) ==
    /\ dolmaVirtualReq' = IF i \in restricted /\ st # "stalled" THEN dolmaVirtualReq \cup {i}
                          ELSE dolmaVirtualReq \ {i}
    /\ tlbTouched' = IF i \in restricted THEN tlbTouched ELSE tlbTouched \cup {i}
    /\ effAddrValid' = IF IsStore(i) /\ st = "stalled" THEN effAddrValid
                       ELSE effAddrValid \cup {i}
    /\ UNCHANGED pendingMetadata

\* executeStore(): a restricted store that misses in the TLB is delayed.
ExecuteStore(s, st) ==
    /\ status[s] = "ready" /\ IsStore(s)
    /\ st = "done" \/ (st = "stalled" /\ s \in restricted)
    /\ status' = [status EXCEPT ![s] = st]
    /\ Translate(s, st)
    /\ IF st = "stalled" THEN UNCHANGED memDepViolator ELSE CheckStoreViolations(s)
    /\ UNCHANGED <<fixed, loadQ, storeQ, fetched, restricted, reExec, hitExternalSnoop,
          possibleLoadViolation, partialStoreBufferHit, data, dolmaPhysicalReq, lineTouched,
          lostUpdates, stall, wb, cache, com, env>>

\* The store that read() finds for a load: the youngest older one that is in the store
\* queue, not yet sent, has its address and overlaps; 0 if there is none.
Source(l) ==
    LET S == {s \in StoresBefore(sqIdx[l]) :
                s \in effAddrValid /\ prog[s].bytes \cap prog[l].bytes # {}}
    IN  IF S = {} THEN 0 ELSE Max(S)
Covers(s, l) == prog[l].bytes \subseteq prog[s].bytes
\* A hit that must not be visible: a request is sent to the cache in any case.
Masked(s, l) == s \in restricted /\ l \notin restricted

\* read() and the rest of executeLoad(): a load becomes st.
Executed(l, st) ==
    /\ status[l] = "ready" /\ IsLoad(l)
    /\ status' = [status EXCEPT ![l] = st]
    /\ Translate(l, st)
    /\ reExec' = reExec \ {l}
    /\ IF st = "stalled" THEN UNCHANGED <<memDepViolator, possibleLoadViolation>>
       ELSE CheckLoadViolations(l)
    /\ UNCHANGED <<fixed, loadQ, storeQ, fetched, restricted, hitExternalSnoop, lostUpdates,
          wb, held, log, com>>

\* A hit on the store found sends a request that masks it; after a partial hit it was sent
\* before.
Masks(l) == /\ Masked(Source(l), l)
            /\ Covers(Source(l), l) \/ l \notin partialStoreBufferHit
\* The request that masks a hit, which updates the cache's replacement state.
Dummy(l) ==
    /\ Masks(l) => ~retryDue
    /\ lineTouched' = lineTouched \cup (IF Masked(Source(l), l) THEN {l} ELSE {})
    /\ UNCHANGED dolmaPhysicalReq

\* All the data comes from a store.
Forward(l) ==
    /\ Executed(l, "done")
    /\ Source(l) # 0 /\ Covers(Source(l), l)
    /\ data' = [data EXCEPT ![l] = [b \in Bytes |-> IF b \in prog[l].bytes THEN Source(l)
                                                    ELSE NoValue]]
    /\ Dummy(l)
    /\ UNCHANGED <<partialStoreBufferHit, stall, reqs, env>>

\* Mutant: the first load that has to wait is recorded.
MutantStallFor(l) ==
    IF stall.store = 0 THEN [store |-> Source(l), loadIdx |-> lqIdx[l]] ELSE stall
\* The eldest load that has to wait, and its store, are recorded.
StallFor(l) ==
    IF stall.store = 0 \/ l < lq[stall.loadIdx]
    THEN [store |-> Source(l), loadIdx |-> lqIdx[l]] ELSE stall

\* Part of it does: the load waits until the store is sent.
PartialHit(l) ==
    /\ Executed(l, "rescheduled")
    /\ Source(l) # 0 /\ ~Covers(Source(l), l)
    /\ partialStoreBufferHit' =
          partialStoreBufferHit \cup (IF Masked(Source(l), l) THEN {l} ELSE {})
    /\ stall' = StallFor(l)
    /\ Dummy(l)
    /\ UNCHANGED <<data, reqs, env>>

\* The cache is blocked and refuses the request, or the second part of it: the load is
\* issued again after a retry.
Refused(l) ==
    /\ Executed(l, "blocked")
    /\ Source(l) # 0 => Masks(l)
    /\ Refuse(retryDue)
    /\ dolmaPhysicalReq' = dolmaPhysicalReq \ {l}
    /\ UNCHANGED <<partialStoreBufferHit, data, lineTouched, stall, reqs>>

\* Lines the cache answers at once; a line that is being fetched is not readable.
Hits(l) == {c \in LinesOf(l) \cap held : reqs[c] = << >>}

\* A restricted load misses: it is delayed until it is not restricted.
DelayOnMiss(l) ==
    /\ Executed(l, "stalled")
    /\ Source(l) = 0 /\ l \in restricted /\ Hits(l) # LinesOf(l) /\ ~retryDue
    /\ dolmaPhysicalReq' = dolmaPhysicalReq \ {l}
    /\ UNCHANGED <<partialStoreBufferHit, data, lineTouched, stall, reqs, env>>

\* Mutant: only the request for the TLB is kept.
MutantKeptRequests(l) == dolmaPhysicalReq
\* A restricted load keeps its request, to update the replacement state with it later.
KeptRequests(l) == IF l \in restricted THEN dolmaPhysicalReq \cup {l} ELSE dolmaPhysicalReq

\* The cache takes the request; the lines it holds are read at once.
Access(l) ==
    /\ Source(l) = 0 /\ ~retryDue
    /\ \/ Hits(l) = LinesOf(l) /\ Executed(l, "done")
       \/ Hits(l) # LinesOf(l) /\ l \notin restricted /\ Executed(l, "access")
    /\ data' = [data EXCEPT ![l] = [b \in Bytes |->
          IF b \in prog[l].bytes /\ Line(b) \in Hits(l) THEN Mem!Memory(b, Len(log))
          ELSE NoValue]]
    /\ reqs' = [c \in Lines |-> IF c \in LinesOf(l) \ Hits(l) THEN Append(reqs[c], l)
                                ELSE reqs[c]]
    /\ dolmaPhysicalReq' = KeptRequests(l)
    /\ lineTouched' = IF l \in restricted THEN lineTouched ELSE lineTouched \cup {l}
    /\ UNCHANGED <<partialStoreBufferHit, stall, env>>

ExecuteLoad(l) == Forward(l) \/ PartialHit(l) \/ Refused(l) \/ DelayOnMiss(l) \/ Access(l)
-----------------------------------------------------------------------------
Committed == {s \in {sq[x] : x \in Stores} : s <= retired}

\* commitLoads() and commitStores(), on the message from commit.
CommitDone ==
    LET gone == {x \in Loads : lq[x] <= retired} IN
    /\ marked < retired /\ marked' = retired
    /\ lq' = [x \in DOMAIN lq |-> IF x \in gone THEN 0 ELSE lq[x]]
    /\ loadHead' = (loadHead + Cardinality(gone)) % LQEntries
    /\ canWB' = canWB \cup Committed
    /\ UNCHANGED <<fixed, loadTail, lqIdx, storeQ, fetched, status, flags, data, meta, stall,
          memDepViolator, storeWBIdx, completed, storeInFlight, isStoreBlocked, unsent,
          cache, retired, at, env>>

\* replayMemInst(): every load that was rescheduled is issued again.
Replayed(st) == [i \in Ops |-> IF st[i] = "rescheduled" THEN "ready" ELSE st[i]]
\* If the load queue is stalled on store s, it no longer is; st is the status to go on from.
Unstall(s, st) ==
    /\ stall' = IF stall.store = s THEN NotStalled ELSE stall
    /\ status' = IF stall.store = s THEN Replayed(st) ELSE st

StorePostSend(st) ==
    /\ Unstall(sq[storeWBIdx], st)
    /\ storeInFlight' = (storeInFlight \/ tso)
    /\ storeWBIdx' = (storeWBIdx + 1) % SQEntries

\* The cache takes the first j of the packets pkts of the store at storeWBIdx.
Accept(pkts, j) ==
    /\ reqs' = [c \in Lines |-> IF \E k \in 1..j : pkts[k] = c
                                THEN Append(reqs[c], sq[storeWBIdx]) ELSE reqs[c]]
    /\ unsent' = SubSeq(pkts, j + 1, Len(pkts))

\* sendStore() for each of the packets; after the first j one may be refused, and the
\* first is if a retry is due.
Send(pkts, j, st, due) ==
    /\ due => j = 0
    /\ Accept(pkts, j)
    /\ isStoreBlocked' = (j < Len(pkts))
    /\ \/ /\ j = Len(pkts)
          /\ StorePostSend(st)
          /\ retryDue' = FALSE /\ UNCHANGED events
       \/ /\ j < Len(pkts)
          /\ Refuse(due)
          /\ status' = st
          /\ UNCHANGED <<stall, storeInFlight, storeWBIdx>>

Packets(s) == LET low == Min(LinesOf(s))
                  high == Max(LinesOf(s))
              IN  IF low = high THEN <<low>> ELSE <<low, high>>

\* writebackStores(): the packet left over from the last cycle, or the next store.
WritebackStore ==
    /\ ~isStoreBlocked
    /\ storeWBIdx # storeTail /\ sq[storeWBIdx] \in canWB
    /\ unsent = << >> => ~(tso /\ storeInFlight)
    /\ LET pkts == IF unsent # << >> THEN unsent ELSE Packets(sq[storeWBIdx])
       IN  \/ \E j \in 0..Len(pkts) : Send(pkts, j, status, retryDue)
           \/ /\ Len(pkts) = 2 /\ Accept(pkts, 1)  \* no port is left for the second
              /\ ~retryDue
              /\ UNCHANGED <<stall, status, storeInFlight, storeWBIdx, isStoreBlocked, env>>
    /\ UNCHANGED <<fixed, loadQ, storeQ, fetched, flags, data, meta, memDepViolator, canWB,
          completed, held, log, com>>

\* Mutant: only the eldest load is issued again.
MutantUnblocked ==
    [i \in Ops |-> IF status[i] = "blocked" /\ \A l \in 1..(i-1) : status[l] # "blocked"
                   THEN "ready" ELSE status[i]]
\* cacheUnblocked(): the loads that were refused are issued again.
Unblocked == [i \in Ops |-> IF status[i] = "blocked" THEN "ready" ELSE status[i]]

\* recvReqRetry(): the store is sent again as well; the cache may refuse it again.
Retry ==
    /\ retryDue
    /\ \/ isStoreBlocked /\ \E j \in 0..Len(unsent) : Send(unsent, j, Unblocked, FALSE)
       \/ /\ ~isStoreBlocked /\ status' = Unblocked
          /\ retryDue' = FALSE
          /\ UNCHANGED <<stall, storeWBIdx, storeInFlight, isStoreBlocked, unsent, reqs,
                events>>
    /\ UNCHANGED <<fixed, loadQ, storeQ, fetched, flags, data, meta, memDepViolator, canWB,
          completed, held, log, com>>
-----------------------------------------------------------------------------
\* A store is complete: the head of the queue moves past all complete ones.
CompleteStore(s) ==
    LET free(k) == (storeHead + k) % SQEntries
        stop == Min({k \in 1..SQEntries : free(k) = storeTail
                                          \/ sq[free(k)] \notin completed \cup {s}})
    IN  /\ completed' = completed \cup {s}
        /\ storeHead' = IF sqIdx[s] = storeHead THEN free(stop) ELSE storeHead
        /\ Unstall(s, status)
        /\ storeInFlight' = FALSE

\* The cache answers the first miss of a line: completeDataAccess().
RespondLoad(line) ==
    LET l == Head(reqs[line])
        d == [b \in Bytes |-> IF b \in Part(l, line) THEN Mem!Memory(b, Len(log))
                              ELSE data[l][b]]
    IN  /\ l # 0 /\ IsLoad(l)
        /\ data' = [data EXCEPT ![l] = d]
        /\ status' = [status EXCEPT ![l] =
              IF \A b \in prog[l].bytes : d[b] # NoValue THEN "done" ELSE @]
        /\ UNCHANGED <<storeHead, stall, completed, storeInFlight, log>>

RespondStore(line) ==
    LET s == Head(reqs[line]) IN
    /\ s # 0 /\ IsStore(s)
    /\ log' = Append(log, [op |-> s, bytes |-> Part(s, line)])
    /\ UNCHANGED data
    /\ \/ /\ \A b \in prog[s].bytes \ Part(s, line) : Mem!Written(s, b, Len(log))
          /\ CompleteStore(s)
       \/ /\ \E b \in prog[s].bytes \ Part(s, line) : ~Mem!Written(s, b, Len(log))
          /\ UNCHANGED <<storeHead, stall, status, completed, storeInFlight>>

\* The load was squashed: what is read for it is dropped.
RespondSquashed(line) ==
    /\ Head(reqs[line]) = 0
    /\ UNCHANGED <<data, status, storeHead, stall, completed, storeInFlight, log>>

Respond(line) ==
    /\ reqs[line] # << >>
    /\ RespondLoad(line) \/ RespondStore(line) \/ RespondSquashed(line)
    /\ reqs' = [reqs EXCEPT ![line] = Tail(@)]
    /\ held' = held \cup {line}
    /\ UNCHANGED <<fixed, loadQ, sq, storeTail, sqIdx, fetched, flags, meta, memDepViolator,
          storeWBIdx, canWB, isStoreBlocked, unsent, com, env>>
-----------------------------------------------------------------------------
\* Mutant: only the first line of a split access is looked at.
MutantAccessedLine(l, line) == line = Min(LinesOf(l))
AccessedLine(l, line) == line \in LinesOf(l)

\* checkSnoop(): the head of the load queue is left alone.  With total store order the
\* loads that accessed the line are re-executed, and so is every later one; without it,
\* those that an older load to the same block followed.
CheckSnoop(line) ==
    LET seen == {l \in LoadsFrom((loadHead + 1) % LQEntries) :
                    l \in effAddrValid /\ status[l] # "stalled"}
        hit == {l \in seen : AccessedLine(l, line)}
        fault == IF tso THEN {l \in seen : \E h \in hit : h <= l}
                 ELSE hit \cap possibleLoadViolation
    IN  IF loadHead = loadTail THEN UNCHANGED <<reExec, hitExternalSnoop>>
        ELSE /\ reExec' = reExec \cup fault
             /\ hitExternalSnoop' = hitExternalSnoop \cup (hit \ fault)

\* Another agent writes; the snoop reaches the queue if the cache holds the line or is
\* fetching it.
RemoteWrite(b) ==
    LET line == Line(b) IN
    /\ line \in Lines
    /\ MoreEvents
    /\ log' = Append(log, [op |-> -(Mem!Remote + 1), bytes |-> {b}])
    /\ IF line \in held \/ reqs[line] # << >> THEN CheckSnoop(line)
       ELSE UNCHANGED <<reExec, hitExternalSnoop>>
    /\ held' = held \ {line}
    /\ UNCHANGED <<fixed, loadQ, storeQ, fetched, status, restricted, effAddrValid,
          possibleLoadViolation, partialStoreBufferHit, data, meta, stall, memDepViolator, wb,
          reqs, com, env>>

\* The cache replaces a line, and tells the queue as of a snoop (Ruby's evictionCallback).
Evict(line) ==
    /\ line \in held /\ held' = held \ {line}
    /\ CountEvent
    /\ CheckSnoop(line)
    /\ UNCHANGED <<fixed, loadQ, storeQ, fetched, status, restricted, effAddrValid,
          possibleLoadViolation, partialStoreBufferHit, data, meta, stall, memDepViolator, wb,
          reqs, log, com, retryDue>>
-----------------------------------------------------------------------------
\* squash(): accesses younger than n leave the queues; they are fetched again.
Squash(n) ==
    LET loads == {x \in Loads : lq[x] > n}
        stores == {x \in Stores : sq[x] > n /\ sq[x] \notin canWB}
    IN  /\ lq' = [x \in DOMAIN lq |-> IF x \in loads THEN 0 ELSE lq[x]]
        /\ loadTail' = (loadTail - Cardinality(loads)) % LQEntries
        /\ sq' = [x \in DOMAIN sq |-> IF x \in stores THEN 0 ELSE sq[x]]
        /\ storeTail' = (storeTail - Cardinality(stores)) % SQEntries
        /\ stall' = IF stall.store # 0 /\ stall.loadIdx \in loads THEN NotStalled ELSE stall
        /\ memDepViolator' = IF memDepViolator > n THEN 0 ELSE memDepViolator
        /\ fetched' = n
        /\ status' = [i \in Ops |-> IF i <= n THEN status[i] ELSE "none"]
        /\ restricted' = restricted \cap 1..n /\ effAddrValid' = effAddrValid \cap 1..n
        /\ reExec' = reExec \cap 1..n /\ hitExternalSnoop' = hitExternalSnoop \cap 1..n
        /\ possibleLoadViolation' = possibleLoadViolation \cap 1..n
        /\ partialStoreBufferHit' = partialStoreBufferHit \cap 1..n
        /\ dolmaVirtualReq' = dolmaVirtualReq \cap 1..n
        /\ dolmaPhysicalReq' = dolmaPhysicalReq \cap 1..n
        /\ pendingMetadata' = pendingMetadata \cap 1..n
        /\ tlbTouched' = tlbTouched \cap 1..n /\ lineTouched' = lineTouched \cap 1..n
        /\ lostUpdates' = lostUpdates \cap 1..n
        /\ data' = [i \in Ops |-> IF i <= n THEN data[i] ELSE Unread]
        /\ lqIdx' = [i \in Ops |-> IF i <= n THEN lqIdx[i] ELSE 0]
        /\ sqIdx' = [i \in Ops |-> IF i <= n THEN sqIdx[i] ELSE 0]
        /\ reqs' = [c \in Lines |-> [k \in DOMAIN reqs[c] |->
              IF reqs[c][k] <= n THEN reqs[c][k] ELSE 0]]
        /\ UNCHANGED <<fixed, loadHead, storeHead, wb, held, log, com>>

\* Commit squashes the load that IEW found to have passed an older access.
SquashViolator == memDepViolator # 0 /\ Squash(memDepViolator - 1) /\ UNCHANGED env

\* A redirect from elsewhere in the pipeline.
SquashOther(n) ==
    /\ CountEvent /\ UNCHANGED retryDue
    /\ n \in retired..(fetched - 1)
    /\ Squash(n)

\* commitHead(): the next access has executed, and is not about to be squashed.
AtHead(i) ==
    /\ i = retired + 1 /\ i \in Ops /\ status[i] = "done"
    /\ memDepViolator = 0 \/ i < memDepViolator

\* A load with a ReExec fault traps once all committed stores are complete.
TrapReExec(l) ==
    /\ AtHead(l) /\ l \in reExec
    /\ marked = retired /\ canWB \subseteq completed
    /\ Squash(l - 1) /\ UNCHANGED env

\* The first position of the log at which the part of load l in a line could have been
\* read, in an order that is allowed.
Position(l, line) ==
    LET e == Max({Mem!Earliest(b) : b \in Part(l, line)})
        K == {k \in e..Len(log) : \A b \in Part(l, line) : Mem!View(l, b, k) = data[l][b]}
    IN  IF K = {} THEN e ELSE Min(K)

\* retireHead(): updateMetadataIfNeeded(), with the requests that were kept.  dolmaLoad()
\* does not look at the answer: a request that the cache refuses, or for a line that it has
\* lost since, updates nothing and is not sent again.
UpdateMetadata(i) ==
    LET now == {i} \cap pendingMetadata \cap dolmaVirtualReq
        sent == now \cap dolmaPhysicalReq
    IN  /\ tlbTouched' = tlbTouched \cup now
        /\ dolmaVirtualReq' = dolmaVirtualReq \ now
        /\ dolmaPhysicalReq' = dolmaPhysicalReq \ now
        /\ \/ /\ sent = {} \/ (~retryDue /\ LinesOf(i) \subseteq held)
              /\ lineTouched' = lineTouched \cup sent
              /\ UNCHANGED <<lostUpdates, env>>
           \/ /\ sent # {}
              /\ \/ ~retryDue /\ ~(LinesOf(i) \subseteq held) /\ UNCHANGED env
                 \/ Refuse(retryDue)
              /\ lostUpdates' = lostUpdates \cup sent
              /\ UNCHANGED lineTouched

\* The access is committed; nothing older is left for which it could be restricted.
Retire(i) ==
    /\ AtHead(i) /\ i \notin reExec /\ i \notin restricted
    /\ retired' = i
    /\ at' = [b \in Bytes |-> IF IsLoad(i) /\ b \in prog[i].bytes THEN Position(i, Line(b))
                              ELSE at[b]]
    /\ UpdateMetadata(i)
    /\ UNCHANGED <<fixed, loadQ, storeQ, fetched, status, flags, data, pendingMetadata, stall,
          memDepViolator, wb, cache, marked>>
-----------------------------------------------------------------------------
Next ==
    \/ Insert \/ CommitDone \/ WritebackStore \/ Retry \/ SquashViolator
    \/ \E i \in Ops : Unrestrict(i) \/ ExecuteLoad(i) \/ Retire(i)
                      \/ TrapReExec(i) \/ ExecuteStore(i, "done") \/ ExecuteStore(i, "stalled")
    \/ \E line \in Lines : Respond(line) \/ Evict(line)
    \/ \E b \in Bytes : RemoteWrite(b)
    \/ \E n \in 0..N : SquashOther(n)

Spec == Init /\ [][Next]_vars /\ WF_vars(Next)
-----------------------------------------------------------------------------
\* LSQUnit implements MemoryOrder: whatever order loads execute in, whatever they are
\* forwarded, however often they are refused, delayed, squashed or re-executed, a load
\* that commits has read what a memory in order could have given it, and stores reach
\* memory once and in order.
ImplementsMemoryOrder == Mem!Spec

Waiting == {l \in Ops : status[l] = "rescheduled"}
\* The stall of the load queue is recorded for the eldest of the loads that wait for a
\* store, with a store that is older and not yet sent: so the store's departure, or the
\* squash of the load, always ends it, and squash() never meets "Is stalled should have
\* been cleared by stalling load!".
StallRecorded ==
    /\ (stall.store = 0) <=> (Waiting = {})
    /\ stall.store # 0 =>
          /\ lq[stall.loadIdx] = Min(Waiting)
          /\ stall.store \in StoresBefore(sqIdx[Min(Waiting)])

\* However the circular queues wrap and shrink, the slots read() searches for a load in
\* flight are those of the older stores that are not yet sent, and those the checks for
\* reordering visit from an access on are those of the younger loads.
SearchesRightSlots ==
    \A i \in (marked + 1)..fetched :
        /\ LoadsFrom(IF IsLoad(i) THEN (lqIdx[i] + 1) % LQEntries ELSE lqIdx[i]) =
              {l \in (i + 1)..fetched : IsLoad(l)}
        /\ IsLoad(i) => StoresBefore(sqIdx[i]) =
              {s \in 1..(i - 1) : IsStore(s) /\
                  \E x \in Between(storeWBIdx, storeTail, SQEntries) : sq[x] = s}

\* A restricted access leaves no trace in the replacement state of the TLB and the cache,
\* so a squash finds none to undo; yet one that commits, whatever it was delayed, refused
\* or re-issued for, has updated that of the TLB, and that of the cache if it read memory:
\* when it executed, or with a request sent as it committed, and not before, which alone
\* the cache may fail to follow.
UpdatesDeferred ==
    /\ restricted \cap (tlbTouched \cup lineTouched) = {}
    /\ lostUpdates \subseteq 1..retired
    /\ \A i \in 1..retired :
          /\ i \in tlbTouched
          /\ (IsLoad(i) /\ \E b \in prog[i].bytes : data[i][b] <= 0) =>
                i \in lineTouched \cup lostUpdates

\* Every access commits and every store is complete in the end: no load waits for a
\* store, a retry or an answer that does not come, and no store waits for another.
AllComplete ==
    <>(retired = Len(prog) /\ completed = {s \in Ops : IsStore(s)} /\ storeHead = storeTail)
=============================================================================
