------------------------ MODULE FUContention_proofs ------------------------
(***************************************************************************)
(* Proofs about the functional units, for every program, number of units   *)
(* and latency: what the eviction of unsafe occupants achieves, and that   *)
(* the units and the entries of the IQ are accounted for in STT mode.      *)
(***************************************************************************)
EXTENDS FUContention, OldestYoungest, FiniteSetTheorems, TLAPS

\* What the variables hold.
Types ==
    /\ stt \in BOOLEAN /\ op \in [Insts -> Ops]
    /\ (~stt => \A i \in Insts : op[i] \notin Loads)
    /\ tail \in 0..N
    /\ ready \subseteq 1..tail /\ stalledInsts \subseteq 1..tail /\ toExecute \subseteq 1..tail
    /\ issued \subseteq 1..tail /\ inIQ \subseteq 1..tail /\ executed \subseteq 1..tail
    /\ squashed \subseteq 1..tail /\ restricted \subseteq 1..tail /\ stalled \subseteq 1..tail
    /\ events \subseteq [inst: 1..tail, unit: Units, freeFU: BOOLEAN, left: Nat]
    /\ unitBusy \in [Units -> 0..tail]

\* Once a class is skipped for want of a unit, no unit becomes free in this cycle,
\* and every instruction looked at later is younger than the one refused.
Refused(i) ==
    /\ i \in ready \ squashed /\ op[i] \in skipped
    /\ \A j \in ready : op[j] = op[i] => i <= j
ContentionInv ==
    (~stt /\ phase = "issue") =>
        \A i \in ready : Refused(i) =>
            Unsafe(i) = {} /\ FreeUnits = {} /\ \A j \in Candidates : i < j

\* In STT mode, a unit is in unitsToBeFreed or held until a completion event, not both.
UnitsInv ==
    stt => /\ toFree \in [Units -> {0, 1}]
           /\ \A u \in Units : toFree[u] = 1 => unitBusy[u] # 0
           /\ \A e \in events : e.freeFU =>
                 /\ unitBusy[e.unit] = e.inst /\ toFree[e.unit] = 0
                 /\ \A f \in events : f.freeFU /\ f.unit = e.unit => f = e

\* In STT mode, an instruction that is not squashed and has not issued is in the IQ;
\* one on a ready list or stalled has not issued; what executes has.
QueueInv ==
    stt => /\ ready \cap stalledInsts = {} /\ squashed \cap restricted = {}
           /\ (ready \cup stalledInsts) \ squashed \subseteq inIQ \ issued
           /\ (1..tail) \ (squashed \cup issued) \subseteq inIQ
           /\ toExecute \cup executed \cup {e.inst : e \in events} \subseteq issued
           /\ count = Cardinality(inIQ)

FUInv == Types /\ ContentionInv /\ UnitsInv /\ QueueInv

-----------------------------------------------------------------------------
\* A completion event that is not due comes one cycle nearer, and stays the same
\* otherwise.
LEMMA NearerEvent ==
    ASSUME NEW T, NEW e \in [inst: T, unit: Units, freeFU: BOOLEAN, left: Nat], e.left # 0
    PROVE  /\ [e EXCEPT !.left = @ - 1] \in [inst: T, unit: Units, freeFU: BOOLEAN, left: Nat]
           /\ [e EXCEPT !.left = @ - 1].inst = e.inst
           /\ [e EXCEPT !.left = @ - 1].unit = e.unit
           /\ [e EXCEPT !.left = @ - 1].freeFU = e.freeFU
  OBVIOUS

\* The type invariant is kept.
LEMMA TypesStep ==
    ASSUME Types, [Next]_vars
    PROVE  Types'
<1> USE UnitsAssumption DEF Types, Insts
<1>1. CASE UNCHANGED vars
  BY <1>1, Zenon DEF vars, sched, rob, bits, pool
<1>2. ASSUME NEW r \in BOOLEAN, Insert(r)
      PROVE  Types'
  <2>1. tail' \in 0..N /\ 1..tail \subseteq 1..tail' /\ 0..tail \subseteq 0..tail' /\ tail + 1 \in 1..tail'
    BY <1>2 DEF Insert
  <2>2. events' \subseteq [inst: 1..tail', unit: Units, freeFU: BOOLEAN, left: Nat]
    BY <1>2, <2>1, Zenon DEF Insert, pool
  <2>3. unitBusy' \in [Units -> 0..tail']
    BY <1>2, <2>1, Zenon DEF Insert, pool
  <2> QED BY <1>2, <2>1, <2>2, <2>3, Zenon DEF Insert, sched, pool
<1>3. ASSUME NEW i \in inIQ, CompleteMemInst(i)
      PROVE  Types'
  BY <1>3, Zenon DEF CompleteMemInst, sched, rob, pool
<1>4. CASE Execute
  BY <1>4 DEF Execute, ExecuteInsts, Resumed, Waiting, rob, pool
<1>5. ASSUME NEW i \in ready, PopSquashed(i)
      PROVE  Types'
  BY <1>5, Zenon DEF PopSquashed, sched, rob, bits, pool
<1>6. ASSUME NEW i \in ready, StallLoad(i)
      PROVE  Types'
  BY <1>6, Zenon DEF StallLoad, rob, pool
<1>7. ASSUME NEW i \in ready, NoUnit(i)
      PROVE  Types'
  BY <1>7, Zenon DEF NoUnit, rob, bits, pool
<1>8. ASSUME NEW i \in ready, NEW u \in Units, StartOn(i, u), tail' = tail
      PROVE  /\ events' \subseteq [inst: 1..tail', unit: Units, freeFU: BOOLEAN, left: Nat]
             /\ unitBusy' \in [Units -> 0..tail']
             /\ toExecute' \subseteq 1..tail' /\ ready' \subseteq 1..tail' /\ inIQ' \subseteq 1..tail'
  <2>1. i \in 1..tail /\ i \in Insts /\ op[i] \in Ops /\ Latency[op[i]] - 1 \in Nat
    OBVIOUS
  <2>2. Completion(i, u) \in [inst: 1..tail, unit: Units, freeFU: BOOLEAN, left: Nat]
    BY <2>1 DEF Completion
  <2>3. events' \subseteq events \cup {Completion(i, u)}
    BY <1>8, Zenon DEF StartOn
  <2>4. unitBusy' \in [Units -> 0..tail']
    BY <1>8, <2>1 DEF StartOn
  <2> QED BY <1>8, <2>1, <2>2, <2>3, <2>4, Zenon DEF StartOn
<1>9. ASSUME NEW i \in ready, NEW u \in Units, Issue(i, u)
      PROVE  Types'
  BY <1>8, <1>9, Zenon DEF Issue, rob
<1>10. ASSUME NEW i \in ready, NEW u \in Units, Evict(i, u)
       PROVE  Types'
  <2>1. unitBusy[u] \in 1..tail
    BY <1>10, Zenon DEF Evict, Evictable, Unsafe, InROB
  <2>2. tail' = tail /\ StartOn(i, u)
    BY <1>10, Zenon DEF Evict, rob
  <2> QED BY <1>8, <1>10, <2>1, <2>2, Zenon DEF Evict, rob
<1>11. CASE EndIssue
  BY <1>11, Zenon DEF EndIssue, rob, bits, pool
<1>12. CASE Retire
  BY <1>12, Zenon DEF Retire, sched, bits, pool
<1>13. ASSUME NEW num \in 0..N, Squash(num)
       PROVE  Types'
  BY <1>13, Zenon DEF Squash, LeaveIQ, InROB, sched, rob, pool
<1>14. CASE EndCycle
  <2>1. \A e \in events \ Due :
            [e EXCEPT !.left = @ - 1] \in [inst: 1..tail, unit: Units, freeFU: BOOLEAN, left: Nat]
    BY NearerEvent, Zenon DEF Due
  <2>2. \A e \in events : e.inst \in 1..tail
    OBVIOUS
  <2> QED BY <1>14, <2>1, <2>2 DEF EndCycle, Due, rob, bits
<1>15. CASE ProcessFreeUnits
  BY <1>15 DEF ProcessFreeUnits, rob, bits
<1> QED BY <1>1, <1>2, <1>3, <1>4, <1>5, <1>6, <1>7, <1>9, <1>10, <1>11, <1>12, <1>13, <1>14, <1>15, Zenon
        DEF Next, Schedule

-----------------------------------------------------------------------------
\* The instruction looked at is the oldest candidate.
LEMMA ConsidersOldest ==
    ASSUME Types, NEW i, Considers(i)
    PROVE  i \in Candidates /\ i \in ready /\ i \in 1..tail /\ \A j \in Candidates : i <= j
<1>1. Candidates \in SUBSET Nat /\ Candidates # {}
  <2>1. 1..tail \subseteq Nat
    BY DEF Types
  <2> QED BY <2>1, Zenon DEF Types, Candidates, Considers
<1> QED BY <1>1, MinProperty, Zenon DEF Types, Candidates, Considers

\* The contention invariant is kept: where an instruction has been refused, only
\* evictions follow, and they leave no unit to an unsafe occupant it could take.
LEMMA ContentionStep ==
    ASSUME Types, ContentionInv, [Next]_vars
    PROVE  ContentionInv'
<1> SUFFICES ASSUME ~stt', phase' = "issue", NEW i \in ready', Refused(i)'
             PROVE  (Unsafe(i) = {} /\ FreeUnits = {} /\ \A j \in Candidates : i < j)'
  BY DEF ContentionInv
<1> USE DEF Refused
<1>1. CASE UNCHANGED <<stt, op, phase, skipped, tail, retired, ready, restricted, squashed, unitBusy>>
  BY <1>1, Zenon DEF ContentionInv, Unsafe, InROB, FreeUnits, Candidates
<1>2. CASE UNCHANGED vars
  BY <1>1, <1>2, Zenon DEF vars, sched, rob, bits, pool
<1>3. CASE Execute
  BY <1>3 DEF Execute, ExecuteInsts
<1>4. ASSUME NEW k \in ready, PopSquashed(k)
      PROVE  (Unsafe(i) = {} /\ FreeUnits = {} /\ \A j \in Candidates : i < j)'
  <2>1. UNCHANGED <<stt, op, phase, skipped, tail, retired, restricted, squashed, unitBusy>>
    BY <1>4 DEF PopSquashed, sched, rob, bits, pool
  <2>2. ready' = ready \ {k} /\ k \in Candidates
    BY <1>4 DEF PopSquashed, Considers
  <2>3. Refused(i) /\ i \in ready /\ Candidates' \subseteq Candidates
    BY <2>1, <2>2 DEF Candidates
  <2> QED BY <2>1, <2>3, Zenon DEF ContentionInv, Unsafe, InROB, FreeUnits
<1>5. ASSUME NEW k \in ready, StallLoad(k)
      PROVE  FALSE
  BY <1>5 DEF StallLoad, Stalls
<1>6. ASSUME NEW k \in ready, NoUnit(k)
      PROVE  (Unsafe(i) = {} /\ FreeUnits = {} /\ \A j \in Candidates : i < j)'
  <2>1. UNCHANGED <<stt, op, phase, tail, retired, ready, restricted, squashed, unitBusy>>
    BY <1>6, Zenon DEF NoUnit, rob, bits, pool
  <2>2. skipped' = skipped \cup {op[k]} /\ FreeUnits = {} /\ Unsafe(k) = {} /\ Considers(k)
    BY <1>6, <2>1 DEF NoUnit, Evictable, Wants
  <2>3. Candidates' = {j \in Candidates : op[j] # op[k]}
    BY <2>1, <2>2, Zenon DEF Candidates
  <2>4. k \in Candidates /\ k \in 1..tail /\ \A j \in Candidates : k <= j
    BY <2>2, ConsidersOldest, Zenon
  <2>5. CASE op[i] \in skipped
    BY <2>1, <2>3, <2>5, Zenon DEF ContentionInv, Unsafe, InROB, FreeUnits
  <2>6. CASE op[i] \notin skipped
    <3>1. op[i] = op[k] /\ i \in Candidates /\ i \in 1..tail
      BY <2>1, <2>2, <2>6, Zenon DEF Candidates, Types
    <3>2. i = k
      BY <2>1, <2>4, <3>1
    <3>3. \A j \in Candidates' : k < j
      <4> TAKE j \in Candidates'
      <4>1. j \in Candidates /\ op[j] # op[k] /\ k <= j
        BY <2>3, <2>4
      <4>2. j \in 1..tail /\ j # k
        BY <4>1, Zenon DEF Candidates, Types
      <4> QED BY <2>4, <4>1, <4>2 DEF Types
    <3> QED BY <2>1, <2>2, <3>2, <3>3, Zenon DEF Unsafe, InROB, FreeUnits
  <2> QED BY <2>5, <2>6
<1>7. ASSUME NEW k \in ready, NEW u \in Units, StartOn(k, u), Wants(k),
             UNCHANGED <<stt, op, phase, skipped, tail, retired, restricted, squashed>>
      PROVE  /\ Refused(i) /\ i \in ready /\ i < k
             /\ Unsafe(i) = {} /\ FreeUnits = {}
             /\ FreeUnits' = {} /\ \A j \in Candidates' : i < j
  <2>1. ready' = ready \ {k} /\ k \in Candidates /\ k \in 1..tail
    BY <1>7, ConsidersOldest, Zenon DEF StartOn, Wants
  <2>2. Refused(i) /\ i \in ready
    BY <1>7, <2>1, Zenon DEF Candidates
  <2>3. Unsafe(i) = {} /\ FreeUnits = {} /\ \A j \in Candidates : i < j
    BY <1>7, <2>2, Zenon DEF ContentionInv
  <2>4. Candidates' \subseteq Candidates
    BY <1>7, <2>1, Zenon DEF Candidates
  <2>5. \A w \in Units : unitBusy'[w] = IF w = u THEN k ELSE unitBusy[w]
    BY <1>7, Zenon DEF StartOn, Types
  <2>6. FreeUnits' = {}
    BY <2>1, <2>3, <2>5 DEF FreeUnits
  <2> QED BY <2>1, <2>2, <2>3, <2>4, <2>6, Zenon
<1>8. ASSUME NEW k \in ready, NEW u \in Units, Issue(k, u)
      PROVE  FALSE
  BY <1>7, <1>8, Zenon DEF Issue, rob
<1>9. ASSUME NEW k \in ready, NEW u \in Units, Evict(k, u)
      PROVE  (Unsafe(i) = {} /\ FreeUnits = {} /\ \A j \in Candidates : i < j)'
  <2>1. /\ StartOn(k, u) /\ Wants(k) /\ u \in Unsafe(k)
        /\ UNCHANGED <<stt, op, phase, skipped, tail, retired, restricted, squashed>>
    BY <1>9, Zenon DEF Evict, Evictable, rob
  <2>2. i < k /\ i \in ready /\ Unsafe(i) = {} /\ FreeUnits' = {} /\ \A j \in Candidates' : i < j
    BY <1>7, <2>1, Zenon
  <2>3. i \in 1..tail /\ k \in 1..tail /\ unitBusy[u] \in 0..tail
    BY <2>2, Zenon DEF Types
  <2>4. unitBusy[u] \in InROB \cap restricted /\ unitBusy[u] > k
    BY <2>1, Zenon DEF Unsafe
  <2>5. u \in Unsafe(i)
    BY <2>2, <2>3, <2>4 DEF Unsafe, Types
  <2> QED BY <2>2, <2>5
<1>10. CASE \/ \E r \in BOOLEAN : Insert(r)
            \/ \E k \in inIQ : CompleteMemInst(k)
            \/ EndIssue \/ Retire \/ EndCycle \/ ProcessFreeUnits
            \/ \E num \in 0..N : Squash(num)
  BY <1>10, Zenon DEF Insert, CompleteMemInst, EndIssue, Retire, EndCycle, ProcessFreeUnits, Squash, sched
<1> QED BY <1>2, <1>3, <1>4, <1>5, <1>6, <1>8, <1>9, <1>10, Zenon DEF Next, Schedule

-----------------------------------------------------------------------------
\* At most one completion event frees a unit, so that the number of those due is 0 or 1.
LEMMA DueOnce ==
    ASSUME Types, UnitsInv, stt, NEW u \in Units
    PROVE  \/ /\ Cardinality({e \in Due : Frees(e, u)}) = 0
              /\ \A e \in Due : ~Frees(e, u)
           \/ /\ Cardinality({e \in Due : Frees(e, u)}) = 1
              /\ \E e \in Due : Frees(e, u)
<1> DEFINE D == {e \in Due : Frees(e, u)}
<1>1. CASE D = {}
  BY <1>1, FS_EmptySet
<1>2. CASE D # {}
  <2>1. PICK e \in D : TRUE
    BY <1>2
  <2>2. D = {e}
    BY <2>1, Zenon DEF UnitsInv, Due, Frees
  <2>3. Cardinality(D) = 1
    BY <2>2, FS_Singleton, Zenon
  <2> QED BY <2>1, <2>3
<1> QED BY <1>1, <1>2, Zenon

\* The units' invariant is kept: nothing is evicted in STT mode, so a unit is handed
\* out only after it was freed.
LEMMA UnitsStep ==
    ASSUME Types, UnitsInv, [Next]_vars
    PROVE  UnitsInv'
<1> SUFFICES ASSUME stt'
             PROVE  UnitsInv'
  BY Zenon DEF UnitsInv
<1>1. CASE UNCHANGED <<stt, pool>>
  BY <1>1, Zenon DEF UnitsInv, pool
<1>2. CASE UNCHANGED vars
  BY <1>1, <1>2, Zenon DEF vars
<1>3. CASE \/ \E r \in BOOLEAN : Insert(r)
           \/ \E k \in inIQ : CompleteMemInst(k)
           \/ \E k \in ready : PopSquashed(k) \/ StallLoad(k) \/ NoUnit(k)
           \/ Execute \/ EndIssue \/ Retire
           \/ \E num \in 0..N : Squash(num)
  BY <1>1, <1>3, Zenon DEF Insert, CompleteMemInst, PopSquashed, StallLoad, NoUnit, Execute, ExecuteInsts,
                    EndIssue, Retire, Squash
<1>4. ASSUME NEW i \in ready, NEW u \in Units, Issue(i, u)
      PROVE  UnitsInv'
  <2>1. stt /\ unitBusy[u] = 0 /\ StartOn(i, u) /\ i # 0 /\ i \in 1..tail
    BY <1>4 DEF Issue, FreeUnits, Types
  <2>2. toFree[u] = 0 /\ \A e \in events : e.freeFU => e.unit # u
    BY <2>1 DEF UnitsInv, Types
  <2>3. unitBusy' = [unitBusy EXCEPT ![u] = i]
    BY <2>1, Zenon DEF StartOn
  <2> DEFINE c == Completion(i, u)
  <2>4. c.inst = i /\ c.unit = u /\ c.freeFU = (op[i] \in NonPipelined)
    BY Zenon DEF Completion
  <2> HIDE DEF c
  <2>5. CASE Latency[op[i]] > 1 /\ op[i] \in NonPipelined
    <3>1. events' = events \cup {c} /\ toFree' = toFree
      BY <2>1, <2>5, Zenon DEF StartOn, c
    <3> QED BY <2>1, <2>2, <2>3, <2>4, <3>1 DEF UnitsInv, Types
  <2>6. CASE ~(Latency[op[i]] > 1 /\ op[i] \in NonPipelined)
    <3>1. toFree' = [toFree EXCEPT ![u] = 1]
      <4>1. toFree' = [toFree EXCEPT ![u] = toFree[u] + 1]
        BY <2>1, <2>6, Zenon DEF StartOn
      <4>2. toFree[u] + 1 = 1
        BY <2>2
      <4> QED BY <4>1, <4>2, Zenon
    <3>2. \A e \in events' : e.freeFU => e \in events
      BY <2>1, <2>4, <2>6, Zenon DEF StartOn, c
    <3> QED BY <2>1, <2>2, <2>3, <3>1, <3>2 DEF UnitsInv, Types
  <2> QED BY <2>5, <2>6
<1>5. ASSUME NEW i \in ready, NEW u \in Units, Evict(i, u)
      PROVE  FALSE
  BY <1>5, Zenon DEF Evict, Evictable
<1>6. CASE EndCycle
  <2>1. stt /\ unitBusy' = unitBusy
    BY <1>6 DEF EndCycle
  <2>2. ASSUME NEW u \in Units
        PROVE  /\ toFree'[u] \in {0, 1} /\ (toFree'[u] = 1 => unitBusy[u] # 0)
               /\ (\A e \in events \ Due : ~Frees(e, u)) \/ toFree'[u] = 0
    <3>1. toFree'[u] = toFree[u] + Cardinality({e \in Due : Frees(e, u)})
      BY <1>6 DEF EndCycle
    <3>2. CASE /\ Cardinality({e \in Due : Frees(e, u)}) = 0
               /\ \A e \in Due : ~Frees(e, u)
      BY <2>1, <3>1, <3>2 DEF UnitsInv, Frees, Due
    <3>3. CASE /\ Cardinality({e \in Due : Frees(e, u)}) = 1
               /\ \E e \in Due : Frees(e, u)
      <4>1. PICK e \in Due : Frees(e, u)
        BY <3>3
      <4>2. e \in events /\ e.inst # 0 /\ e.freeFU /\ e.unit = u
        BY <4>1 DEF Due, Frees, Types
      <4>3. toFree[u] = 0 /\ unitBusy[u] # 0 /\ \A f \in events : f.freeFU /\ f.unit = u => f = e
        BY <2>1, <4>2, Zenon DEF UnitsInv
      <4> QED BY <3>1, <3>3, <4>1, <4>3 DEF Frees
    <3> QED BY <2>1, <3>2, <3>3, DueOnce, Zenon
  <2>3. toFree' \in [Units -> {0, 1}]
    BY <1>6, <2>2, Zenon DEF EndCycle
  <2>4. ASSUME NEW f \in events'
        PROVE  \E e \in events \ Due :
                  f = [e EXCEPT !.left = @ - 1] /\ f.inst = e.inst /\ f.unit = e.unit /\ f.freeFU = e.freeFU
    <3>1. PICK e \in events \ Due : f = [e EXCEPT !.left = @ - 1]
      BY <1>6, <2>4 DEF EndCycle
    <3> QED BY <3>1, NearerEvent, Zenon DEF Types, Due
  <2>5. ASSUME NEW f \in events', f.freeFU
        PROVE  /\ unitBusy'[f.unit] = f.inst /\ toFree'[f.unit] = 0
               /\ \A g \in events' : g.freeFU /\ g.unit = f.unit => g = f
    <3>1. PICK e \in events \ Due :
              f = [e EXCEPT !.left = @ - 1] /\ f.inst = e.inst /\ f.unit = e.unit /\ f.freeFU = e.freeFU
      BY <2>4
    <3>2. e.unit \in Units
      BY <3>1 DEF Types
    <3>3. \A g \in events' : g.freeFU /\ g.unit = f.unit => g = f
      <4> SUFFICES ASSUME NEW g \in events', g.freeFU, g.unit = f.unit
                   PROVE  g = f
        OBVIOUS
      <4>1. PICK d \in events \ Due :
              g = [d EXCEPT !.left = @ - 1] /\ g.unit = d.unit /\ g.freeFU = d.freeFU
        BY <2>4, Zenon
      <4>2. d = e
        BY <2>1, <2>5, <3>1, <4>1 DEF UnitsInv
      <4> QED BY <3>1, <4>1, <4>2
    <3> QED BY <2>1, <2>2, <2>5, <3>1, <3>2, <3>3 DEF UnitsInv, Frees
  <2> QED BY <2>1, <2>2, <2>3, <2>5, Zenon DEF UnitsInv
<1>7. CASE ProcessFreeUnits
  <2>1. stt /\ events' = events /\ toFree' = [u \in Units |-> 0]
    BY <1>7, Zenon DEF ProcessFreeUnits
  <2>2. \A u \in Units : toFree[u] = 0 => unitBusy'[u] = unitBusy[u]
    BY <1>7 DEF ProcessFreeUnits, Released
  <2>3. \A e \in events : e.unit \in Units
    BY Zenon DEF Types
  <2> QED BY <2>1, <2>2, <2>3, Zenon DEF UnitsInv
<1> QED BY <1>2, <1>3, <1>4, <1>5, <1>6, <1>7, Zenon DEF Next, Schedule

-----------------------------------------------------------------------------
\* The queue's invariant is kept: an instruction leaves the IQ once, by issue, by
\* completion or by a squash.
LEMMA QueueStep ==
    ASSUME Types, QueueInv, [Next]_vars
    PROVE  QueueInv'
<1> SUFFICES ASSUME stt'
             PROVE  QueueInv'
  BY Zenon DEF QueueInv
<1>0. IsFiniteSet(inIQ) /\ Cardinality(inIQ) \in Nat
  <2>1. IsFiniteSet(1..tail)
    BY UnitsAssumption, FS_Interval DEF Types
  <2> QED BY <2>1, FS_Subset, FS_CardinalityType, Zenon DEF Types
<1>1. CASE UNCHANGED vars
  BY <1>1, Zenon DEF QueueInv, vars, sched, rob, bits, pool
<1>2. ASSUME NEW r \in BOOLEAN, Insert(r)
      PROVE  QueueInv'
  <2>1. tail \in Nat /\ tail + 1 \notin 1..tail /\ 1..(tail + 1) = (1..tail) \cup {tail + 1}
    BY UnitsAssumption DEF Types
  <2>2. Cardinality(inIQ') = Cardinality(inIQ) + 1
    BY <1>0, <1>2, <2>1, FS_AddElement, Zenon DEF Insert, Types
  <2> QED BY <1>2, <2>1, <2>2 DEF Insert, QueueInv, Types, pool
<1>3. ASSUME NEW i \in inIQ, CompleteMemInst(i)
      PROVE  QueueInv'
  <2>1. Cardinality(inIQ') = Cardinality(inIQ) - 1
    BY <1>0, <1>3, FS_RemoveElement, Zenon DEF CompleteMemInst
  <2>2. i \in issued
    BY <1>3, Zenon DEF CompleteMemInst, QueueInv
  <2> QED BY <1>3, <2>1, <2>2, Zenon DEF CompleteMemInst, QueueInv, rob, pool
<1>4. CASE Execute
  BY <1>4, SMTT(60) DEF Execute, ExecuteInsts, Resumed, Waiting, QueueInv, rob, pool
<1>5. ASSUME NEW i \in ready, PopSquashed(i)
      PROVE  QueueInv'
  BY <1>5, Zenon DEF PopSquashed, QueueInv, rob, bits, pool
<1>6. ASSUME NEW i \in ready, StallLoad(i)
      PROVE  QueueInv'
  <2>1. i \notin squashed /\ i \notin issued
    BY <1>6, Zenon DEF StallLoad, Stalls, QueueInv
  <2> QED BY <1>6, <2>1, Zenon DEF StallLoad, QueueInv, rob, pool
<1>7. ASSUME NEW i \in ready, NoUnit(i)
      PROVE  QueueInv'
  BY <1>7, Zenon DEF NoUnit, QueueInv, rob, bits, pool
<1>8. ASSUME NEW i \in ready, NEW u \in Units, Issue(i, u)
      PROVE  QueueInv'
  <2>1. stt /\ i \in inIQ /\ i \notin stalledInsts /\ StartOn(i, u) /\ i \notin squashed
    BY <1>8, Zenon DEF Issue, Wants, QueueInv
  <2>2. count' = Cardinality(inIQ')
    BY <1>0, <2>1, FS_RemoveElement, Zenon DEF StartOn, QueueInv
  <2>3. {e.inst : e \in events'} \subseteq {e.inst : e \in events} \cup {i}
    BY <2>1, SMTT(60) DEF StartOn, Completion
  <2>4. toExecute' \subseteq toExecute \cup {i} /\ inIQ \ {i} \subseteq inIQ' /\ ready' = ready \ {i}
    BY <2>1, Zenon DEF StartOn
  <2> QED BY <1>8, <2>1, <2>2, <2>3, <2>4, Zenon DEF Issue, QueueInv, rob
<1>9. ASSUME NEW i \in ready, NEW u \in Units, Evict(i, u)
      PROVE  FALSE
  BY <1>9 DEF Evict, Evictable
<1>10. CASE EndIssue
  BY <1>10, Zenon DEF EndIssue, QueueInv, rob, bits, pool
<1>11. CASE Retire
  BY <1>11, Zenon DEF Retire, QueueInv, bits, pool
<1>12. ASSUME NEW num \in 0..N, Squash(num)
       PROVE  QueueInv'
  <2> DEFINE S == {i \in InROB \ squashed : i > num}
  <2>1. stt /\ squashed' = squashed \cup S /\ restricted' = restricted \ S
        /\ inIQ' = inIQ \ LeaveIQ(S) /\ issued' = issued \cup LeaveIQ(S)
        /\ count' = count - Cardinality(LeaveIQ(S))
        /\ UNCHANGED <<stt, tail, ready, stalledInsts, toExecute, executed, events>>
    BY <1>12, Zenon DEF Squash, rob, pool
  <2>2. S \subseteq (1..tail) \ squashed
    BY DEF InROB
  <2> HIDE DEF S
  <2>3. LeaveIQ(S) \subseteq inIQ /\ LeaveIQ(S) \subseteq S
    BY <2>1, <2>2, Zenon DEF LeaveIQ, QueueInv
  <2>4. inIQ \cap LeaveIQ(S) = LeaveIQ(S)
    BY <2>3
  <2>5. Cardinality(inIQ') = Cardinality(inIQ) - Cardinality(LeaveIQ(S))
    <3> DEFINE L == LeaveIQ(S)
    <3> HIDE DEF L
    <3>1. Cardinality(inIQ \ L) = Cardinality(inIQ) - Cardinality(inIQ \cap L)
      BY <1>0, FS_Difference, Zenon
    <3> QED BY <2>1, <2>4, <3>1, Zenon DEF L
  <2> QED BY <2>1, <2>3, <2>5, Zenon DEF QueueInv
<1>13. CASE EndCycle
  <2>1. {e.inst : e \in events'} \subseteq {e.inst : e \in events}
    <3> SUFFICES ASSUME NEW f \in events'
                 PROVE  \E e \in events : f.inst = e.inst
      BY Zenon
    <3>1. PICK e \in events \ Due : f = [e EXCEPT !.left = @ - 1]
      BY <1>13, Zenon DEF EndCycle
    <3> QED BY <3>1, NearerEvent DEF Types, Due
  <2>2. {e.inst : e \in Due} \subseteq {e.inst : e \in events}
    BY Zenon DEF Due
  <2> QED BY <1>13, <2>1, <2>2, Zenon DEF EndCycle, QueueInv, rob, bits
<1>14. CASE ProcessFreeUnits
  BY <1>14, Zenon DEF ProcessFreeUnits, QueueInv, rob, bits
<1> QED BY <1>1, <1>2, <1>3, <1>4, <1>5, <1>6, <1>7, <1>8, <1>9, <1>10, <1>11, <1>12, <1>13, <1>14, Zenon
        DEF Next, Schedule

-----------------------------------------------------------------------------
\* FUInv holds in every reachable state.
LEMMA Invariance == Spec => []FUInv
<1>1. Init => FUInv
  <2> SUFFICES ASSUME Init
               PROVE  FUInv
    OBVIOUS
  <2>1. Types
    BY UnitsAssumption DEF Init, Types, Insts
  <2>2. ContentionInv /\ UnitsInv
    BY DEF Init, ContentionInv, UnitsInv
  <2>3. QueueInv
    BY FS_EmptySet DEF Init, QueueInv
  <2> QED BY <2>1, <2>2, <2>3 DEF FUInv
<1>2. FUInv /\ [Next]_vars => FUInv'
  BY TypesStep, ContentionStep, UnitsStep, QueueStep, Zenon DEF FUInv
<1> QED BY <1>1, <1>2, PTL DEF Spec

\* Outside STT mode, whatever the program and the number of units, scheduleReadyInsts()
\* refuses a unit to an instruction only when no younger restricted one holds any.
THEOREM ContentionIsSafe == Spec => []NoUnsafeContention
<1>1. FUInv => NoUnsafeContention
  BY Zenon DEF FUInv, ContentionInv, Refused, NoUnsafeContention
<1> QED BY <1>1, Invariance, PTL

\* In STT mode, the assertions of freeUnitNextCycle() and processFreeUnits() hold, and
\* an operation that is not pipelined keeps its unit until its FUCompletion event.
THEOREM UnitsAreExclusive == Spec => []UnitsExclusive
<1>1. FUInv => UnitsExclusive
  BY DEF FUInv, UnitsInv, UnitsExclusive, UnitsFreedOnce
<1> QED BY <1>1, Invariance, PTL

\* In STT mode, freeEntries is the number of entries that are not in use, after any
\* sequence of insertions, issues, stalls, completions and squashes.
THEOREM EntriesAreCounted == Spec => []EntriesCounted
<1>1. FUInv => EntriesCounted
  BY Zenon DEF FUInv, QueueInv, EntriesCounted
<1> QED BY <1>1, Invariance, PTL
=============================================================================
