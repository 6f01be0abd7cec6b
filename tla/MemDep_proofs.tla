---------------------------- MODULE MemDep_proofs ----------------------------
(***************************************************************************)
(* No instruction of the memory dependence unit is lost, and none is made  *)
(* ready twice; a barrier in effect is the youngest; the loop of           *)
(* StoreSet::squash() ends: for programs and tables of any size.           *)
(***************************************************************************)
EXTENDS MemDep, TLAPS

\* i waits for an entry in the unit.
Depends(i) == \E p \in insts : i \in dependInsts[p]
\* i waits for the head of the ROB and nothing else before it is ready.
Waits(i) == inst[i].nonSpec \/ IsBarrier(i)

\* The variables the argument is about have their types.
Types1 ==
    /\ inst \in [Seqs -> Types] /\ tail \in 0..N /\ committed \in 0..tail
    /\ squashed \subseteq 1..tail /\ insts \subseteq 1..tail
    /\ regsReady \subseteq 1..tail /\ memDepReady \subseteq 1..tail
    /\ dependInsts \in [Seqs -> SUBSET (1..tail)] /\ ready \in [Seqs -> Nat]

\* Entries of the unit are in the ROB, and so are those on a list of the IQ.
InUnit ==
    /\ \A i \in insts : i > committed /\ i \notin squashed
    /\ executing \subseteq insts /\ instsToReplay \subseteq insts /\ nonSpecInsts \subseteq insts
    /\ \A i \in Seqs : ready[i] > 0 => i \in insts

\* An instruction depends on one older entry, and cannot leave the unit before it
\* unless it is squashed.
Dependences ==
    /\ \A p \in Seqs : \A i \in dependInsts[p] : p < i
    /\ \A p, q \in insts : \A i \in dependInsts[p] : i \in dependInsts[q] => p = q
    /\ \A p \in insts : \A i \in dependInsts[p] : i \in insts \/ i \in squashed

\* What the bits of an entry say about where it is.
Bits ==
    \A i \in insts :
        /\ Depends(i) => ~Waits(i) /\ i \notin memDepReady
        /\ i \in memDepReady \cup regsReady => ~Waits(i)
        /\ ready[i] > 0 \/ i \in executing \cup instsToReplay =>
              (Waits(i) \/ i \in regsReady) /\ ~Depends(i)
        /\ i \in nonSpecInsts => Waits(i)

\* An entry is somewhere, and on one list only.
Somewhere ==
    \A i \in insts :
        \/ ready[i] > 0 \/ i \in executing \cup instsToReplay \cup nonSpecInsts
        \/ Depends(i) \/ i \in memDepReady \ regsReady
Once ==
    \A i \in insts :
        /\ ready[i] <= 1
        /\ ready[i] > 0 => i \notin executing \cup instsToReplay \cup nonSpecInsts
        /\ i \in executing => i \notin instsToReplay \cup nonSpecInsts
        /\ i \in instsToReplay => i \notin nonSpecInsts

\* The inductive invariant.
IInv == Types1 /\ InUnit /\ Dependences /\ Bits /\ Somewhere /\ Once
-----------------------------------------------------------------------------
\* regsReady() preserves the invariant: it readies an entry only if no store or barrier holds it.
LEMMA RegsReadyKeeps ==
    ASSUME IInv, NEW i \in insts, NEW r \in BOOLEAN, RegsReady(i, r)
    PROVE  IInv'
<1> USE MemDepAssumption DEF IInv, Types1, InUnit, RegsReady, RegsSuffice, Readied, Seqs, rob
<1>1. Types1'
  BY DEF Bits
<1>2. InUnit'
  BY Zenon DEF Bits
<1>3. Dependences'
  BY Zenon DEF Dependences
<1>4. Bits'
  BY DEF Bits, Depends, Waits, IsBarrier, Dependences
<1>5. Somewhere'
  BY DEF Somewhere, Bits, Depends, Dependences, Waits, IsBarrier, Once
<1>6. Once'
  BY DEF Once, Bits, Depends, Waits, IsBarrier
<1> QED BY <1>1, <1>2, <1>3, <1>4, <1>5, <1>6, Zenon

\* nonSpecInstReady() preserves the invariant: the entry leaves nonSpecInsts for the ready list.
LEMMA ScheduleNonSpecKeeps ==
    ASSUME IInv, NEW i \in insts, ScheduleNonSpec(i)
    PROVE  IInv'
<1> USE MemDepAssumption DEF IInv, Types1, InUnit, ScheduleNonSpec, Readied, Seqs, rob
<1>1. Types1'
  BY DEF Bits
<1>2. InUnit'
  BY Zenon DEF Bits
<1>3. Dependences'
  BY Zenon DEF Dependences
<1>4. Bits'
  BY DEF Bits, Depends, Waits, IsBarrier, Dependences
<1>5. Somewhere'
  BY DEF Somewhere, Bits, Depends, Dependences, Waits, IsBarrier, Once
<1>6. Once'
  BY DEF Once, Bits, Depends, Waits, IsBarrier
<1> QED BY <1>1, <1>2, <1>3, <1>4, <1>5, <1>6, Zenon

\* issue() preserves the invariant: the entry leaves the ready list to execute.
LEMMA IssueKeeps ==
    ASSUME IInv, NEW i \in insts, Issue(i)
    PROVE  IInv'
<1> USE MemDepAssumption DEF IInv, Types1, InUnit, Issue, Seqs, rob
<1>1. Types1'
  BY DEF Bits
<1>2. InUnit'
  BY Zenon DEF Bits
<1>3. Dependences'
  BY Zenon DEF Dependences
<1>4. Bits'
  BY DEF Bits, Depends, Waits, IsBarrier, Dependences
<1>5. Somewhere'
  BY DEF Somewhere, Bits, Depends, Dependences, Waits, IsBarrier, Once
<1>6. Once'
  BY DEF Once, Bits, Depends, Waits, IsBarrier
<1> QED BY <1>1, <1>2, <1>3, <1>4, <1>5, <1>6, Zenon

\* The retry lists of the IQ preserve the invariant: the entry is ready again, once.
LEMMA RetryKeeps ==
    ASSUME IInv, NEW i \in insts, Retry(i)
    PROVE  IInv'
<1> USE MemDepAssumption DEF IInv, Types1, InUnit, Retry, Readied, Seqs, rob
<1>1. Types1'
  BY DEF Bits
<1>2. InUnit'
  BY Zenon DEF Bits
<1>3. Dependences'
  BY Zenon DEF Dependences
<1>4. Bits'
  BY DEF Bits, Depends, Waits, IsBarrier, Dependences
<1>5. Somewhere'
  BY DEF Somewhere, Bits, Depends, Dependences, Waits, IsBarrier, Once
<1>6. Once'
  BY DEF Once, Bits, Depends, Waits, IsBarrier
<1> QED BY <1>1, <1>2, <1>3, <1>4, <1>5, <1>6, Zenon

\* reschedule() preserves the invariant: the entry moves to instsToReplay.
LEMMA RescheduleKeeps ==
    ASSUME IInv, NEW i \in insts, Reschedule(i)
    PROVE  IInv'
<1> USE MemDepAssumption DEF IInv, Types1, InUnit, Reschedule, Seqs, rob
<1>1. Types1'
  BY Zenon DEF Bits
<1>2. InUnit'
  BY Zenon DEF Bits
<1>3. Dependences'
  BY Zenon DEF Dependences
<1>4. Bits'
  BY DEF Bits, Depends, Waits, IsBarrier, Dependences
<1>5. Somewhere'
  BY Zenon DEF Somewhere, Bits, Depends, Dependences, Waits, IsBarrier, Once
<1>6. Once'
  BY Zenon DEF Once, Bits, Depends, Waits, IsBarrier
<1> QED BY <1>1, <1>2, <1>3, <1>4, <1>5, <1>6, Zenon

\* replay() preserves the invariant: all of instsToReplay becomes ready.
LEMMA ReplayKeeps ==
    ASSUME IInv, Replay
    PROVE  IInv'
<1> USE MemDepAssumption DEF IInv, Types1, InUnit, Replay, Readied, Seqs, rob
<1>1. Types1'
  BY DEF Bits
<1>2. InUnit'
  BY Zenon DEF Bits
<1>3. Dependences'
  BY Zenon DEF Dependences
<1>4. Bits'
  BY DEF Bits, Depends, Waits, IsBarrier, Dependences
<1>5. Somewhere'
  BY DEF Somewhere, Bits, Depends, Dependences, Waits, IsBarrier, Once
<1>6. Once'
  BY DEF Once, Bits, Depends, Waits, IsBarrier
<1> QED BY <1>1, <1>2, <1>3, <1>4, <1>5, <1>6, Zenon

\* completed() with wakeDependents() preserves the invariant: a dependent is woken by the
\* one producer it waits for, or was squashed.
LEMMA CompleteKeeps ==
    ASSUME IInv, NEW i \in insts, Complete(i)
    PROVE  IInv'
<1> USE MemDepAssumption DEF IInv, Types1, InUnit, Complete, Readied, Woken, Seqs, rob
<1>0. /\ i \in 1..tail /\ i \in Seqs /\ tail' = tail /\ inst' = inst /\ squashed' = squashed
      /\ committed' = committed /\ dependInsts[i] \subseteq 1..tail
  OBVIOUS
<1>a. Woken(i) = {w \in dependInsts[i] : w \in insts /\ w \in regsReady /\ w \notin squashed}
  BY <1>0, Zenon DEF Dependences
<1>b. \A p \in Seqs : dependInsts'[p] = IF p = i THEN {} ELSE dependInsts[p]
  BY <1>0, Zenon
<1>1. Types1'
  <2>1. dependInsts' \in [Seqs -> SUBSET (1..tail)]
    BY <1>0, Zenon
  <2>2. ready' \in [Seqs -> Nat]
    BY <1>0
  <2>3. memDepReady' \subseteq 1..tail
    BY <1>0, Zenon
  <2> QED BY <1>0, <2>1, <2>2, <2>3, Zenon
<1>2. InUnit'
  <2>1. \A j \in insts' : j > committed' /\ j \notin squashed'
    BY <1>0, Zenon
  <2>2. /\ executing' \subseteq insts' /\ instsToReplay' \subseteq insts'
        /\ nonSpecInsts' \subseteq insts'
    BY <1>0, Zenon DEF Once
  <2>3. ASSUME NEW j \in Seqs, ready'[j] > 0  PROVE j \in insts'
    <3>1. j # i
      BY <2>3, <1>0, <1>a DEF Once, Dependences
    <3>2. j \in insts
      BY <2>3, <1>0, <1>a, Zenon
    <3> QED BY <3>1, <3>2, Zenon
  <2> QED BY <2>1, <2>2, <2>3, Zenon
<1>3. Dependences'
  <2>1. \A p \in Seqs : \A j \in dependInsts'[p] : p < j
    BY <1>b, Zenon DEF Dependences
  <2>2. \A p, q \in insts' : \A j \in dependInsts'[p] : j \in dependInsts'[q] => p = q
    BY <1>b DEF Dependences
  <2>3. \A p \in insts' : \A j \in dependInsts'[p] : j \in insts' \/ j \in squashed'
    BY <1>0, <1>b DEF Dependences, Bits, Depends
  <2> QED BY <2>1, <2>2, <2>3, Zenon DEF Dependences
<1>4. Bits'
  BY DEF Bits, Depends, Waits, IsBarrier, Dependences
<1>5. Somewhere'
  BY DEF Somewhere, Bits, Depends, Dependences, Waits, IsBarrier, Once
<1>6. Once'
  BY DEF Once, Bits, Depends, Waits, IsBarrier
<1> QED BY <1>1, <1>2, <1>3, <1>4, <1>5, <1>6, Zenon

\* squash() preserves the invariant: a squashed entry leaves every list, and no entry that
\* stays waits for one that goes.
LEMMA SquashKeeps ==
    ASSUME IInv, NEW num \in committed..(tail - 1), Squash(num)
    PROVE  IInv'
<1> USE MemDepAssumption DEF IInv, Types1, InUnit, Squash, Kept, InROB, Seqs, rob
<1>1. Types1'
  BY Zenon DEF Bits
<1>2. InUnit'
  <2>1. \A i \in insts' : i > committed' /\ i \notin squashed'
    BY Zenon
  <2>2. /\ executing' \subseteq insts' /\ instsToReplay' \subseteq insts'
        /\ nonSpecInsts' \subseteq insts'
    BY Zenon
  <2>3. \A i \in Seqs : ready'[i] > 0 => i \in insts'
    OBVIOUS
  <2> QED BY <2>1, <2>2, <2>3, Zenon
<1>3. Dependences'
  BY Zenon DEF Dependences
<1>4. Bits'
  BY DEF Bits, Depends, Waits, IsBarrier, Dependences
<1>5. Somewhere'
  BY DEF Somewhere, Bits, Depends, Dependences, Waits, IsBarrier, Once
<1>6. Once'
  BY DEF Once, Bits, Depends, Waits, IsBarrier
<1> QED BY <1>1, <1>2, <1>3, <1>4, <1>5, <1>6, Zenon

\* Retirement preserves the invariant: the instruction has left the unit.
LEMMA CommitKeeps ==
    ASSUME IInv, NEW i \in InROB, Commit(i)
    PROVE  IInv'
<1> USE MemDepAssumption DEF IInv, Types1, InUnit, Commit, InROB, AtHead, places, Seqs, rob
<1>1. Types1'
  BY DEF Bits
<1>2. InUnit'
  BY DEF Bits
<1>3. Dependences'
  BY Zenon DEF Dependences
<1>4. Bits'
  BY Zenon DEF Bits, Depends, Waits, IsBarrier, Dependences
<1>5. Somewhere'
  BY Zenon DEF Somewhere, Bits, Depends, Dependences, Waits, IsBarrier, Once
<1>6. Once'
  BY Zenon DEF Once, Bits, Depends, Waits, IsBarrier
<1> QED BY <1>1, <1>2, <1>3, <1>4, <1>5, <1>6, Zenon

\* An instruction of the unit that is no load or store is a barrier.
LEMMA KindOf ==
    \A t \in Types : (t.kind \in {"load", "store"}) <=> ~(t.kind \in {"memBarrier", "writeBarrier"})
BY DEF Types, Kinds

\* insert(), insertNonSpec() and insertBarrier() preserve the invariant: a new entry waits for
\* its registers, for producers that are in the unit, or for the head of the ROB.
LEMMA InsertKeeps ==
    ASSUME IInv, NEW regs \in BOOLEAN, NEW r \in BOOLEAN, Insert(regs, r)
    PROVE  IInv'
<1> USE MemDepAssumption DEF IInv, Types1, InUnit, Seqs
<1>i. PICK i \in Nat : i = tail + 1
  OBVIOUS
<1>0. /\ tail' = i /\ insts' = insts \cup {i} /\ inst' = inst /\ committed' = committed
      /\ squashed' = squashed /\ instsToReplay' = instsToReplay /\ executing' = executing
      /\ i \in Seqs /\ i \notin 1..tail /\ 1..tail \subseteq 1..i /\ insts \subseteq Seqs
  BY <1>i DEF Insert
<1>w. \/ InsertMemRef(i, inst[i], regs, r) /\ ~Waits(i)
      \/ /\ Waits(i) /\ nonSpecInsts' = nonSpecInsts \cup {i}
         /\ UNCHANGED <<dependInsts, memDepReady, regsReady, ready>>
  <2> DEFINE memRef == inst[i].kind \in {"load", "store"}
  <2>1. memRef <=> ~IsBarrier(i)
    <3>1. inst[i] \in Types
      BY <1>0, Zenon
    <3> QED BY <3>1, KindOf, Zenon DEF IsBarrier
  <2>2. \/ memRef /\ ~inst[i].nonSpec /\ InsertMemRef(i, inst[i], regs, r)
        \/ memRef /\ inst[i].nonSpec /\ InsertNonSpec(i, inst[i])
        \/ ~memRef /\ InsertBarrier(i, inst[i])
    BY <1>i, Zenon DEF Insert
  <2> HIDE DEF memRef, IInv, Types1, InUnit
  <2>3. ASSUME InsertNonSpec(i, inst[i]) \/ InsertBarrier(i, inst[i])
        PROVE  /\ nonSpecInsts' = nonSpecInsts \cup {i}
               /\ UNCHANGED <<dependInsts, memDepReady, regsReady, ready>>
    BY <2>3, SMT DEF InsertNonSpec, InsertBarrier
  <2> QED BY <2>1, <2>2, <2>3, Zenon DEF Waits
<1>1. CASE InsertMemRef(i, inst[i], regs, r) /\ ~Waits(i)
  <2> DEFINE P == Producers(inst[i])
  <2> DEFINE free == P = {}
  <2>0. P \subseteq insts /\ \A p, q \in P : p = q
    BY Zenon DEF Producers
  <2>a. /\ memDepReady' = IF free THEN memDepReady \cup {i} ELSE memDepReady
        /\ regsReady' = IF regs THEN regsReady \cup {i} ELSE regsReady
        /\ nonSpecInsts' = nonSpecInsts
    BY <1>1, Zenon DEF InsertMemRef
  <2>b. \A p \in Seqs : dependInsts'[p] = IF p \in P THEN dependInsts[p] \cup {i} ELSE dependInsts[p]
    BY <1>1, Zenon DEF InsertMemRef
  <2>c. \A j \in Seqs : ready'[j] = IF j = i /\ free /\ regs THEN ready[j] + 1 ELSE ready[j]
    BY <1>1, <1>0, Zenon DEF InsertMemRef, Readied
  <2>d. ready[i] = 0
    BY <1>0
  <2>1. Types1'
    <3>1. dependInsts' \in [Seqs -> SUBSET (1..i)]
      BY <1>1, <1>0 DEF InsertMemRef
    <3>2. ready' \in [Seqs -> Nat]
      BY <1>1, <1>0 DEF InsertMemRef, Readied
    <3> QED BY <3>1, <3>2, <2>a, <1>0, <1>i
  <2>2. InUnit'
    BY <1>0, <1>i, <2>a, <2>c
  <2> HIDE DEF P
  <2>3. Dependences'
    <3>0. /\ i \notin insts /\ \A p \in P : p \in Seqs /\ p < i
          /\ \A p \in Seqs : \A j \in dependInsts[p] : j # i
      BY <1>0, <1>i, <2>0
    <3>1. ASSUME NEW p \in Seqs, NEW j \in dependInsts'[p]  PROVE p < j
      <4>1. CASE p \in P
        <5>1. j \in dependInsts[p] \/ j = i
          BY <4>1, <2>b, Zenon
        <5> QED BY <5>1, <4>1, <3>0, Zenon DEF Dependences
      <4>2. CASE p \notin P
        BY <4>2, <2>b, Zenon DEF Dependences
      <4> QED BY <4>1, <4>2, Zenon
    <3>2. ASSUME NEW p \in insts', NEW q \in insts', NEW j \in dependInsts'[p],
                 j \in dependInsts'[q]
          PROVE  p = q
      <4>1. CASE j = i
        <5>1. p \in P /\ q \in P
          BY <4>1, <3>2, <3>0, <2>b, <1>0, Zenon
        <5> QED BY <5>1, <2>0, Zenon
      <4>2. CASE j # i
        <5>1. j \in dependInsts[p] /\ j \in dependInsts[q]
          BY <4>2, <3>2, <2>b, <1>0, Zenon
        <5>2. p \in Seqs /\ q \in Seqs
          BY <3>2, <1>0, Zenon
        <5>3. p < j /\ q < j /\ j \in 1..tail
          BY <5>1, <5>2, Zenon DEF Dependences
        <5>4. p # i /\ q # i
          BY <5>2, <5>3, <1>i
        <5>5. p \in insts /\ q \in insts
          BY <3>2, <5>4, <1>0, Zenon
        <5> QED BY <5>1, <5>5, Zenon DEF Dependences
      <4> QED BY <4>1, <4>2, Zenon
    <3>3. ASSUME NEW p \in insts', NEW j \in dependInsts'[p], j # i
          PROVE  j \in insts \/ j \in squashed
      <4>1. j \in dependInsts[p]
        BY <3>3, <2>b, <1>0, Zenon
      <4>2. p \in insts
        BY <4>1, <1>0, <1>i DEF Dependences
      <4> QED BY <4>1, <4>2, Zenon DEF Dependences
    <3> QED BY <3>1, <3>2, <3>3, <1>0, Zenon DEF Dependences
  <2>x. ASSUME NEW j \in insts  PROVE Depends(j)' <=> Depends(j)
    <3>1. j # i /\ i \in Seqs /\ i \notin insts
      BY <1>0, <1>i, Zenon
    <3>2. \A p \in Seqs : j \in dependInsts'[p] <=> j \in dependInsts[p]
      BY <3>1, <2>b, Zenon
    <3>3. j \notin dependInsts[i]
      BY <1>0, <1>i DEF Dependences
    <3> QED BY <3>1, <3>2, <3>3, <1>0, Zenon DEF Depends
  <2>y. Depends(i)' <=> ~free
    BY <1>0, <1>i, <2>0, <2>b, Zenon DEF Depends, Dependences
  <2>z. \A j \in Seqs : Waits(j)' <=> Waits(j)
    BY <1>0, Zenon DEF Waits, IsBarrier
  <2>4. Bits'
    BY <1>0, <1>1, <2>a, <2>c, <2>d, <2>x, <2>y, <2>z, Zenon DEF Bits
  <2>5. Somewhere'
    BY <1>0, <2>a, <2>c, <2>d, <2>x, <2>y DEF Somewhere
  <2>6. Once'
    BY <1>0, <2>a, <2>c, <2>d DEF Once
  <2> QED BY <2>1, <2>2, <2>3, <2>4, <2>5, <2>6, Zenon
<1>2. CASE /\ Waits(i) /\ nonSpecInsts' = nonSpecInsts \cup {i}
           /\ UNCHANGED <<dependInsts, memDepReady, regsReady, ready>>
  <2>x. \A j \in insts : Depends(j)' <=> Depends(j)
    BY <1>0, <1>i, <1>2 DEF Depends, Dependences
  <2>y. ~Depends(i)'
    BY <1>0, <1>i, <1>2, Zenon DEF Depends, Dependences
  <2>z. \A j \in Seqs : Waits(j)' <=> Waits(j)
    BY <1>0 DEF Waits, IsBarrier
  <2>1. Types1'
    BY <1>0, <1>i, <1>2
  <2>2. InUnit'
    BY <1>0, <1>i, <1>2
  <2>3. Dependences'
    BY <1>0, <1>2 DEF Dependences
  <2>4. Bits'
    BY <1>0, <1>2, <2>x, <2>y, <2>z, Zenon DEF Bits
  <2>5. Somewhere'
    BY <1>0, <1>2, <2>x, Zenon DEF Somewhere
  <2>6. Once'
    BY <1>0, <1>2, SMTT(60) DEF Once
  <2> QED BY <2>1, <2>2, <2>3, <2>4, <2>5, <2>6
<1> QED BY <1>w, <1>1, <1>2, Zenon

\* Steps that leave the lists alone preserve the invariant.
LEMMA OthersKeep ==
    ASSUME IInv, UNCHANGED <<rob, places>>
    PROVE  IInv'
BY Zenon DEF IInv, Types1, InUnit, Dependences, Bits, Somewhere, Once, Depends, Waits, IsBarrier,
       Seqs, rob, places

\* The unit is empty at first.
LEMMA InitInv == Init => IInv
BY MemDepAssumption, SMTT(60) DEF Init, IInv, Types1, InUnit, Dependences, Bits, Somewhere, Once, Seqs

\* Every step of the unit preserves the invariant.
LEMMA NextInv == IInv /\ [Next]_vars => IInv'
<1> SUFFICES ASSUME IInv, [Next]_vars PROVE IInv'
  OBVIOUS
<1>1. CASE Next
  <2>1. ASSUME NEW i \in insts, NEW r \in BOOLEAN, RegsReady(i, r) PROVE IInv'
    BY <2>1, RegsReadyKeeps
  <2>2. ASSUME NEW i \in insts, ScheduleNonSpec(i) PROVE IInv'
    BY <2>2, ScheduleNonSpecKeeps
  <2>3. ASSUME NEW i \in insts, Issue(i) PROVE IInv'
    BY <2>3, IssueKeeps
  <2>4. ASSUME NEW i \in insts, Retry(i) PROVE IInv'
    BY <2>4, RetryKeeps
  <2>5. ASSUME NEW i \in insts, Reschedule(i) PROVE IInv'
    BY <2>5, RescheduleKeeps
  <2>6. ASSUME NEW i \in insts, Complete(i) PROVE IInv'
    BY <2>6, CompleteKeeps
  <2>7. CASE Replay
    BY <2>7, ReplayKeeps
  <2>8. ASSUME NEW i \in InROB, Commit(i) PROVE IInv'
    BY <2>8, CommitKeeps
  <2>9. ASSUME NEW i \in InROB, Unrestrict(i) PROVE IInv'
    BY <2>9, OthersKeep DEF Unrestrict
  <2>10. ASSUME NEW s \in 1..tail, NEW l \in InROB, Violation(s, l) PROVE IInv'
    BY <2>10, OthersKeep, Zenon DEF Violation
  <2>11. ASSUME NEW regs \in BOOLEAN, NEW r \in BOOLEAN, Insert(regs, r) PROVE IInv'
    BY <2>11, InsertKeeps
  <2>12. ASSUME NEW num \in committed..(tail - 1), Squash(num) PROVE IInv'
    BY <2>12, SquashKeeps
  <2> QED
    BY <1>1, <2>1, <2>2, <2>3, <2>4, <2>5, <2>6, <2>7, <2>8, <2>9, <2>10, <2>11, <2>12, Zenon
       DEF Next, Advance
<1>2. CASE UNCHANGED vars
  BY <1>2, OthersKeep DEF vars
<1> QED BY <1>1, <1>2

\* The invariant holds throughout.
LEMMA Invariance == Spec => []IInv
BY InitInv, NextInv, PTL DEF Spec

\* Dependents, of the properties, in the form of the invariant.
LEMMA DependentsAre == \A i : i \in Dependents <=> Depends(i)
BY DEF Dependents, Depends

\* No instruction is lost in the unit: every entry is on a list from which the IQ or commit
\* takes it, waits for a register, or is on the dependInsts of an entry whose completed()
\* wakes it, whatever was squashed, rescheduled and replayed.
THEOREM NothingLost == Spec => []NoneLost
<1>1. IInv => NoneLost
  <2> SUFFICES ASSUME IInv, NEW i \in insts
               PROVE  i \in OnReadyList \cup executing \cup instsToReplay \cup nonSpecInsts
                           \cup WaitForRegs \cup Dependents
    BY DEF NoneLost
  <2>1. i \in Seqs
    BY MemDepAssumption DEF IInv, Types1, Seqs
  <2> QED BY <2>1, DependentsAre, Zenon DEF IInv, Somewhere, OnReadyList, WaitForRegs
<1> QED BY <1>1, Invariance, PTL

\* moveToReady() never makes an instruction ready that is ready already, executes, is to be
\* replayed or still waits for a register or for memory.
THEOREM NothingTwice == Spec => []ReadyOnce
<1>1. IInv => ReadyOnce
  <2> SUFFICES ASSUME IInv PROVE ReadyOnce
    OBVIOUS
  <2>1. \A i \in insts : ready[i] <= 1
    BY DEF IInv, Once
  <2>2. /\ OnReadyList \cap (executing \cup instsToReplay) = {} /\ executing \cap instsToReplay = {}
        /\ nonSpecInsts \cap (OnReadyList \cup executing \cup instsToReplay) = {}
    BY Zenon DEF IInv, InUnit, Once, OnReadyList
  <2>3. ASSUME NEW i \in OnReadyList \cup executing \cup instsToReplay \cup nonSpecInsts
        PROVE  i \notin WaitForRegs \cup Dependents
    BY DependentsAre, Zenon DEF IInv, InUnit, Bits, OnReadyList, WaitForRegs
  <2> QED BY <2>1, <2>2, <2>3, Zenon DEF ReadyOnce
<1> QED BY <1>1, Invariance, PTL

\* No list names an instruction that has completed or was squashed.
THEOREM NothingStale == Spec => []ListedInUnit
<1>1. IInv => ListedInUnit
  BY DEF IInv, InUnit, ListedInUnit, OnReadyList
<1> QED BY <1>1, Invariance, PTL
-----------------------------------------------------------------------------
(***************************************************************************)
(* The barriers and the predictor.                                         *)
(***************************************************************************)
\* Barriers that stores wait for.
StoreBarriers == {"memBarrier", "writeBarrier"}
\* A barrier in effect is a barrier of the unit, and the youngest one.
BarrierInv ==
    /\ loadBarrier => /\ loadBarrierSN \in insts /\ inst[loadBarrierSN].kind = "memBarrier"
                      /\ \A i \in insts : inst[i].kind = "memBarrier" => i <= loadBarrierSN
    /\ storeBarrier => /\ storeBarrierSN \in insts /\ inst[storeBarrierSN].kind \in StoreBarriers
                       /\ \A i \in insts : inst[i].kind \in StoreBarriers => i <= storeBarrierSN

\* An instruction has a kind and an address.
LEMMA TypesOf == \A t \in Types : t.kind \in Kinds /\ t.pc \in Nat
<1> SUFFICES ASSUME NEW t \in Types PROVE t.kind \in Kinds /\ t.pc \in Nat
  OBVIOUS
<1>1. t.kind \in Kinds /\ t.pc \in 0..1023
  BY SMTT(60) DEF Types
<1> QED BY <1>1, SMTT(60)

\* Every step preserves BarrierInv: completed() and squash() end the barrier they remove.
LEMMA BarrierNext == IInv /\ BarrierInv /\ [Next]_vars => BarrierInv'
<1> SUFFICES ASSUME IInv, BarrierInv, [Next]_vars PROVE BarrierInv'
  OBVIOUS
<1> USE DEF BarrierInv, StoreBarriers
<1>1. ASSUME NEW regs \in BOOLEAN, NEW r \in BOOLEAN, Insert(regs, r) PROVE BarrierInv'
  <2>1. PICK i \in Nat : i = tail + 1
    BY MemDepAssumption DEF IInv, Types1
  <2>2. insts' = insts \cup {i} /\ inst' = inst /\ i \in Seqs /\ \A j \in insts : j \in Nat /\ j < i
    BY <1>1, <2>1, MemDepAssumption, SMTT(60) DEF Insert, IInv, Types1, Seqs
  <2>3. CASE inst[i].kind \in {"load", "store"} /\ UNCHANGED barriers
    BY <2>2, <2>3, Zenon DEF barriers
  <2>4. CASE inst[i].kind \notin {"load", "store"} /\ InsertBarrier(i, inst[i])
    <3>1. inst[i].kind \in StoreBarriers
      BY <2>2, <2>4, TypesOf, Zenon DEF IInv, Types1, Kinds
    <3>2. storeBarrierSN' = i /\ \A j \in insts' : j <= i
      BY <2>2, <2>4, SMTT(60) DEF InsertBarrier
    <3>3. CASE inst[i].kind = "memBarrier"
      <4>1. loadBarrierSN' = i
        BY <2>4, <3>3, Zenon DEF InsertBarrier
      <4> QED BY <2>2, <3>2, <3>3, <4>1, Zenon
    <3>4. CASE inst[i].kind # "memBarrier"
      <4>1. loadBarrierSN' = loadBarrierSN /\ (loadBarrier' => loadBarrier)
        BY <2>4, <3>4, Zenon DEF InsertBarrier
      <4> QED BY <2>2, <3>1, <3>2, <3>4, <4>1, Zenon
    <3> QED BY <3>3, <3>4, Zenon
  <2> QED BY <1>1, <2>1, <2>3, <2>4, Zenon DEF Insert, InsertMemRef, InsertNonSpec
<1>2. ASSUME NEW i \in insts, Complete(i) PROVE BarrierInv'
  BY <1>2, Zenon DEF Complete, IsBarrier, rob
<1>3. ASSUME NEW num \in committed..(tail - 1), Squash(num) PROVE BarrierInv'
  BY <1>3, Zenon DEF Squash, Stands
<1>4. CASE UNCHANGED <<inst, insts, barriers>>
  BY <1>4, Zenon DEF barriers
<1> QED
  BY <1>1, <1>2, <1>3, <1>4, Zenon
     DEF Next, Advance, vars, RegsReady, ScheduleNonSpec, Issue, Retry, Reschedule, Replay,
         Commit, Unrestrict, Violation, rob, places

\* The tables hold sets, and a store in storeList has come, and is not younger than the
\* last store of its set.
PredictorInv ==
    /\ SSIT \in [Indexes -> SSIDs \cup {NoSet}] /\ LFST \in [SSIDs -> Nat]
    /\ storeList \in [Seqs -> SSIDs \cup {NoSet}]
    /\ \A i \in Seqs : storeList[i] # NoSet => i <= tail /\ LFST[storeList[i]] >= i

\* An address has an entry in the SSIT, and a set.
LEMMA CalcTypes == \A pc \in Nat : CalcIndex(pc) \in Indexes /\ CalcSSID(pc) \in SSIDs
BY MemDepAssumption DEF CalcIndex, CalcSSID, Indexes, SSIDs

\* violation() leaves sets in the SSIT.
LEMMA JoinedType ==
    ASSUME NEW table \in [Indexes -> SSIDs \cup {NoSet}], NEW s \in Nat, NEW l \in Nat
    PROVE  Joined(table, s, l) \in [Indexes -> SSIDs \cup {NoSet}]
<1>1. CalcIndex(s) \in Indexes /\ CalcIndex(l) \in Indexes /\ CalcSSID(l) \in SSIDs
  BY CalcTypes, Zenon
<1> QED BY <1>1, Zenon DEF Joined

\* insertStore() of the next instruction preserves the order of the stores of a set.
LEMMA InsertStoreKeeps ==
    ASSUME IInv, PredictorInv, NEW pc \in Nat, NEW i \in Seqs, i = tail + 1, tail' = i,
           InsertStore(i, pc)
    PROVE  PredictorInv'
<1> USE DEF PredictorInv
<1>0. i \in Nat /\ tail \in Nat
  BY MemDepAssumption DEF IInv, Types1, Seqs
<1>1. CASE ClearDue
  BY <1>0, <1>1, Zenon DEF InsertStore, Clear, NoSet, Seqs
<1>2. CASE ~ClearDue /\ SSIT[CalcIndex(pc)] = NoSet
  BY <1>0, <1>2 DEF InsertStore, Seqs
<1>3. CASE ~ClearDue /\ SSIT[CalcIndex(pc)] # NoSet
  <2>1. SSIT[CalcIndex(pc)] \in SSIDs
    BY <1>3, CalcTypes, Zenon
  <2>2. PICK set \in SSIDs : set = SSIT[CalcIndex(pc)]
    BY <2>1, Zenon
  <2>3. /\ LFST' = [LFST EXCEPT ![set] = i] /\ storeList' = [storeList EXCEPT ![i] = set]
        /\ SSIT' = SSIT
    BY <1>3, <2>2, Zenon DEF InsertStore
  <2>4. ASSUME NEW j \in Seqs, storeList'[j] # NoSet
        PROVE  j <= tail' /\ LFST'[storeList'[j]] >= j
    <3>1. CASE j = i
      BY <3>1, <2>3, <1>0
    <3>2. CASE j # i
      BY <3>2, <2>3, <2>4, <1>0 DEF Seqs
    <3> QED BY <3>1, <3>2, Zenon
  <2> QED BY <2>3, <2>4, <1>0, Zenon
<1> QED BY <1>1, <1>2, <1>3, Zenon

\* Every step preserves PredictorInv, clear() and violation() included.
LEMMA PredictorNext == IInv /\ PredictorInv /\ [Next]_vars => PredictorInv'
<1> SUFFICES ASSUME IInv, PredictorInv, [Next]_vars PROVE PredictorInv'
  OBVIOUS
<1>0. \A i \in Seqs : inst[i].pc \in Nat
  BY TypesOf, Zenon DEF IInv, Types1
<1>a. ASSUME UNCHANGED predictor, tail' = tail \/ tail' = tail + 1  PROVE PredictorInv'
  BY <1>a, MemDepAssumption DEF predictor, PredictorInv, IInv, Types1, Seqs
<1>1. ASSUME NEW regs \in BOOLEAN, NEW r \in BOOLEAN, Insert(regs, r) PROVE PredictorInv'
  <2>1. PICK i \in Seqs : i = tail + 1
    BY <1>1, MemDepAssumption DEF Insert, IInv, Types1, Seqs
  <2>2. tail' = i /\ (InsertStore(i, inst[i].pc) \/ UNCHANGED predictor)
    BY <1>1, <2>1, Zenon DEF Insert, InsertMemRef, InsertNonSpec, InsertBarrier
  <2> QED BY <2>1, <2>2, <1>0, <1>a, InsertStoreKeeps, Zenon
<1>2. ASSUME NEW i \in insts, Issue(i) PROVE PredictorInv'
  <2>1. i \in Seqs /\ tail' = tail
    BY <1>2, MemDepAssumption DEF Issue, rob, IInv, Types1, Seqs
  <2>2. CASE IssuedStore(i)
    BY <2>1, <2>2, Zenon DEF IssuedStore, PredictorInv
  <2> QED BY <1>2, <2>1, <2>2, <1>a, Zenon DEF Issue
<1>3. ASSUME NEW s \in 1..tail, NEW l \in InROB, Violation(s, l) PROVE PredictorInv'
  <2>1. s \in Seqs /\ l \in Seqs
    BY MemDepAssumption DEF InROB, IInv, Types1, Seqs
  <2> QED BY <1>0, <1>3, <2>1, JoinedType, Zenon DEF Violation, PredictorInv, rob
<1>4. ASSUME NEW num \in committed..(tail - 1), Squash(num) PROVE PredictorInv'
  BY <1>4, Zenon DEF Squash, SquashStores, PredictorInv
<1>5. CASE UNCHANGED <<tail, predictor>>
  BY <1>5, <1>a
<1> QED
  BY <1>1, <1>2, <1>3, <1>4, <1>5, Zenon
     DEF Next, Advance, vars, RegsReady, ScheduleNonSpec, Retry, Reschedule, Replay, Complete,
         Commit, Unrestrict, rob, places

\* Both hold at first, with tables that violations have trained before.
LEMMA PredictorInit == Init => PredictorInv /\ BarrierInv
<1> SUFFICES ASSUME Init PROVE PredictorInv /\ BarrierInv
  OBVIOUS
<1>1. Cold \in [Indexes -> SSIDs \cup {NoSet}]
  BY DEF Cold
<1>2. \A i \in Seqs : inst[i].pc \in Nat
  BY MemDepAssumption, TypesOf, Zenon DEF Init
<1>3. ASSUME NEW table \in [Indexes -> SSIDs \cup {NoSet}]
      PROVE  \A t \in TrainedOnce(inst, table) : t \in [Indexes -> SSIDs \cup {NoSet}]
  BY <1>2, JoinedType DEF TrainedOnce
<1>4. SSIT \in [Indexes -> SSIDs \cup {NoSet}]
  BY <1>1, <1>3, Zenon DEF Init, Trained
<1> QED BY <1>4, Zenon DEF Init, PredictorInv, BarrierInv

\* A barrier in effect is the youngest one of its kind in the unit, whichever barriers
\* completed and were squashed.
THEOREM BarrierIsYoungest == Spec => []YoungestBarrier
<1>1. BarrierInv => YoungestBarrier
  BY Zenon DEF BarrierInv, YoungestBarrier, StoreBarriers
<1> QED BY <1>1, Invariance, PredictorInit, BarrierNext, PTL DEF Spec

\* The loop of StoreSet::squash() ends, however the tables were changed meanwhile.
THEOREM StoreSetSquashEnds == Spec => []SquashEnds
<1>1. PredictorInv => SquashEnds
  BY Zenon DEF PredictorInv, SquashEnds
<1> QED BY <1>1, Invariance, PredictorInit, PredictorNext, PTL DEF Spec

(***************************************************************************)
(* The types.                                                              *)
(***************************************************************************)
\* What TypeOK says of the variables the arguments above are not about.
Types2 ==
    /\ inst \in Programs /\ retries \in 0..MaxRetries /\ restricted \subseteq 1..tail
    /\ loadBarrier \in BOOLEAN /\ storeBarrier \in BOOLEAN
    /\ loadBarrierSN \in 0..tail /\ storeBarrierSN \in 0..tail
TypesLFST ==
    /\ LFST \in [SSIDs -> 0..tail] /\ validLFST \subseteq SSIDs /\ memOpsPred \in 0..ClearPeriod

\* The ROB, the restrictions and the barriers keep their types in every step.
LEMMA Types2Next == IInv /\ Types2 /\ [Next]_vars => Types2'
<1> SUFFICES ASSUME IInv, Types2, [Next]_vars PROVE Types2'
  OBVIOUS
<1>0. /\ tail \in Nat /\ N \in Nat /\ MaxRetries \in Nat /\ insts \subseteq 1..tail
      /\ InROB \subseteq 1..tail
  BY MemDepAssumption DEF IInv, Types1, InROB
<1>1. ASSUME NEW regs \in BOOLEAN, NEW r \in BOOLEAN, Insert(regs, r) PROVE Types2'
  <2>1. tail' = tail + 1 /\ inst' = inst /\ retries' = retries /\ restricted' \subseteq 1..tail'
    <3>1. /\ tail' = tail + 1 /\ inst' = inst /\ retries' = retries
          /\ restricted' = IF r THEN restricted \cup {tail + 1} ELSE restricted
      BY <1>1, Zenon DEF Insert
    <3>2. restricted \subseteq 1..tail
      BY Zenon DEF Types2
    <3> QED BY <1>0, <3>1, <3>2
  <2>2. CASE UNCHANGED barriers
    BY <1>0, <2>1, <2>2 DEF barriers, Types2
  <2>3. CASE InsertBarrier(tail + 1, inst[tail + 1])
    BY <1>0, <2>1, <2>3 DEF InsertBarrier, Types2
  <2> QED BY <1>1, <2>2, <2>3, Zenon DEF Insert, InsertMemRef, InsertNonSpec
<1>2. ASSUME NEW i \in insts, NEW r \in BOOLEAN, RegsReady(i, r) PROVE Types2'
  BY <1>0, <1>2, Zenon DEF RegsReady, rob, barriers, Types2
<1>3. ASSUME NEW i \in insts, Retry(i) \/ Reschedule(i) PROVE Types2'
  <2>1. retries < MaxRetries /\ retries' = retries + 1
    BY <1>3, Zenon DEF Retry, Reschedule
  <2>2. retries' \in 0..MaxRetries
    BY <1>0, <2>1 DEF Types2
  <2>3. UNCHANGED <<rob, restricted, barriers>>
    BY <1>3, Zenon DEF Retry, Reschedule
  <2> QED BY <2>2, <2>3, Zenon DEF rob, barriers, Types2
<1>4. ASSUME NEW i \in insts, Complete(i) PROVE Types2'
  BY <1>4, Zenon DEF Complete, rob, Types2
<1>5. ASSUME NEW i \in InROB, Unrestrict(i) PROVE Types2'
  BY <1>5, Zenon DEF Unrestrict, rob, barriers, Types2
<1>6. ASSUME NEW num \in committed..(tail - 1), Squash(num) PROVE Types2'
  BY <1>6, Zenon DEF Squash, Stands, Types2
<1>7. CASE UNCHANGED <<inst, tail, restricted, retries, barriers>>
  BY <1>7, Zenon DEF barriers, Types2
<1> QED
  BY <1>1, <1>2, <1>3, <1>4, <1>5, <1>6, <1>7, Zenon
     DEF Next, Advance, vars, rob, ScheduleNonSpec, Issue, Replay, Commit, Violation

\* So do the last stores of the sets, clear() and insertStore() included.
LEMMA TypesLFSTNext == IInv /\ PredictorInv /\ TypesLFST /\ [Next]_vars => TypesLFST'
<1> SUFFICES ASSUME IInv, PredictorInv, TypesLFST, [Next]_vars PROVE TypesLFST'
  OBVIOUS
<1>0. tail \in Nat /\ N \in Nat /\ ClearPeriod \in Nat /\ \A i \in Seqs : inst[i].pc \in Nat
  BY MemDepAssumption, TypesOf DEF IInv, Types1
<1>a. ASSUME UNCHANGED predictor, tail' = tail \/ tail' = tail + 1 PROVE TypesLFST'
  BY <1>0, <1>a, SMTT(60) DEF predictor, TypesLFST
<1>1. ASSUME NEW regs \in BOOLEAN, NEW r \in BOOLEAN, Insert(regs, r) PROVE TypesLFST'
  <2>1. PICK i \in Seqs : i = tail + 1
    BY <1>0, <1>1, SMTT(60) DEF Insert, Seqs
  <2>2. tail' = i /\ (InsertStore(i, inst[i].pc) \/ UNCHANGED predictor)
    BY <1>1, <2>1, Zenon DEF Insert, InsertMemRef, InsertNonSpec, InsertBarrier
  <2>3. CASE InsertStore(i, inst[i].pc) /\ ClearDue
    BY <1>0, <2>1, <2>2, <2>3, SMTT(60) DEF InsertStore, Clear, TypesLFST
  <2>4. CASE InsertStore(i, inst[i].pc) /\ ~ClearDue
    <3>1. PICK set \in SSIDs \cup {NoSet} : set = SSIT[CalcIndex(inst[i].pc)]
      BY <1>0, CalcTypes, Zenon DEF PredictorInv
    <3>2. memOpsPred' \in 0..ClearPeriod
      BY <1>0, <2>4, SMTT(60) DEF InsertStore, ClearDue, TypesLFST
    <3>3. CASE set = NoSet
      BY <1>0, <2>1, <2>2, <2>4, <3>1, <3>2, <3>3, SMTT(60) DEF InsertStore, TypesLFST
    <3>4. CASE set # NoSet
      BY <1>0, <2>1, <2>2, <2>4, <3>1, <3>2, <3>4, SMTT(60) DEF InsertStore, TypesLFST
    <3> QED BY <3>3, <3>4, Zenon
  <2> QED BY <1>a, <2>1, <2>2, <2>3, <2>4, Zenon
<1>2. ASSUME NEW i \in insts, Issue(i) PROVE TypesLFST'
  BY <1>2, <1>a, Zenon DEF Issue, IssuedStore, rob, TypesLFST
<1>3. ASSUME NEW s \in 1..tail, NEW l \in InROB, Violation(s, l) PROVE TypesLFST'
  BY <1>3, Zenon DEF Violation, rob, TypesLFST
<1>4. ASSUME NEW num \in committed..(tail - 1), Squash(num) PROVE TypesLFST'
  BY <1>4, Zenon DEF Squash, SquashStores, TypesLFST
<1>5. CASE UNCHANGED <<tail, predictor>>
  BY <1>5, <1>a
<1> QED
  BY <1>1, <1>2, <1>3, <1>4, <1>5, Zenon
     DEF Next, Advance, vars, RegsReady, ScheduleNonSpec, Retry, Reschedule, Replay, Complete,
         Commit, Unrestrict, rob, places

\* The state of the unit and of the predictor is well formed.
THEOREM TypeCorrect == Spec => []TypeOK
<1>1. Init => Types2 /\ TypesLFST
  <2> SUFFICES ASSUME Init PROVE Types2 /\ TypesLFST
    OBVIOUS
  <2>1. 0 \in 0..MaxRetries /\ 0 \in 0..ClearPeriod /\ 0 \in 0..tail
    BY MemDepAssumption DEF Init
  <2>2. Types2
    BY <2>1, Zenon DEF Init, Types2
  <2>3. TypesLFST
    BY <2>1, Zenon DEF Init, TypesLFST
  <2> QED BY <2>2, <2>3
<1>2. IInv /\ PredictorInv /\ Types2 /\ TypesLFST => TypeOK
  BY Zenon DEF IInv, Types1, InUnit, PredictorInv, Types2, TypesLFST, TypeOK
<1> QED
  BY <1>1, <1>2, Invariance, PredictorInit, PredictorNext, Types2Next, TypesLFSTNext, PTL DEF Spec
=============================================================================
