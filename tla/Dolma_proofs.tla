---------------------------- MODULE Dolma_proofs ----------------------------
(***************************************************************************)
(* Proofs about Dolma for every number of instructions, every program and  *)
(* every configuration.                                                    *)
(***************************************************************************)
EXTENDS Dolma, OldestYoungest, TLAPS

-----------------------------------------------------------------------------
(***************************************************************************)
(* Minimum and maximum of bounded sets of numbers.                         *)
(***************************************************************************)

\* MaxOr0 of a set of instruction numbers is 0 or in the set, and bounds it.
LEMMA MaxOr0Property ==
    ASSUME NEW S \in SUBSET (0..N)
    PROVE  MaxOr0(S) \in S \cup {0} /\ \A y \in S : y <= MaxOr0(S)
<1>1. N \in Nat /\ S \cup {0} \in SUBSET (0..N) /\ S \cup {0} # {}
  BY NAssumption
<1> QED BY <1>1, MaxProperty, Zenon DEF MaxOr0

-----------------------------------------------------------------------------
(***************************************************************************)
(* Types of the operators.                                                 *)
(***************************************************************************)

\* An inherited youngest data inducer is an instruction, or 0.
LEMMA InheritedYdiType ==
    ASSUME TypeOK, NEW S \in SUBSET Insts
    PROVE  InheritedYdi(S) \in 0..N
<1> DEFINE T == {IF s \in dataInd THEN s ELSE ydi[s] : s \in S \cap (dataInd \cup dataRes)}
<1>1. T \in SUBSET (0..N)
  <2>1. \A s \in S : s \in 0..N /\ ydi[s] \in 0..N
    BY NAssumption DEF TypeOK, Insts
  <2> QED BY <2>1
<1>2. InheritedYdi(S) = MaxOr0(T)
  BY DEF InheritedYdi
<1>3. 0 \in 0..N
  BY NAssumption
<1> HIDE DEF T
<1> QED BY <1>1, <1>2, <1>3, MaxOr0Property, Zenon

\* The store a load reads from is an older instruction, or 0.
LEMMA SourceType ==
    ASSUME NEW i \in Insts
    PROVE  Source(i) \in 0..N
<1>1. Covering(i) \in SUBSET (0..N)
  BY NAssumption DEF Covering, Insts
<1>2. 0 \in 0..N
  BY NAssumption
<1> QED BY <1>1, <1>2, MaxOr0Property DEF Source

\* A violator is a load of the LSQ, or 0.
LEMMA ViolatorType ==
    ASSUME NEW i \in Insts
    PROVE  /\ Violator(i) \in 0..N
           /\ Violator(i) # 0 => Violator(i) \in InLSQ /\ IsLoad(Violator(i))
<1> DEFINE L == {l \in InLSQ : /\ l > i /\ IsLoad(l) /\ l \in effValid
                               /\ l \notin stalled /\ Block(l) = Block(i)}
<1>1. L \in SUBSET Nat /\ L \subseteq Insts
  BY NAssumption DEF InLSQ, Live, Insts
<1>2. CASE L = {}
  BY <1>2, NAssumption DEF Violator
<1>3. CASE L # {}
  <2>1. Violator(i) = Min(L)
    BY <1>3 DEF Violator
  <2> HIDE DEF L
  <2>2. Min(L) \in L
    BY <1>1, <1>3, MinProperty
  <2>3. Min(L) \in InLSQ /\ IsLoad(Min(L))
    BY <2>2 DEF L
  <2>4. Min(L) \in Insts
    BY <1>1, <2>2, Zenon
  <2>5. Insts \subseteq 0..N
    BY NAssumption DEF Insts
  <2> QED BY <2>1, <2>3, <2>4, <2>5, Zenon
<1> QED BY <1>2, <1>3

\* The redirect that commit finds resolved is one of them, or 0.
LEMMA SquasherType ==
    /\ Squasher \in 0..N
    /\ Squasher # 0 => Squasher \in ResolvedRedirects /\ Squasher \in Insts
<1>1. ResolvedRedirects \in SUBSET Nat /\ ResolvedRedirects \subseteq Insts
  BY NAssumption DEF ResolvedRedirects, InROB, Insts
<1>2. ResolvedRedirects # {} => Min(ResolvedRedirects) \in ResolvedRedirects
  BY <1>1, MinProperty
<1>3. Insts \subseteq 0..N /\ 0 \in 0..N
  BY NAssumption DEF Insts
<1>4. CASE ResolvedRedirects = {}
  BY <1>3, <1>4 DEF Squasher
<1>5. CASE ResolvedRedirects # {}
  <2>1. Squasher = Min(ResolvedRedirects)
    BY <1>5 DEF Squasher
  <2> QED BY <1>1, <1>2, <1>3, <1>5, <2>1, Zenon
<1> QED BY <1>4, <1>5

\* The head is the oldest entry of the ROB.
LEMMA HeadType ==
    ASSUME InROB # {}
    PROVE  Head \in InROB /\ Head \in Insts
<1>1. InROB \in SUBSET Nat /\ InROB \subseteq Insts
  BY NAssumption DEF InROB, Insts
<1> QED BY <1>1, MinProperty, Zenon DEF Head

\* The squash iterator is an entry that is still to be squashed, or 0, and no
\* such entry is younger.
LEMMA NextItType ==
    ASSUME NEW num, NEW it
    PROVE  /\ NextIt(num, it) \in 0..N
           /\ \A j \in Squashable(num, it) \ Marked(num, it) : j <= NextIt(num, it)
<1>1. Squashable(num, it) \ Marked(num, it) \in SUBSET (0..N)
  BY NAssumption DEF Squashable, InROB, Insts
<1>2. 0 \in 0..N
  BY NAssumption
<1> QED BY <1>1, <1>2, MaxOr0Property DEF NextIt

\* updateSafeStatus() keeps the types.
LEMMA UpdateSafeStatusType ==
    ASSUME TypeOK, NEW di \in SUBSET Insts, UpdateSafeStatus(di)
    PROVE  /\ dataInd' \subseteq di /\ ctlRes' \subseteq ctlRes /\ dataRes' \subseteq dataRes
           /\ stalled' \subseteq stalled /\ pendMO \subseteq pendMO'
           /\ \A v \in pendMO' \ pendMO : v # 0 /\ \E s \in Insts : v = violator[s]
           /\ canCommit' \subseteq canCommit \ (pendMO' \ pendMO)
           /\ collider' \in [Insts -> 0..N]
<1>1. PICK kept \in SUBSET di :
        /\ dataInd' = kept
        /\ ctlRes' = CtlResKept
        /\ dataRes' = DataResKept(kept)
        /\ stalled' = stalled \ Freed(kept)
        /\ pendMO' = pendMO \cup Violators(kept)
        /\ canCommit' = canCommit \ Violators(kept)
        /\ collider' = [v \in Insts |->
              LET C == {s \in FreedColliders(kept) : violator[s] = v}
                          \cup ({collider[v]} \ {0})
              IN  IF C = {} THEN 0 ELSE Min(C)]
  BY Zenon DEF UpdateSafeStatus
<1>2. FreedColliders(kept) \subseteq Insts
  BY DEF FreedColliders, Freed, InROB
<1>3. collider' \in [Insts -> 0..N]
  <2>1. ASSUME NEW v \in Insts PROVE collider'[v] \in 0..N
    <3> DEFINE C == {s \in FreedColliders(kept) : violator[s] = v} \cup ({collider[v]} \ {0})
    <3>1. collider'[v] = IF C = {} THEN 0 ELSE Min(C)
      BY <1>1
    <3>2. C \subseteq 0..N
      <4>1. Insts \subseteq 0..N
        BY NAssumption DEF Insts
      <4> QED BY <1>2, <4>1, ZenonT(60) DEF TypeOK
    <3> HIDE DEF C
    <3>3. C # {} => Min(C) \in C
      <4>1. C \in SUBSET Nat
        BY <3>2, NAssumption
      <4> QED BY <4>1, MinProperty
    <3>4. 0 \in 0..N
      BY NAssumption
    <3> QED BY <3>1, <3>2, <3>3, <3>4, Zenon
  <2>2. collider' = [v \in Insts |-> collider'[v]]
    BY <1>1
  <2> QED BY <2>1, <2>2
<1>4. \A v \in Violators(kept) : v # 0 /\ \E s \in Insts : v = violator[s]
  BY <1>2 DEF Violators, FreedColliders
<1>5. CtlResKept \subseteq ctlRes /\ DataResKept(kept) \subseteq dataRes
  BY DEF CtlResKept, DataResKept
<1> QED BY <1>1, <1>3, <1>4, <1>5, Zenon

-----------------------------------------------------------------------------
(***************************************************************************)
(* Type correctness.                                                       *)
(***************************************************************************)

\* The initial state is well formed.
LEMMA TypeInit == Init => TypeOK
<1> SUFFICES ASSUME Init PROVE TypeOK
  OBVIOUS
<1>1. 0 \in 0..N /\ 0 \in Nat /\ -1 \in -1..N
  BY NAssumption
<1> QED BY <1>1, Zenon DEF Init, TypeOK, Stages, Phases, NoSignal

\* Every step keeps the state well formed.
LEMMA TypeStep == TypeOK /\ [Next]_vars => TypeOK'
<1> SUFFICES ASSUME TypeOK, [Next]_vars PROVE TypeOK'
  OBVIOUS
<1>0. /\ Insts \subseteq Nat /\ Insts \subseteq 0..N /\ 0 \in 0..N /\ 0 \in Nat
      /\ 0..N \subseteq -1..N /\ -1 \in -1..N
      /\ \A i \in Insts : i - 1 \in 0..N
      /\ \A x \in 0..N : x # 0 => x \in Insts
  BY NAssumption DEF Insts
<1> USE DEF TypeOK, Stages, Phases, Goto
<1>1. ASSUME NEW i \in Insts, Rename(i) \/ Dispatch(i) PROVE TypeOK'
  <2>1. /\ dataRes' \subseteq Insts /\ ydi' \in [Insts -> 0..N]
        /\ stage' \in [Insts -> Stages]
    <3>1. TaintFromReady(i) /\ stage' \in [Insts -> Stages]
      BY <1>1, Zenon DEF Rename, Dispatch
    <3> DEFINE S == {s \in prog[i].srcs : Ready(s)}
    <3>2. InheritedYdi(S) \in 0..N
      <4>1. S \in SUBSET Insts
        <5>1. prog[i] \in InstTypes
          BY ProgramAssumption
        <5> QED BY <5>1, Zenon DEF InstTypes
      <4> QED BY <4>1, InheritedYdiType, Zenon
    <3>3. Max({ydi[i], InheritedYdi(S)}) \in 0..N
      <4>1. ydi[i] \in 0..N
        OBVIOUS
      <4>2. {ydi[i], InheritedYdi(S)} \in SUBSET (0..N)
        BY <3>2, <4>1, Zenon
      <4> HIDE DEF S
      <4> QED BY <4>2, NAssumption, MaxProperty, Zenon
    <3>4. ydi' = [ydi EXCEPT ![i] = Max({ydi[i], InheritedYdi(S)})]
      BY <3>1, Zenon DEF TaintFromReady
    <3>5. dataRes' \subseteq dataRes \cup {i}
      BY <3>1, Zenon DEF TaintFromReady
    <3> QED BY <3>1, <3>3, <3>4, <3>5, Zenon
  <2>2. CASE Rename(i)
    BY <1>0, <2>1, <2>2 DEF Rename, fixed, buffers, robState
  <2>3. CASE Dispatch(i)
    BY <1>0, <2>1, <2>3, Zenon DEF Dispatch, fixed, buffers, robState, history
  <2> QED BY <1>1, <2>2, <2>3, Zenon
<1>3. ASSUME NEW i \in Insts, ExecuteSquashed(i) PROVE TypeOK'
  BY <1>0, <1>3, Zenon DEF ExecuteSquashed, NextToExecute, fixed, links, buffers, robState, history
<1>4. ASSUME NEW i \in Insts, ExecuteInst(i) PROVE TypeOK'
  BY <1>0, <1>4, ZenonT(60) DEF ExecuteInst, NextToExecute, fixed, links, robState, history
<1>5. ASSUME NEW i \in Insts, ExecuteTLBMiss(i) PROVE TypeOK'
  BY <1>0, <1>5, Zenon DEF ExecuteTLBMiss, NextToExecute, Stall, fixed, links, buffers, robState, history
<1>6. ASSUME NEW i \in Insts, ExecuteLoad(i) PROVE TypeOK'
  BY <1>0, <1>6, SourceType, Zenon
  DEF ExecuteLoad, NextToExecute, fixed, links, buffers, robState
<1>7. ASSUME NEW i \in Insts, ExecuteLoadMiss(i) PROVE TypeOK'
  BY <1>0, <1>7, Zenon DEF ExecuteLoadMiss, NextToExecute, Stall, fixed, links, buffers, robState, history
<1>8. ASSUME NEW i \in Insts, ExecuteLoadBlocked(i) PROVE TypeOK'
  BY <1>0, <1>8, Zenon DEF ExecuteLoadBlocked, NextToExecute, fixed, links, buffers, robState, history
<1>9. ASSUME NEW i \in Insts, ExecuteStore(i) PROVE TypeOK'
  <2> DEFINE v == Violator(i)
  <2>1. v \in 0..N /\ (v # 0 => v \in Insts)
    BY <1>0, ViolatorType, Zenon
  <2>2. /\ violSeq' \in [Insts -> 0..N] /\ violator' \in [Insts -> 0..N]
        /\ collider' \in [Insts -> 0..N]
        /\ toCommit' \in [squash: 0..N, include: BOOLEAN, insts: SUBSET Insts]
        /\ pendMO' \subseteq Insts /\ canCommit' \subseteq Insts
    <3>1. violSeq' = violSeq \/ violSeq' = [violSeq EXCEPT ![i] = v]
      BY <1>9, Zenon DEF ExecuteStore
    <3>2. \/ UNCHANGED <<toCommit, pendMO, canCommit, violator, collider>>
          \/ v # 0 /\ SquashDueToMemOrder(i, v)
      BY <1>9, Zenon DEF ExecuteStore
    <3> HIDE DEF v
    <3>3. CASE UNCHANGED <<toCommit, pendMO, canCommit, violator, collider>>
      BY <2>1, <3>1, <3>3
    <3>4. CASE v # 0 /\ SquashDueToMemOrder(i, v)
      <4>1. toCommit' = [toCommit EXCEPT !.squash = v, !.include = TRUE]
        BY <3>4, Zenon DEF SquashDueToMemOrder
      <4>2. pendMO' \subseteq pendMO \cup {v} /\ canCommit' \subseteq canCommit
        BY <3>4, Zenon DEF SquashDueToMemOrder
      <4>3. violator' = violator \/ violator' = [violator EXCEPT ![i] = v]
        BY <3>4, Zenon DEF SquashDueToMemOrder
      <4>4. collider' = collider \/ collider' = [collider EXCEPT ![v] = i]
        BY <3>4, Zenon DEF SquashDueToMemOrder
      <4>5. v \in Insts /\ v \in 0..N /\ i \in 0..N
        BY <1>0, <2>1, <3>4, Zenon
      <4>6. violSeq' \in [Insts -> 0..N] /\ violator' \in [Insts -> 0..N]
        BY <3>1, <4>3, <4>5
      <4>7. collider' \in [Insts -> 0..N]
        BY <4>4, <4>5
      <4>8. toCommit' \in [squash: 0..N, include: BOOLEAN, insts: SUBSET Insts]
        BY <4>1, <4>5, Zenon
      <4> QED BY <4>2, <4>5, <4>6, <4>7, <4>8, Zenon
    <3> QED BY <3>2, <3>3, <3>4, Zenon
  <2> HIDE DEF v
  <2>3. /\ stage' \in [Insts -> Stages] /\ effValid' \subseteq Insts
        /\ phase' \in Phases /\ cursor' \in Nat
        /\ UNCHANGED <<fixed, squashed, ctlInd, dataInd, ctlRes, dataRes, pendBr, stalled,
                       ydi, fromIEW, toIEW, robState, history>>
    BY <1>0, <1>9, Zenon DEF ExecuteStore, NextToExecute
  <2> QED BY <2>2, <2>3, Zenon DEF fixed, robState, history
<1>10. ASSUME NEW i \in Insts, Writeback(i) PROVE TypeOK'
  <2>1. ydi' \in [Insts -> 0..N]
    <3> DEFINE y == IF i \in dataInd' THEN i ELSE ydi[i]
    <3>1. y \in 0..N
      BY <1>0, Zenon
    <3>2. PICK D : ydi' = [d \in Insts |-> IF d \in D THEN Max({ydi[d], y}) ELSE ydi[d]]
      <4>1. ydi' = [d \in Insts |->
                      IF d \in {e \in Live : /\ i \in dataInd' \cup dataRes
                                             /\ stage[e] = "queued" /\ i \in prog[e].srcs}
                      THEN Max({ydi[d], y}) ELSE ydi[d]]
        BY <1>10, Zenon DEF Writeback
      <4> QED BY <4>1, Zenon
    <3> HIDE DEF y
    <3>3. \A d \in Insts : Max({ydi[d], y}) \in 0..N
      <4> TAKE d \in Insts
      <4>1. ydi[d] \in 0..N
        BY Zenon
      <4>2. {ydi[d], y} \in SUBSET (0..N)
        BY <3>1, <4>1, Zenon
      <4> QED BY <4>2, NAssumption, MaxProperty, Zenon
    <3> QED BY <3>2, <3>3, Zenon
  <2>2. /\ stage' \in [Insts -> Stages] /\ dataInd' \subseteq Insts
        /\ toCommit' \in [squash: 0..N, include: BOOLEAN, insts: SUBSET Insts]
        /\ phase' \in Phases /\ cursor' \in Nat
    BY <1>0, <1>10, Zenon DEF Writeback
  <2>3. dataRes' \subseteq Insts
    BY <1>10, Zenon DEF Writeback, Live
  <2>4. UNCHANGED <<fixed, squashed, canCommit, ctlInd, ctlRes, pendBr, pendMO, stalled, effValid,
                   collider, violSeq, violator, fromIEW, toIEW, robState, history>>
    BY <1>10, Zenon DEF Writeback
  <2> QED BY <2>1, <2>2, <2>3, <2>4, Zenon DEF fixed, robState, history
<1>11. ASSUME NEW i \in Insts, Issue(i) PROVE TypeOK'
  <2>1. /\ stage' \in [Insts -> Stages] /\ stalled' \subseteq Insts
        /\ pendBr' \subseteq Insts /\ pendMO' \subseteq Insts
        /\ phase' \in Phases /\ cursor' \in Nat
    <3>1. \/ Stall(i)
          \/ stage' = [stage EXCEPT ![i] = "issued"] /\ UNCHANGED <<stalled, pendBr, pendMO>>
      BY <1>11, Zenon DEF Issue
    <3>2. phase' \in Phases /\ cursor' \in Nat
      BY <1>0, <1>11, Zenon DEF Issue
    <3> QED BY <3>1, <3>2, Zenon DEF Stall
  <2>2. UNCHANGED <<fixed, squashed, canCommit, ctlInd, dataInd, ctlRes, dataRes, effValid,
                    links, buffers, robState, history>>
    BY <1>11, Zenon DEF Issue
  <2> QED BY <2>1, <2>2, Zenon DEF fixed, links, buffers, robState, history
<1>12. ASSUME NEW S \in SUBSET Insts, Forget(S)
       PROVE  /\ dataInd' \subseteq Insts /\ ctlRes' \subseteq Insts /\ dataRes' \subseteq Insts
              /\ stalled' \subseteq Insts /\ effValid' \subseteq Insts
              /\ ydi' \in [Insts -> 0..N] /\ collider' \in [Insts -> 0..N]
              /\ violSeq' \in [Insts -> 0..N] /\ violator' \in [Insts -> 0..N]
              /\ readFrom' \in [Insts -> 0..N]
  BY <1>0, <1>12, Zenon DEF Forget
<1>13. CASE IEWSquash
  <2>1. PICK dead \in SUBSET Insts, iq \in SUBSET Insts :
          /\ squashed' = squashed \cup dead /\ Forget(dead)
          /\ ctlInd' = ctlInd \ dead /\ pendBr' = pendBr \ dead /\ pendMO' = pendMO \ dead
          /\ canCommit' = canCommit \cup iq
    BY <1>13, Zenon DEF IEWSquash, InROB
  <2>2. /\ toIEW' = -1 /\ Goto("execute", 0)
        /\ UNCHANGED <<fixed, stage, toCommit, fromIEW, robState, wrong, redirected>>
    BY <1>13, Zenon DEF IEWSquash
  <2> QED BY <1>0, <1>12, <2>1, <2>2, Zenon DEF fixed, robState
<1>14. ASSUME NEW di \in SUBSET Insts, UpdateSafeStatus(di)
       PROVE  /\ dataInd' \subseteq Insts /\ ctlRes' \subseteq Insts /\ dataRes' \subseteq Insts
              /\ stalled' \subseteq Insts /\ pendMO' \subseteq Insts /\ canCommit' \subseteq Insts
              /\ collider' \in [Insts -> 0..N]
  <2>1. \A s \in Insts : violator[s] # 0 => violator[s] \in Insts
    BY <1>0, Zenon
  <2> QED BY <1>14, <2>1, UpdateSafeStatusType, SMTT(60)
<1>15. CASE SafeTick
  BY <1>0, <1>14, <1>15, Zenon DEF SafeTick, fixed, buffers, robState, history
<1>16. ASSUME NEW S \in SUBSET Insts, NEW q, Squash(S, q)
       PROVE  /\ squashed' \subseteq Insts /\ ctlInd' \subseteq Insts /\ pendBr' \subseteq Insts
              /\ pendMO' \subseteq Insts /\ canCommit' \subseteq Insts /\ wrong' \subseteq Insts
              /\ stage' \in [Insts -> Stages]
              /\ \E T \in SUBSET Insts : Forget(T)
  <2>1. \E T \in SUBSET Insts : Forget(T)
    BY <1>16, Zenon DEF Squash
  <2> QED BY <1>16, <2>1, Zenon DEF Squash, InROB
<1>17. \A num, it : Marked(num, it) \subseteq Insts
  BY Zenon DEF Marked, Squashable, InROB
<1>18. Ongoing \subseteq Insts
  BY <1>17, Zenon DEF Ongoing
<1>19. ASSUME NEW num \in 0..N, NEW q \in Insts, BeginSquash(num, q), Goto("retire", 0),
              UNCHANGED <<fixed, toCommit, fromIEW>>
       PROVE  TypeOK'
  <2>1. Squash(Ongoing \cup Marked(num, Max(InROB)), q)
    BY <1>19, Zenon DEF BeginSquash
  <2>2. Ongoing \cup Marked(num, Max(InROB)) \in SUBSET Insts
    BY <1>17, <1>18, Zenon
  <2>3. /\ commitStatus' = "ROBSquashing" /\ squashNum' = num /\ squashIt' \in 0..N
        /\ youngest' = num /\ toIEW' = num /\ redirected' \subseteq Insts
    BY <1>19, NextItType, Zenon DEF BeginSquash
  <2> QED BY <1>0, <1>12, <1>16, <1>19, <2>1, <2>2, <2>3, Zenon DEF fixed
<1>20. CASE CommitPendingRedirect
  <2>1. Squasher \in Insts
    BY <1>20, SquasherType, Zenon DEF CommitPendingRedirect, FireResolved
  <2>2. \E num \in 0..N : BeginSquash(num, Squasher)
    BY <1>0, <1>20, <2>1, Zenon DEF CommitPendingRedirect
  <2>3. Goto("retire", 0) /\ UNCHANGED <<fixed, toCommit, fromIEW>>
    BY <1>20, Zenon DEF CommitPendingRedirect
  <2> QED BY <1>19, <2>1, <2>2, <2>3, Zenon
<1>21. CASE CommitSignalledSquash
  <2>1. fromIEW.squash \in Insts
    BY <1>0, <1>21, Zenon DEF CommitSignalledSquash, Signalled
  <2>2. \E num \in 0..N : BeginSquash(num, fromIEW.squash)
    BY <1>0, <1>21, <2>1, Zenon DEF CommitSignalledSquash
  <2>3. Goto("retire", 0) /\ UNCHANGED <<fixed, toCommit, fromIEW>>
    BY <1>21, Zenon DEF CommitSignalledSquash
  <2> QED BY <1>19, <2>1, <2>2, <2>3, Zenon
<1>22. CASE CommitNoSquash
  <2> DEFINE q == IF Signalled THEN 0 ELSE Squasher
             new == {i \in Insts : stage[i] = "renamed"}
  <2>1. Goto("retire", 0) /\ UNCHANGED <<fixed, buffers, squashNum, redirected>>
    BY <1>22, Zenon DEF CommitNoSquash
  <2>2. CASE commitStatus = "Running" \/ squashIt = 0
    <3>1. /\ commitStatus' = "Running"
          /\ stage' = [i \in Insts |-> IF i \in new THEN "rob" ELSE stage[i]]
          /\ ctlRes' \subseteq ctlRes \cup new
          /\ ctlInd' \subseteq ctlInd \cup new
          /\ pendBr' \subseteq pendBr /\ pendMO' \subseteq pendMO
          /\ canCommit' \subseteq canCommit \cup InROB
          /\ youngest' = Max(new \cup {youngest})
          /\ UNCHANGED <<squashed, dataInd, dataRes, stalled, effValid, links, squashIt,
                         readFrom, wrong>>
      BY <1>22, <2>2, Zenon DEF CommitNoSquash
    <3>2. youngest' \in 0..N
      <4>1. new \cup {youngest} \in SUBSET (0..N)
        BY <1>0, Zenon
      <4> HIDE DEF new
      <4>2. Max(new \cup {youngest}) \in new \cup {youngest}
        BY <4>1, NAssumption, MaxProperty, Zenon
      <4> QED BY <3>1, <4>1, <4>2, Zenon
    <3>3. InROB \subseteq Insts
      BY Zenon DEF InROB
    <3> QED BY <1>0, <2>1, <3>1, <3>2, <3>3, Zenon DEF fixed, buffers, links
  <2>3. CASE ~(commitStatus = "Running" \/ squashIt = 0)
    <3>1. /\ Squash(Ongoing, q) /\ squashIt' = NextIt(squashNum, squashIt)
          /\ UNCHANGED <<commitStatus, youngest>>
      BY <1>22, <2>3, Zenon DEF CommitNoSquash
    <3>2. squashIt' \in 0..N
      BY <3>1, NextItType, Zenon
    <3> HIDE DEF q
    <3> QED BY <1>0, <1>12, <1>16, <1>18, <2>1, <3>1, <3>2, Zenon DEF fixed, buffers
  <2> QED BY <2>2, <2>3, Zenon
<1>23. CASE RetireSquashed
  BY <1>23, Zenon DEF RetireSquashed, fixed, status, links, buffers, robState, history
<1>24. CASE RetireHead
  <2>1. /\ dataInd' \subseteq Insts /\ ctlRes' \subseteq Insts /\ dataRes' \subseteq Insts
        /\ stalled' \subseteq Insts /\ pendMO' \subseteq Insts /\ canCommit' \subseteq Insts
        /\ collider' \in [Insts -> 0..N]
    <3>1. dataInd \ {Head} \in SUBSET Insts
      BY Zenon
    <3> QED BY <1>14, <1>24, <3>1, Zenon DEF RetireHead
  <2>2. /\ stage' \in [Insts -> Stages] /\ Goto("retire", cursor + 1)
        /\ UNCHANGED <<fixed, squashed, ctlInd, pendBr, effValid, ydi, violSeq, violator,
                       buffers, robState, history>>
    BY <1>24, Zenon DEF RetireHead
  <2> QED BY <1>0, <2>1, <2>2, SMTT(60) DEF fixed, buffers, robState, history
<1>25. CASE EndCommit
  BY <1>0, <1>25, Zenon DEF EndCommit, Completed, NoSignal, fixed, links, robState, history
<1>26. CASE UNCHANGED vars
  BY <1>26, Zenon DEF vars, fixed, status, links, buffers, robState, history
<1> QED
  BY <1>1, <1>3, <1>4, <1>5, <1>6, <1>7, <1>8, <1>9, <1>10, <1>11, <1>13, <1>15, <1>20, <1>21,
     <1>22, <1>23, <1>24, <1>25, <1>26, Zenon DEF Next, Execute

\* The state of the core is always well formed, for every program and
\* configuration.
THEOREM TypeCorrect == Spec => []TypeOK
<1> QED BY TypeInit, TypeStep, PTL DEF Spec

-----------------------------------------------------------------------------
(***************************************************************************)
(* The inductive invariant behind the theorems on redirects.               *)
(***************************************************************************)
Executed == {"done", "wb", "retired"}

\* An entry of the ROB younger than youngestSeqNum is squashed, or the squash
\* in progress has still to reach it.
SquashInv ==
    /\ \A i \in InROB : i > youngest =>
          i \in squashed \/ (commitStatus = "ROBSquashing" /\ i <= squashIt)
    /\ commitStatus = "ROBSquashing" => squashNum = youngest

\* What a message from IEW says of the instructions it names.
SignalInv(b) ==
    /\ \A i \in b.insts : stage[i] \in {"wb", "retired"}
    /\ b.squash # 0 => IF b.include THEN IsLoad(b.squash) ELSE stage[b.squash] \in Executed

\* An instruction with a pending redirect is neither squashed nor allowed to
\* commit; one that is allowed to commit has executed, unless it is a load
\* that a squash is about to reach.
PendInv ==
    /\ (pendBr \cup pendMO) \cap (squashed \cup canCommit) = {}
    /\ \A i \in canCommit \ squashed :
          stage[i] \in Executed \/ (IsLoad(i) /\ i > youngest /\ i \in InROB)
    /\ \A i \in pendBr : stage[i] \in Executed
    /\ \A i \in pendMO : IsLoad(i)
    /\ \A i \in Insts : violator[i] # 0 => IsLoad(violator[i]) /\ violator[i] \notin squashed
    /\ SignalInv(toCommit) /\ SignalInv(fromIEW)

\* Actions of the cycle up to issue: everything but commit.
FrontStep ==
    \/ \E i \in Insts : Rename(i) \/ Dispatch(i) \/ Execute(i) \/ Writeback(i) \/ Issue(i)
    \/ IEWSquash \/ SafeTick

\* Before commit, nothing enters or leaves the ROB and commit's own state does
\* not change.
LEMMA FrontStepROB ==
    ASSUME TypeOK, FrontStep
    PROVE  UNCHANGED robState /\ squashed \subseteq squashed' /\ InROB' = InROB
<1>1. UNCHANGED robState /\ squashed \subseteq squashed'
  BY ZenonT(60) DEF FrontStep, Rename, Dispatch, Execute, ExecuteSquashed, ExecuteInst, ExecuteTLBMiss,
         ExecuteLoad, ExecuteLoadMiss, ExecuteLoadBlocked, ExecuteStore, Writeback, Issue,
         IEWSquash, SafeTick, status
<1>2. \/ UNCHANGED stage
      \/ \E i \in Insts : stage[i] = "none" /\ stage' = [stage EXCEPT ![i] = "renamed"]
      \/ \E i \in InROB, x \in Stages \ {"none", "renamed", "retired"} :
            stage' = [stage EXCEPT ![i] = x]
  <2> USE DEF Stages, InROB
  <2>1. ASSUME NEW i \in Insts, Rename(i) \/ Dispatch(i) \/ Execute(i) \/ Writeback(i) \/ Issue(i)
        PROVE  \/ UNCHANGED stage
               \/ stage[i] = "none" /\ stage' = [stage EXCEPT ![i] = "renamed"]
               \/ /\ i \in InROB
                  /\ \E x \in Stages \ {"none", "renamed", "retired"} :
                        stage' = [stage EXCEPT ![i] = x]
    <3>1. CASE Rename(i)
      BY <3>1, Zenon DEF Rename
    <3>2. CASE Dispatch(i)
      BY <3>2, Zenon DEF Dispatch
    <3>3. CASE Execute(i)
      BY <3>3, Zenon DEF Execute, NextToExecute, Stall, ExecuteSquashed, ExecuteInst, ExecuteTLBMiss,
                  ExecuteLoad, ExecuteLoadMiss, ExecuteLoadBlocked, ExecuteStore
    <3>4. CASE Writeback(i)
      BY <3>4, Zenon DEF Writeback
    <3>5. CASE Issue(i)
      BY <3>5, Zenon DEF Issue, Stall
    <3> QED BY <2>1, <3>1, <3>2, <3>3, <3>4, <3>5, Zenon
  <2>2. CASE IEWSquash \/ SafeTick
    BY <2>2, Zenon DEF IEWSquash, SafeTick
  <2> QED BY <2>1, <2>2, Zenon DEF FrontStep
<1>3. InROB' = InROB
  <2>1. CASE UNCHANGED stage
    BY <2>1 DEF InROB
  <2>2. ASSUME NEW i \in Insts, stage[i] = "none", stage' = [stage EXCEPT ![i] = "renamed"]
        PROVE  InROB' = InROB
    BY <2>2, Zenon DEF InROB, TypeOK
  <2>3. ASSUME NEW i \in InROB, NEW x \in Stages \ {"none", "renamed", "retired"},
               stage' = [stage EXCEPT ![i] = x]
        PROVE  InROB' = InROB
    BY <2>3, Zenon DEF InROB, TypeOK
  <2> QED BY <1>2, <2>1, <2>2, <2>3, Zenon
<1> QED BY <1>1, <1>3

\* A commit without a new squash: either the ROB is not squashing and takes
\* the renamed instructions, or the squash in progress goes on; a redirect that
\* is discarded belongs to an instruction behind youngestSeqNum.
LEMMA NoSquashCases ==
    ASSUME TypeOK, CommitNoSquash
    PROVE  LET new == {i \in Insts : stage[i] = "renamed"} IN
           \E q \in 0..N :
           /\ q # 0 => q \in ResolvedRedirects /\ q > youngest
           /\ \/ /\ commitStatus = "Running" \/ squashIt = 0
                 /\ commitStatus' = "Running"
                 /\ stage' = [i \in Insts |-> IF i \in new THEN "rob" ELSE stage[i]]
                 /\ pendBr' = pendBr \ {q} /\ pendMO' = pendMO \ {q}
                 /\ canCommit' = canCommit \cup ({q} \cap InROB)
                 /\ youngest' = Max(new \cup {youngest})
                 /\ UNCHANGED <<squashed, violator>>
              \/ /\ Squash(Ongoing, q)
                 /\ commitStatus = "ROBSquashing" /\ squashIt # 0
                 /\ squashIt' = NextIt(squashNum, squashIt)
                 /\ UNCHANGED <<commitStatus, youngest, squashNum>>
<1> DEFINE q == IF Signalled THEN 0 ELSE Squasher
<1>1. q \in 0..N /\ (q # 0 => q \in ResolvedRedirects)
  BY SquasherType, NAssumption
<1>2. q # 0 => q > youngest
  <2>1. youngest \in Nat /\ fromIEW.squash \in Nat /\ Squasher \in Nat
    BY NAssumption, SquasherType DEF TypeOK
  <2> QED BY <2>1, SMTT(60) DEF CommitNoSquash, FireResolved, Signalled
<1>3. commitStatus \in {"Running", "ROBSquashing"}
  BY Zenon DEF TypeOK
<1>4. CASE commitStatus = "Running" \/ squashIt = 0
  BY <1>1, <1>2, <1>4, Zenon DEF CommitNoSquash, links
<1>5. CASE ~(commitStatus = "Running" \/ squashIt = 0)
  BY <1>1, <1>2, <1>3, <1>5, Zenon DEF CommitNoSquash
<1> QED BY <1>4, <1>5, Zenon

\* SquashInv is kept by every step.
LEMMA SquashInvStep ==
    ASSUME TypeOK, SquashInv, [Next]_vars
    PROVE  SquashInv'
<1>1. ASSUME UNCHANGED robState, squashed \subseteq squashed', InROB' \subseteq InROB
      PROVE  SquashInv'
  BY <1>1, Zenon DEF SquashInv, robState
<1>2. CASE FrontStep
  BY <1>1, <1>2, FrontStepROB
<1>3. CASE RetireSquashed \/ RetireHead \/ EndCommit
  <2>1. UNCHANGED robState /\ squashed' = squashed
    BY <1>3, Zenon DEF RetireSquashed, RetireHead, EndCommit, status
  <2>2. InROB' \subseteq InROB
    <3>1. stage' = stage \/ stage' = [stage EXCEPT ![Head] = "retired"]
      BY <1>3, Zenon DEF RetireSquashed, RetireHead, EndCommit
    <3> QED BY <3>1, Zenon DEF InROB, TypeOK
  <2> QED BY <1>1, <2>1, <2>2
<1>4. ASSUME NEW S, NEW q, Squash(S, q)
      PROVE  InROB' = InROB /\ squashed' = squashed \cup S
  BY <1>4, Zenon DEF Squash, InROB, TypeOK
<1>5. ASSUME NEW num \in 0..N, NEW q, BeginSquash(num, q)
      PROVE  SquashInv'
  <2> DEFINE tail == Max(InROB)
  <2>1. /\ InROB' = InROB /\ squashed' = squashed \cup Ongoing \cup Marked(num, tail)
        /\ commitStatus' = "ROBSquashing" /\ squashNum' = num /\ youngest' = num
        /\ squashIt' = NextIt(num, tail)
    BY <1>4, <1>5, SMTT(60) DEF BeginSquash
  <2>2. \A i \in InROB : i <= tail
    <3>1. InROB \in SUBSET (0..N)
      BY NAssumption DEF InROB, Insts
    <3> QED BY <3>1, MaxProperty, NAssumption, Zenon
  <2>3. \A i \in InROB : i > num => i \in Squashable(num, tail)
    <3>1. InROB \subseteq Nat /\ num \in Nat
      BY NAssumption DEF InROB, Insts
    <3> HIDE DEF tail
    <3> QED BY <2>2, <3>1 DEF Squashable
  <2> HIDE DEF tail
  <2> QED BY <2>1, <2>3, NextItType, Zenon DEF SquashInv
<1>6. CASE CommitPendingRedirect
  <2>1. \E num \in 0..N : BeginSquash(num, Squasher)
    BY <1>6, SquasherType, NAssumption DEF CommitPendingRedirect, FireResolved, Insts
  <2> QED BY <1>5, <2>1
<1>7. CASE CommitSignalledSquash
  <2>1. \E num \in 0..N : BeginSquash(num, fromIEW.squash)
    BY <1>7, NAssumption, SMTT(60) DEF CommitSignalledSquash, Signalled, TypeOK
  <2> QED BY <1>5, <2>1
<1>8. CASE CommitNoSquash
  <2> DEFINE new == {i \in Insts : stage[i] = "renamed"}
  <2>1. CASE /\ commitStatus = "Running" \/ squashIt = 0
             /\ commitStatus' = "Running"
             /\ stage' = [i \in Insts |-> IF i \in new THEN "rob" ELSE stage[i]]
             /\ youngest' = Max(new \cup {youngest})
             /\ UNCHANGED squashed
    <3>1. InROB' = InROB \cup new
      BY <2>1, Zenon DEF InROB, TypeOK
    <3>2. \A i \in new \cup {youngest} : i <= youngest'
      <4>1. new \cup {youngest} \in SUBSET (0..N)
        BY NAssumption, SMTT(60) DEF TypeOK, Insts
      <4> HIDE DEF new
      <4> QED BY <2>1, <4>1, MaxProperty, NAssumption, Zenon
    <3>3. youngest' \in Nat /\ youngest \in Nat /\ InROB \cup new \subseteq Nat \ {0}
      <4>1. TypeOK'
        BY TypeStep
      <4>2. youngest' \in 0..N /\ youngest \in 0..N
        BY <4>1, Zenon DEF TypeOK
      <4>3. InROB \cup new \subseteq Nat \ {0}
        BY NAssumption DEF InROB, Insts
      <4> QED BY <4>2, <4>3, NAssumption
    <3>4. ASSUME NEW i \in InROB', i > youngest' PROVE i \in squashed
      <4>1. i \in InROB /\ i > youngest
        BY <3>1, <3>2, <3>3, <3>4
      <4> QED BY <2>1, <3>3, <4>1 DEF SquashInv
    <3> QED BY <2>1, <3>4, Zenon DEF SquashInv
  <2>2. ASSUME NEW q, Squash(Ongoing, q), commitStatus = "ROBSquashing", squashIt # 0,
               squashIt' = NextIt(squashNum, squashIt),
               UNCHANGED <<commitStatus, youngest, squashNum>>
        PROVE  SquashInv'
    <3>1. InROB' = InROB /\ squashed' = squashed \cup Marked(squashNum, squashIt)
      BY <1>4, <2>2, Zenon DEF Ongoing
    <3>2. squashNum = youngest /\ youngest \in Nat /\ squashIt \in Nat /\ InROB \subseteq Nat
      BY <2>2, NAssumption, SMTT(60) DEF SquashInv, TypeOK, InROB, Insts
    <3>3. ASSUME NEW i \in InROB, i > youngest, i \notin squashed'
          PROVE  i <= squashIt'
      <4>1. i <= squashIt
        BY <2>2, <3>1, <3>3, Zenon DEF SquashInv
      <4>2. i \in Squashable(squashNum, squashIt)
        BY <3>2, <3>3, <4>1 DEF Squashable
      <4> QED BY <2>2, <3>1, <3>3, <4>2, NextItType, Zenon
    <3> QED BY <2>2, <3>1, <3>2, <3>3, Zenon DEF SquashInv
  <2> QED BY <1>8, <2>1, <2>2, NoSquashCases, Zenon
<1>9. CASE UNCHANGED vars
  BY <1>1, <1>9, Zenon DEF vars, status, robState, InROB
<1> QED BY <1>2, <1>3, <1>6, <1>7, <1>8, <1>9, Zenon DEF Next, FrontStep

-----------------------------------------------------------------------------
(***************************************************************************)
(* Action properties.                                                      *)
(***************************************************************************)

\* No step restricts an instruction that has issued.
LEMMA SafeStepLemma ==
    ASSUME TypeOK, [Next]_vars
    PROVE  SafeStep
<1> DEFINE Waiting == {i \in Insts : stage[i] \in {"none", "renamed", "rob", "queued"}}
<1> SUFFICES (ctlRes' \cup dataRes') \subseteq (ctlRes \cup dataRes) \cup Waiting
  BY DEF SafeStep, Restricted
<1>1. ASSUME NEW i \in Insts, Rename(i) \/ Dispatch(i)
      PROVE  ctlRes' = ctlRes /\ dataRes' \subseteq dataRes \cup Waiting
  BY <1>1, Zenon DEF Rename, Dispatch, TaintFromReady
<1>2. ASSUME NEW i \in Insts, Execute(i) \/ Issue(i)
      PROVE  UNCHANGED <<ctlRes, dataRes>>
  BY <1>2, Zenon DEF Execute, ExecuteSquashed, ExecuteInst, ExecuteTLBMiss, ExecuteLoad,
              ExecuteLoadMiss, ExecuteLoadBlocked, ExecuteStore, Issue
<1>3. ASSUME NEW i \in Insts, Writeback(i)
      PROVE  ctlRes' = ctlRes /\ dataRes' \subseteq dataRes \cup Waiting
  BY <1>3, Zenon DEF Writeback, Live
<1>4. ASSUME NEW S, Forget(S)
      PROVE  ctlRes' \subseteq ctlRes /\ dataRes' \subseteq dataRes
  BY <1>4, Zenon DEF Forget
<1>5. CASE IEWSquash
  BY <1>4, <1>5, Zenon DEF IEWSquash
<1>6. CASE SafeTick
  BY <1>6, UpdateSafeStatusType, Zenon DEF SafeTick, TypeOK
<1>7. CASE CommitPendingRedirect \/ CommitSignalledSquash
  BY <1>4, <1>7, Zenon DEF CommitPendingRedirect, CommitSignalledSquash, BeginSquash, Squash
<1>8. CASE CommitNoSquash
  <2>1. CASE commitStatus = "Running" \/ squashIt = 0
    BY <1>8, <2>1, Zenon DEF CommitNoSquash
  <2>2. CASE ~(commitStatus = "Running" \/ squashIt = 0)
    BY <1>4, <1>8, <2>2, Zenon DEF CommitNoSquash, Squash
  <2> QED BY <2>1, <2>2, Zenon
<1>9. CASE RetireHead
  <2>1. dataInd \ {Head} \in SUBSET Insts
    BY Zenon DEF TypeOK
  <2> QED BY <1>9, <2>1, UpdateSafeStatusType, Zenon DEF RetireHead
<1>10. CASE RetireSquashed \/ EndCommit \/ UNCHANGED vars
  BY <1>10, Zenon DEF RetireSquashed, EndCommit, vars, status
<1> HIDE DEF Waiting
<1> QED BY <1>1, <1>2, <1>3, <1>5, <1>6, <1>7, <1>8, <1>9, <1>10, Zenon DEF Next

\* An instruction that has issued safe is never restricted afterwards,
\* whatever the interleaving of wake-ups, insertions and squashes.
THEOREM SafeStays == Spec => SafeStaysSafe
<1>1. TypeOK /\ [Next]_vars => SafeStep
  BY SafeStepLemma
<1> QED BY <1>1, TypeCorrect, PTL DEF Spec, SafeStaysSafe

\* No step drops a pending redirect silently.
LEMMA KeepStepLemma ==
    ASSUME TypeOK, SquashInv, [Next]_vars
    PROVE  KeepStep
<1>1. ASSUME NEW i \in Insts,
             Rename(i) \/ Dispatch(i) \/ ExecuteSquashed(i) \/ ExecuteInst(i) \/ ExecuteLoad(i)
             \/ ExecuteLoadBlocked(i) \/ Writeback(i)
      PROVE  pendBr \subseteq pendBr' /\ pendMO \subseteq pendMO'
  BY <1>1, Zenon DEF Rename, Dispatch, ExecuteSquashed, ExecuteInst, ExecuteLoad, ExecuteLoadBlocked,
              Writeback
<1>2. ASSUME NEW i \in Insts, ExecuteTLBMiss(i) \/ ExecuteLoadMiss(i) \/ Issue(i)
      PROVE  KeepStep
  BY <1>2, Zenon DEF ExecuteTLBMiss, ExecuteLoadMiss, Issue, Stall, KeepStep
<1>3. ASSUME NEW i \in Insts, ExecuteStore(i)
      PROVE  pendBr \subseteq pendBr' /\ pendMO \subseteq pendMO'
  BY <1>3, Zenon DEF ExecuteStore, SquashDueToMemOrder
<1>4. CASE IEWSquash
  BY <1>4, Zenon DEF IEWSquash, KeepStep
<1>5. CASE SafeTick \/ RetireHead
  <2>1. dataInd \in SUBSET Insts /\ dataInd \ {Head} \in SUBSET Insts
    BY Zenon DEF TypeOK
  <2>2. pendBr' = pendBr /\ pendMO \subseteq pendMO'
    BY <1>5, <2>1, UpdateSafeStatusType, Zenon DEF SafeTick, RetireHead
  <2> QED BY <2>2, Zenon DEF KeepStep
<1>6. CASE CommitPendingRedirect
  <2>1. /\ Squasher \in Insts /\ Insts \subseteq Nat
        /\ BeginSquash(IF Squasher \in pendMO THEN Squasher - 1 ELSE Squasher, Squasher)
    BY <1>6, SquasherType, NAssumption DEF CommitPendingRedirect, FireResolved, Insts
  <2>2. youngest' < Squasher \/ Squasher \in redirected'
    BY <2>1 DEF BeginSquash
  <2>3. \A i \in pendBr \cup pendMO : i \in (pendBr \cup pendMO)' \/ i \in squashed' \/ i = Squasher
    BY <2>1, Zenon DEF BeginSquash, Squash
  <2> QED BY <2>2, <2>3, Zenon DEF KeepStep
<1>7. CASE CommitSignalledSquash
  <2> DEFINE q == fromIEW.squash
  <2>1. q \in Nat /\ BeginSquash(IF fromIEW.include THEN q - 1 ELSE q, q)
    BY <1>7, NAssumption, SMTT(60) DEF CommitSignalledSquash, TypeOK
  <2> HIDE DEF q
  <2>2. youngest' < q \/ q \in redirected'
    BY <2>1 DEF BeginSquash
  <2>3. \A i \in pendBr \cup pendMO : i \in (pendBr \cup pendMO)' \/ i \in squashed' \/ i = q
    BY <2>1, Zenon DEF BeginSquash, Squash
  <2> QED BY <2>2, <2>3, Zenon DEF KeepStep
<1>8. CASE CommitNoSquash
  <2>1. ASSUME NEW q \in 0..N, q # 0 => q \in ResolvedRedirects /\ q > youngest,
               commitStatus = "Running" \/ squashIt = 0,
               pendBr' = pendBr \ {q}, pendMO' = pendMO \ {q}
        PROVE  KeepStep
    <3>1. q = 0
      BY <2>1, NAssumption DEF ResolvedRedirects, SquashInv
    <3>2. 0 \notin pendBr \cup pendMO
      BY NAssumption, SMTT(60) DEF TypeOK, Insts
    <3> QED BY <2>1, <3>1, <3>2, Zenon DEF KeepStep
  <2>2. ASSUME NEW q \in 0..N, q # 0 => q \in ResolvedRedirects /\ q > youngest,
               Squash(Ongoing, q), UNCHANGED youngest
        PROVE  KeepStep
    <3>1. 0 \notin pendBr \cup pendMO
      BY NAssumption, SMTT(60) DEF TypeOK, Insts
    <3>2. q # 0 => youngest' < q
      BY <2>2, NAssumption, Zenon DEF TypeOK
    <3> QED BY <2>2, <3>1, <3>2, Zenon DEF KeepStep, Squash
  <2> QED BY <1>8, <2>1, <2>2, NoSquashCases, Zenon
<1>9. CASE RetireSquashed \/ EndCommit \/ UNCHANGED vars
  BY <1>9, Zenon DEF RetireSquashed, EndCommit, vars, status, KeepStep
<1> QED
  BY <1>1, <1>2, <1>3, <1>4, <1>5, <1>6, <1>7, <1>8, <1>9, Zenon DEF Next, Execute, KeepStep

\* The squash invariant holds in every reachable state.
LEMMA SquashInvHolds == Spec => []SquashInv
<1>1. Init => SquashInv
  BY Zenon DEF Init, SquashInv, InROB
<1>2. TypeOK /\ SquashInv /\ [Next]_vars => SquashInv'
  BY SquashInvStep
<1> QED BY <1>1, <1>2, TypeCorrect, PTL DEF Spec

\* A pending redirect is never lost by commit, by the ROB or by the squash
\* logic: it ends only in a redirect, in the squash of its instruction, or in
\* the stall of the load it belongs to.
THEOREM RedirectsKept == Spec => PendingRedirectKept
<1>1. TypeOK /\ SquashInv /\ [Next]_vars => KeepStep
  BY KeepStepLemma
<1> QED BY <1>1, TypeCorrect, SquashInvHolds, PTL DEF Spec, PendingRedirectKept

-----------------------------------------------------------------------------
(***************************************************************************)
(* No instruction retires while its redirect is pending.                   *)
(***************************************************************************)

\* What has executed stays executed, and what is in the ROB stays there until
\* it retires.
StageFacts ==
    /\ prog' = prog
    /\ \A j \in Insts : /\ stage[j] \in Executed => stage'[j] \in Executed
                        /\ stage[j] \in {"wb", "retired"} => stage'[j] \in {"wb", "retired"}
                        /\ j \in InROB => j \in InROB' \/ stage'[j] \in Executed

\* Every step satisfies StageFacts.
LEMMA StageFactsStep ==
    ASSUME TypeOK, [Next]_vars
    PROVE  StageFacts
<1> USE DEF StageFacts, Executed, InROB
<1>0. prog' = prog
  BY ZenonT(60) DEF Next, Rename, Dispatch, Execute, ExecuteSquashed, ExecuteInst, ExecuteTLBMiss,
         ExecuteLoad, ExecuteLoadMiss, ExecuteLoadBlocked, ExecuteStore, Writeback, Issue,
         IEWSquash, SafeTick, CommitPendingRedirect, CommitSignalledSquash, CommitNoSquash,
         RetireSquashed, RetireHead, EndCommit, vars, fixed
<1>1. ASSUME NEW i \in Insts, NEW x, stage' = [stage EXCEPT ![i] = x],
             \/ stage[i] \in {"none", "rob", "queued", "issued", "access"}
                /\ x \in {"renamed", "queued", "issued", "access", "done", "wb"}
                /\ (x = "renamed" => stage[i] = "none")
             \/ x = "wb" /\ stage[i] = "done"
             \/ x = "retired"
      PROVE  StageFacts
  BY <1>0, <1>1, Zenon DEF TypeOK
<1>2. ASSUME NEW i \in Insts, Rename(i) \/ Dispatch(i) \/ Writeback(i)
      PROVE  StageFacts
  BY <1>1, <1>2, Zenon DEF Rename, Dispatch, Writeback
<1>3. ASSUME NEW i \in Insts, Execute(i)
      PROVE  StageFacts
  <2>1. stage[i] = "issued" /\ \E x \in {"queued", "access", "done"} : stage' = [stage EXCEPT ![i] = x]
    BY <1>3, Zenon DEF Execute, NextToExecute, Stall, ExecuteSquashed, ExecuteInst, ExecuteTLBMiss,
                ExecuteLoad, ExecuteLoadMiss, ExecuteLoadBlocked, ExecuteStore
  <2> QED BY <1>1, <2>1, Zenon
<1>4. ASSUME NEW i \in Insts, Issue(i)
      PROVE  StageFacts
  <2>1. stage[i] = "queued" /\ \E x \in {"queued", "issued"} : stage' = [stage EXCEPT ![i] = x]
    BY <1>4, Zenon DEF Issue, Stall
  <2> QED BY <1>1, <2>1, Zenon
<1>5. CASE IEWSquash \/ SafeTick \/ EndCommit \/ UNCHANGED vars
  BY <1>0, <1>5, Zenon DEF IEWSquash, SafeTick, EndCommit, vars
<1>6. CASE RetireSquashed \/ RetireHead
  <2>1. Head \in Insts /\ stage' = [stage EXCEPT ![Head] = "retired"]
    BY <1>6, HeadType, Zenon DEF RetireSquashed, RetireHead, HeadReady
  <2> QED BY <1>1, <2>1, Zenon
<1>7. ASSUME NEW S, NEW q, Squash(S, q)
      PROVE  StageFacts
  BY <1>0, <1>7, Zenon DEF Squash, TypeOK
<1>8. CASE CommitPendingRedirect \/ CommitSignalledSquash
  BY <1>7, <1>8, Zenon DEF CommitPendingRedirect, CommitSignalledSquash, BeginSquash
<1>9. CASE CommitNoSquash
  <2>1. CASE commitStatus = "Running" \/ squashIt = 0
    <3>1. stage' = [i \in Insts |-> IF i \in {j \in Insts : stage[j] = "renamed"}
                                    THEN "rob" ELSE stage[i]]
      BY <1>9, <2>1, Zenon DEF CommitNoSquash
    <3> QED BY <1>0, <3>1, Zenon DEF TypeOK
  <2>2. CASE ~(commitStatus = "Running" \/ squashIt = 0)
    BY <1>7, <1>9, <2>2, Zenon DEF CommitNoSquash
  <2> QED BY <2>1, <2>2, Zenon
<1> QED BY <1>2, <1>3, <1>4, <1>5, <1>6, <1>8, <1>9, Zenon DEF Next

\* PendInv is kept by every step.
LEMMA PendInvStep ==
    ASSUME TypeOK, SquashInv, PendInv, [Next]_vars
    PROVE  PendInv'
<1>0. TypeOK' /\ StageFacts
  BY TypeStep, StageFactsStep
<1>1. \A j : IsLoad(j)' <=> IsLoad(j)
  BY <1>0, Zenon DEF StageFacts, IsLoad, Kind
<1>2. Insts \subseteq Nat \ {0} /\ \A x \in 0..N : x # 0 => x \in Insts
  BY NAssumption DEF Insts
\* The conjuncts about one variable or message that a step leaves alone.
<1>3. ASSUME UNCHANGED fromIEW PROVE SignalInv(fromIEW)'
  <2>1. fromIEW.insts \subseteq Insts /\ (fromIEW.squash # 0 => fromIEW.squash \in Insts)
    BY <1>2, Zenon DEF TypeOK
  <2>2. SignalInv(fromIEW)
    BY Zenon DEF PendInv
  <2> QED BY <1>0, <1>1, <1>3, <2>1, <2>2, Zenon DEF SignalInv, StageFacts
<1>4. ASSUME UNCHANGED toCommit PROVE SignalInv(toCommit)'
  <2>1. toCommit.insts \subseteq Insts /\ (toCommit.squash # 0 => toCommit.squash \in Insts)
    BY <1>2, Zenon DEF TypeOK
  <2>2. SignalInv(toCommit)
    BY Zenon DEF PendInv
  <2> QED BY <1>0, <1>1, <1>4, <2>1, <2>2 DEF SignalInv, StageFacts
<1>5. ASSUME /\ canCommit' \ squashed' \subseteq canCommit \ squashed
             /\ youngest' = youngest
      PROVE  \A i \in canCommit' \ squashed' :
                stage'[i] \in Executed \/ (IsLoad(i) /\ i > youngest' /\ i \in InROB')
  BY <1>0, <1>5, Zenon DEF PendInv, StageFacts, TypeOK
<1>6. ASSUME \A i \in pendBr' : i \in pendBr \/ stage'[i] \in Executed
      PROVE  \A i \in pendBr' : stage'[i] \in Executed
  BY <1>0, <1>6, Zenon DEF PendInv, StageFacts, TypeOK
<1>7. ASSUME UNCHANGED <<violator, squashed>>
      PROVE  \A i \in Insts : violator'[i] # 0 => IsLoad(violator'[i]) /\ violator'[i] \notin squashed'
  BY <1>7, Zenon DEF PendInv
\* Steps that at most drop a pending redirect.
<1>8. ASSUME UNCHANGED <<squashed, canCommit, youngest, violator, fromIEW>>,
             pendBr' \subseteq pendBr, pendMO' \subseteq pendMO, SignalInv(toCommit)'
      PROVE  PendInv'
  <2>1. (pendBr' \cup pendMO') \cap (squashed' \cup canCommit') = {}
    BY <1>8, Zenon DEF PendInv
  <2>2. \A i \in pendMO' : IsLoad(i)
    BY <1>8, Zenon DEF PendInv
  <2>3. \A i \in canCommit' \ squashed' :
           stage'[i] \in Executed \/ (IsLoad(i) /\ i > youngest' /\ i \in InROB')
    BY <1>5, <1>8, Zenon
  <2>4. \A i \in pendBr' : stage'[i] \in Executed
    BY <1>6, <1>8, Zenon
  <2> QED BY <1>1, <1>3, <1>7, <1>8, <2>1, <2>2, <2>3, <2>4, Zenon DEF PendInv
<1>9. ASSUME NEW i \in Insts,
             Rename(i) \/ Dispatch(i) \/ ExecuteTLBMiss(i) \/ ExecuteLoad(i) \/ ExecuteLoadMiss(i)
             \/ ExecuteLoadBlocked(i) \/ Issue(i)
      PROVE  PendInv'
  <2>1. /\ UNCHANGED <<squashed, canCommit, youngest, violator, fromIEW, toCommit>>
        /\ pendBr' \subseteq pendBr /\ pendMO' \subseteq pendMO
    BY <1>9, Zenon DEF Rename, Dispatch, ExecuteTLBMiss, ExecuteLoad, ExecuteLoadMiss,
                ExecuteLoadBlocked, Issue, Stall, links, buffers, robState
  <2> QED BY <1>4, <1>8, <2>1, Zenon
<1>10. ASSUME NEW i \in Insts, Writeback(i) PROVE PendInv'
  <2>1. /\ UNCHANGED <<squashed, canCommit, youngest, violator, fromIEW, pendBr, pendMO>>
        /\ toCommit' = [toCommit EXCEPT !.insts = @ \cup {i}]
        /\ stage' = [stage EXCEPT ![i] = "wb"]
    BY <1>10, Zenon DEF Writeback, robState
  <2>2. SignalInv(toCommit)'
    <3>1. /\ toCommit'.insts = toCommit.insts \cup {i} /\ toCommit'.squash = toCommit.squash
          /\ toCommit'.include = toCommit.include
      BY <2>1, Zenon DEF TypeOK
    <3>2. toCommit.insts \subseteq Insts /\ (toCommit.squash # 0 => toCommit.squash \in Insts)
      BY <1>2, Zenon DEF TypeOK
    <3>3. stage'[i] = "wb"
      BY <2>1, Zenon DEF TypeOK
    <3>4. SignalInv(toCommit)
      BY Zenon DEF PendInv
    <3> QED BY <1>0, <1>1, <3>1, <3>2, <3>3, <3>4, Zenon DEF SignalInv, StageFacts
  <2> QED BY <1>8, <2>1, <2>2
<1>11. ASSUME NEW i \in Insts, ExecuteSquashed(i) PROVE PendInv'
  <2>1. /\ UNCHANGED <<squashed, youngest, violator, fromIEW, toCommit, pendBr, pendMO>>
        /\ canCommit' = canCommit \cup {i} /\ i \in squashed
    BY <1>11, Zenon DEF ExecuteSquashed, links, buffers, robState
  <2>2. \A j \in canCommit' \ squashed' :
           stage'[j] \in Executed \/ (IsLoad(j) /\ j > youngest' /\ j \in InROB')
    BY <1>5, <2>1, Zenon
  <2>3. \A j \in pendBr' : stage'[j] \in Executed
    BY <1>6, <2>1, Zenon
  <2>4. (pendBr' \cup pendMO') \cap (squashed' \cup canCommit') = {} /\ \A j \in pendMO' : IsLoad(j)
    BY <2>1, Zenon DEF PendInv
  <2> QED BY <1>1, <1>3, <1>4, <1>7, <2>1, <2>2, <2>3, <2>4, Zenon DEF PendInv
<1>12. ASSUME NEW i \in Insts, ExecuteInst(i) PROVE PendInv'
  <2>1. /\ UNCHANGED <<squashed, canCommit, youngest, violator, fromIEW, pendMO>>
        /\ pendBr' \subseteq pendBr \cup {i} /\ i \notin squashed /\ stage[i] = "issued"
        /\ ~IsLoad(i) /\ stage' = [stage EXCEPT ![i] = "done"]
        /\ \/ UNCHANGED toCommit
           \/ toCommit' = [toCommit EXCEPT !.squash = i, !.include = FALSE]
    BY <1>12, Zenon DEF ExecuteInst, NextToExecute, links, robState
  <2>2. i \notin canCommit
    BY <2>1 DEF PendInv, Executed
  <2>3. stage'[i] \in Executed
    BY <2>1, Zenon DEF TypeOK, Executed
  <2>4. (pendBr' \cup pendMO') \cap (squashed' \cup canCommit') = {} /\ \A j \in pendMO' : IsLoad(j)
    BY <2>1, <2>2 DEF PendInv
  <2>5. \A j \in canCommit' \ squashed' :
           stage'[j] \in Executed \/ (IsLoad(j) /\ j > youngest' /\ j \in InROB')
    BY <1>5, <2>1
  <2>6. \A j \in pendBr' : stage'[j] \in Executed
    BY <1>6, <2>1, <2>3
  <2>7. ASSUME toCommit' = [toCommit EXCEPT !.squash = i, !.include = FALSE]
        PROVE  SignalInv(toCommit)'
    <3>1. toCommit'.insts = toCommit.insts /\ toCommit'.squash = i /\ toCommit'.include = FALSE
      BY <2>7 DEF TypeOK
    <3>2. toCommit.insts \subseteq Insts
      BY Zenon DEF TypeOK
    <3> QED BY <1>0, <2>3, <3>1, <3>2, Zenon DEF SignalInv, PendInv, StageFacts
  <2> QED BY <1>1, <1>3, <1>4, <1>7, <2>1, <2>4, <2>5, <2>6, <2>7, Zenon DEF PendInv
<1>13. ASSUME NEW i \in Insts, ExecuteStore(i) PROVE PendInv'
  <2> DEFINE v == Violator(i)
  <2>1. /\ UNCHANGED <<squashed, youngest, fromIEW, pendBr>>
        /\ \/ UNCHANGED <<toCommit, pendMO, canCommit, violator>>
           \/ v # 0 /\ SquashDueToMemOrder(i, v)
    BY <1>13, Zenon DEF ExecuteStore, robState
  <2>2. v # 0 => v \in Insts /\ v \notin squashed /\ IsLoad(v)
    BY <1>2, ViolatorType, Zenon DEF InLSQ, Live
  <2> HIDE DEF v
  <2>3. CASE UNCHANGED <<toCommit, pendMO, canCommit, violator>>
    BY <1>4, <1>8, <2>1, <2>3, Zenon
  <2>4. CASE v # 0 /\ SquashDueToMemOrder(i, v)
    <3>1. /\ toCommit' = [toCommit EXCEPT !.squash = v, !.include = TRUE]
          /\ violator' = violator \/ violator' = [violator EXCEPT ![i] = v]
          /\ \/ UNCHANGED <<pendMO, canCommit>>
             \/ pendMO' = pendMO \cup {v} /\ canCommit' = canCommit \ {v}
      BY <2>4 DEF SquashDueToMemOrder
    <3>2. SignalInv(toCommit)'
      <4>1. toCommit'.insts = toCommit.insts /\ toCommit'.squash = v /\ toCommit'.include = TRUE
        BY <3>1, Zenon DEF TypeOK
      <4>2. toCommit.insts \subseteq Insts
        BY DEF TypeOK
      <4> QED BY <1>0, <1>1, <2>2, <2>4, <4>1, <4>2, Zenon DEF SignalInv, PendInv, StageFacts
    <3>3. (pendBr' \cup pendMO') \cap (squashed' \cup canCommit') = {} /\ \A j \in pendMO' : IsLoad(j)
      BY <2>1, <2>2, <2>4, <3>1 DEF PendInv
    <3>4. \A j \in canCommit' \ squashed' :
             stage'[j] \in Executed \/ (IsLoad(j) /\ j > youngest' /\ j \in InROB')
      BY <1>5, <2>1, <3>1
    <3>5. \A j \in pendBr' : stage'[j] \in Executed
      BY <1>6, <2>1, Zenon
    <3>6. \A j \in Insts : violator'[j] # 0 => IsLoad(violator'[j]) /\ violator'[j] \notin squashed'
      <4>1. \A j \in Insts : violator'[j] = violator[j] \/ violator'[j] = v
        BY <3>1, Zenon DEF TypeOK
      <4> QED BY <2>1, <2>2, <2>4, <4>1, Zenon DEF PendInv
    <3> QED BY <1>1, <1>3, <2>1, <3>2, <3>3, <3>4, <3>5, <3>6, Zenon DEF PendInv
  <2> QED BY <2>1, <2>3, <2>4, Zenon
\* Squashes: the status of the squashed instructions is forgotten.
<1>14. ASSUME NEW S, Forget(S)
       PROVE  \A i \in Insts : violator'[i] # 0 => violator'[i] = violator[i] /\ violator[i] \notin S
  BY <1>14, Zenon DEF Forget, TypeOK
<1>15. CASE IEWSquash
  <2>1. PICK dead, iq :
          /\ iq \subseteq dead
          /\ squashed' = squashed \cup dead /\ Forget(dead)
          /\ pendBr' = pendBr \ dead /\ pendMO' = pendMO \ dead
          /\ canCommit' = canCommit \cup iq
    BY <1>15, Zenon DEF IEWSquash
  <2>2. UNCHANGED <<toCommit, fromIEW, youngest>>
    BY <1>15, Zenon DEF IEWSquash, robState
  <2>3. (pendBr' \cup pendMO') \cap (squashed' \cup canCommit') = {} /\ \A j \in pendMO' : IsLoad(j)
    BY <2>1, Zenon DEF PendInv
  <2>4. \A j \in canCommit' \ squashed' :
           stage'[j] \in Executed \/ (IsLoad(j) /\ j > youngest' /\ j \in InROB')
    BY <1>5, <2>1, <2>2, Zenon
  <2>5. \A j \in pendBr' : stage'[j] \in Executed
    BY <1>6, <2>1, Zenon
  <2>6. \A j \in Insts : violator'[j] # 0 => IsLoad(violator'[j]) /\ violator'[j] \notin squashed'
    BY <1>14, <2>1, Zenon DEF PendInv
  <2> QED BY <1>1, <1>3, <1>4, <2>2, <2>3, <2>4, <2>5, <2>6, Zenon DEF PendInv
<1>16. CASE SafeTick \/ RetireHead
  <2>1. dataInd \in SUBSET Insts /\ dataInd \ {Head} \in SUBSET Insts
    BY Zenon DEF TypeOK
  <2>2. /\ UNCHANGED <<squashed, youngest, violator, fromIEW, toCommit, pendBr>>
        /\ \A v \in pendMO' \ pendMO : v # 0 /\ \E s \in Insts : v = violator[s]
        /\ canCommit' \subseteq canCommit \ (pendMO' \ pendMO)
    BY <1>16, <2>1, UpdateSafeStatusType, Zenon DEF SafeTick, RetireHead, buffers, robState
  <2>3. \A v \in pendMO' : IsLoad(v) /\ v \notin squashed
    BY <2>2, Zenon DEF PendInv
  <2>4. (pendBr' \cup pendMO') \cap (squashed' \cup canCommit') = {} /\ \A j \in pendMO' : IsLoad(j)
    BY <2>2, <2>3, Zenon DEF PendInv
  <2>5. \A j \in canCommit' \ squashed' :
           stage'[j] \in Executed \/ (IsLoad(j) /\ j > youngest' /\ j \in InROB')
    BY <1>5, <2>2, Zenon
  <2>6. \A j \in pendBr' : stage'[j] \in Executed
    BY <1>6, <2>2, Zenon
  <2> QED BY <1>1, <1>3, <1>4, <1>7, <2>2, <2>4, <2>5, <2>6, Zenon DEF PendInv
<1>17. ASSUME NEW S, NEW q, Squash(S, q), UNCHANGED <<toCommit, fromIEW>>,
              youngest' \in Nat, youngest' <= youngest,
              q \in InROB => stage[q] \in Executed \/ (IsLoad(q) /\ q > youngest')
       PROVE  PendInv'
  <2>1. /\ squashed' = squashed \cup S
        /\ pendBr' = pendBr \ (S \cup {q}) /\ pendMO' = pendMO \ (S \cup {q})
        /\ canCommit' = canCommit \cup S \cup ({q} \cap InROB)
        /\ \E T : S \subseteq T /\ Forget(T)
    BY <1>17, Zenon DEF Squash
  <2>2. (pendBr' \cup pendMO') \cap (squashed' \cup canCommit') = {} /\ \A j \in pendMO' : IsLoad(j)
    BY <2>1, Zenon DEF PendInv
  <2>3. ASSUME NEW j \in canCommit', j \notin squashed'
        PROVE  stage'[j] \in Executed \/ (IsLoad(j) /\ j > youngest' /\ j \in InROB')
    <3>1. j \in Insts /\ j \in Nat /\ youngest \in Nat
      BY <1>0, <1>2, NAssumption, SMTT(60) DEF TypeOK
    <3>2. CASE j \in canCommit \ squashed
      <4>1. stage[j] \in Executed \/ (IsLoad(j) /\ j > youngest' /\ j \in InROB)
        BY <1>17, <3>1, <3>2, SMTT(60) DEF PendInv
      <4> QED BY <1>0, <3>1, <4>1, Zenon DEF StageFacts
    <3>3. CASE j = q /\ q \in InROB
      BY <1>0, <1>17, <3>1, <3>3, Zenon DEF StageFacts
    <3> QED BY <2>1, <2>3, <3>2, <3>3, Zenon
  <2>4. \A j \in pendBr' : stage'[j] \in Executed
    BY <1>6, <2>1, Zenon
  <2>5. \A j \in Insts : violator'[j] # 0 => IsLoad(violator'[j]) /\ violator'[j] \notin squashed'
    BY <1>14, <2>1, Zenon DEF PendInv
  <2> QED BY <1>1, <1>3, <1>4, <1>17, <2>2, <2>3, <2>4, <2>5, Zenon DEF PendInv
<1>18. \A i \in ResolvedRedirects : i \in InROB /\ (i \in pendMO \/ stage[i] \in Executed)
  BY Zenon DEF ResolvedRedirects, PendInv
<1>19. CASE CommitPendingRedirect
  <2> DEFINE num == IF Squasher \in pendMO THEN Squasher - 1 ELSE Squasher
  <2>1. BeginSquash(num, Squasher) /\ UNCHANGED <<toCommit, fromIEW>>
    BY <1>19, Zenon DEF CommitPendingRedirect
  <2>2. Squasher \in ResolvedRedirects /\ Squasher \in Nat \ {0} /\ Squasher <= youngest
    BY <1>2, <1>19, SquasherType, Zenon DEF CommitPendingRedirect, FireResolved
  <2>3. num \in Nat /\ num <= youngest /\ (Squasher \in pendMO => Squasher > num)
    BY <2>2, NAssumption, SMTT(60) DEF TypeOK
  <2>4. stage[Squasher] \in Executed \/ (IsLoad(Squasher) /\ Squasher > num)
    BY <1>18, <2>2, <2>3, Zenon DEF PendInv
  <2> HIDE DEF num
  <2>5. \E S : Squash(S, Squasher)
    BY <2>1, Zenon DEF BeginSquash
  <2>6. youngest' = num
    BY <2>1, Zenon DEF BeginSquash
  <2> QED BY <1>17, <2>1, <2>3, <2>4, <2>5, <2>6, Zenon
<1>20. CASE CommitSignalledSquash
  <2> DEFINE q == fromIEW.squash
             num == IF fromIEW.include THEN q - 1 ELSE q
  <2>1. BeginSquash(num, q) /\ UNCHANGED <<toCommit, fromIEW>>
    BY <1>20, Zenon DEF CommitSignalledSquash
  <2>2. q \in Nat \ {0} /\ q <= youngest
    BY <1>20, NAssumption, SMTT(60) DEF CommitSignalledSquash, Signalled, TypeOK
  <2>3. num \in Nat /\ num <= youngest /\ (fromIEW.include => q > num)
    BY <2>2, NAssumption, SMTT(60) DEF TypeOK
  <2>4. stage[q] \in Executed \/ (IsLoad(q) /\ q > num)
    BY <2>2, <2>3, Zenon DEF PendInv, SignalInv
  <2> HIDE DEF num, q
  <2>5. \E S : Squash(S, q)
    BY <2>1, Zenon DEF BeginSquash
  <2>6. youngest' = num
    BY <2>1, Zenon DEF BeginSquash
  <2> QED BY <1>17, <2>1, <2>3, <2>4, <2>5, <2>6, Zenon
<1>21. CASE CommitNoSquash
  <2>0. UNCHANGED <<toCommit, fromIEW>> /\ youngest \in Nat
    <3>1. UNCHANGED <<toCommit, fromIEW>>
      BY <1>21, Zenon DEF CommitNoSquash, buffers
    <3>2. youngest \in Nat
      BY NAssumption DEF TypeOK
    <3> QED BY <3>1, <3>2, Zenon
  <2>1. ASSUME NEW q \in 0..N, q # 0 => q \in ResolvedRedirects /\ q > youngest,
               commitStatus = "Running" \/ squashIt = 0,
               pendBr' = pendBr \ {q}, pendMO' = pendMO \ {q},
               canCommit' = canCommit \cup ({q} \cap InROB),
               UNCHANGED <<squashed, violator>>
        PROVE  PendInv'
    <3>1. \A i \in InROB : i > youngest => i \in squashed
      BY <1>2, <2>1 DEF SquashInv, InROB
    <3>2. q = 0 /\ 0 \notin InROB
      BY <1>2, <2>1, <3>1, Zenon DEF ResolvedRedirects, InROB
    <3>3. UNCHANGED canCommit
      BY <2>1, <3>2, Zenon
    <3>4. \A j \in canCommit' \ squashed' : stage'[j] \in Executed
      BY <1>0, <2>1, <3>1, <3>3, Zenon DEF PendInv, StageFacts, TypeOK
    <3>5. \A j \in pendBr' : stage'[j] \in Executed
      BY <1>6, <2>1, Zenon
    <3>6. (pendBr' \cup pendMO') \cap (squashed' \cup canCommit') = {} /\ \A j \in pendMO' : IsLoad(j)
      BY <2>1, <3>3, Zenon DEF PendInv
    <3> QED BY <1>1, <1>3, <1>4, <1>7, <2>0, <2>1, <3>4, <3>5, <3>6, Zenon DEF PendInv
  <2>2. ASSUME NEW q \in 0..N, q # 0 => q \in ResolvedRedirects /\ q > youngest,
               Squash(Ongoing, q), UNCHANGED youngest
        PROVE  PendInv'
    <3>1. q \in InROB => stage[q] \in Executed \/ (IsLoad(q) /\ q > youngest')
      <4>1. q \in InROB => q # 0
        BY <1>2 DEF InROB
      <4> QED BY <1>18, <2>2, <4>1, Zenon DEF PendInv
    <3> QED BY <1>17, <2>0, <2>2, <3>1
  <2> QED BY <1>21, <2>1, <2>2, NoSquashCases, Zenon
<1>22. CASE RetireSquashed \/ UNCHANGED vars
  <2>1. UNCHANGED <<squashed, canCommit, youngest, violator, fromIEW, toCommit, pendBr, pendMO>>
    BY <1>22, Zenon DEF RetireSquashed, vars, status, links, buffers, robState
  <2> QED BY <1>4, <1>8, <2>1, Zenon
<1>23. CASE EndCommit
  <2>1. /\ UNCHANGED <<squashed, youngest, violator, pendBr, pendMO, stage, prog>>
        /\ canCommit' = canCommit \cup Completed
        /\ fromIEW' = toCommit /\ toCommit' = NoSignal
    BY <1>23, Zenon DEF EndCommit, links, robState, fixed
  <2>2. SignalInv(toCommit)' /\ SignalInv(fromIEW)'
    <3>1. toCommit'.insts = {} /\ toCommit'.squash = 0
      BY <2>1, Zenon DEF NoSignal
    <3> QED BY <1>1, <2>1, <3>1, Zenon DEF SignalInv, PendInv
  <2>3. (pendBr' \cup pendMO') \cap (squashed' \cup canCommit') = {} /\ \A j \in pendMO' : IsLoad(j)
    BY <2>1, Zenon DEF PendInv, Completed
  <2>4. \A j \in canCommit' \ squashed' :
           stage'[j] \in Executed \/ (IsLoad(j) /\ j > youngest' /\ j \in InROB')
    <3>1. \A j \in Completed : stage[j] \in Executed
      BY Zenon DEF Completed, PendInv, SignalInv, Executed
    <3> QED BY <1>0, <2>1, <3>1, Zenon DEF PendInv, InROB
  <2>5. \A j \in pendBr' : stage'[j] \in Executed
    BY <1>6, <2>1, Zenon
  <2> QED BY <1>1, <1>7, <2>1, <2>2, <2>3, <2>4, <2>5, Zenon DEF PendInv
<1> QED
  BY <1>9, <1>10, <1>11, <1>12, <1>13, <1>15, <1>16, <1>19, <1>20, <1>21, <1>22, <1>23, Zenon
  DEF Next, Execute

\* An instruction whose redirect is pending never retires, in whatever order
\* violation, writeback, completion, release and squash happen.
THEOREM PendingNeverRetires == Spec => []NoPendingRetires
<1>1. Init => PendInv
  <2> SUFFICES ASSUME Init PROVE PendInv
    OBVIOUS
  <2>1. /\ pendBr = {} /\ pendMO = {} /\ canCommit = {}
        /\ \A i \in Insts : violator[i] = 0
    BY Zenon DEF Init
  <2>2. /\ toCommit.insts = {} /\ toCommit.squash = 0
        /\ fromIEW.insts = {} /\ fromIEW.squash = 0
    BY Zenon DEF Init, NoSignal
  <2>3. SignalInv(toCommit) /\ SignalInv(fromIEW)
    BY <2>2, Zenon DEF SignalInv
  <2> QED BY <2>1, <2>3, Zenon DEF PendInv
<1>2. TypeOK /\ SquashInv /\ PendInv /\ [Next]_vars => PendInv'
  BY PendInvStep, Zenon
<1>3. PendInv => NoPendingRetires
  <2>1. PendInv => (pendBr \cup pendMO) \cap canCommit = {}
    BY Zenon DEF PendInv
  <2>2. HeadReady => Head \in canCommit
    BY Zenon DEF HeadReady, Head
  <2> QED BY <2>1, <2>2, Zenon DEF NoPendingRetires
<1> QED BY <1>1, <1>2, <1>3, TypeCorrect, SquashInvHolds, PTL DEF Spec
=============================================================================
