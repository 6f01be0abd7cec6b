-------------------------- MODULE DolmaPipe_proofs --------------------------
(***************************************************************************)
(* Where instructions, pending redirects and messages can be: the          *)
(* invariants of the pipeline on which the proofs about retirement rest.   *)
(* For every number of instructions, every program and every               *)
(* configuration, provided that the L1 does not refuse requests (with a    *)
(* blocking L1 a redirect can be lost).                                    *)
(***************************************************************************)
EXTENDS Dolma_proofs

-----------------------------------------------------------------------------
(***************************************************************************)
(* The inductive invariant.                                                *)
(***************************************************************************)

\* Instructions enter the ROB and leave it in program order.
InOrder ==
    /\ phase \in {"rename", "retire"} => \A i \in Insts : stage[i] # "renamed"
    /\ \A i, j \in Insts : j < i =>
          /\ stage[i] # "none" => stage[j] \notin {"none", "renamed"}
          /\ stage[i] = "retired" => stage[j] = "retired"

\* The squash that IEW has still to see is the last one of commit.
LastSquash == toIEW # -1 => toIEW = youngest /\ phase \in {"retire", "rename"}

\* A squashed instruction has been in the ROB and has no status left.
SquashedClean ==
    /\ \A i \in squashed : stage[i] \notin {"none", "renamed"}
    /\ squashed \cap (ctlInd \cup ctlRes \cup dataInd \cup dataRes \cup stalled \cup effValid) = {}

\* Where an instruction is, from its status: only branches induce control
\* restrictions, what is stalled waits in the queue, and memory operations have
\* a valid address once they have executed.
StatusInv ==
    /\ \A i \in ctlInd : Kind(i) = "branch"
    /\ \A i \in stalled : stage[i] = "queued"
    /\ \A i \in effValid : /\ IsLoad(i) \/ IsStore(i)
                           /\ stage[i] \notin {"none", "renamed", "rob"}
                           /\ IsStore(i) => stage[i] \in Executed
    /\ \A i \in Insts \ squashed :
          /\ stage[i] \in Executed /\ (IsLoad(i) \/ IsStore(i)) => i \in effValid
          /\ stage[i] = "access" => IsLoad(i) /\ i \in effValid

\* A load whose address is known and that waits to execute again has all its
\* operands, and it was made safe before it left the stall.
ReplaySafe ==
    /\ \A i \in Insts \ squashed :
          stage[i] = "issued" \/ (stage[i] = "queued" /\ i \in effValid) =>
             \A s \in prog[i].srcs : Ready(s)
    /\ \A i \in effValid \ stalled : stage[i] \in {"queued", "issued"} => ~Restricted(i)

\* Pending redirects belong to entries of the ROB; the violator of a store is a
\* younger entry.
PendROB ==
    /\ pendBr \cup pendMO \subseteq InROB /\ pendMO \subseteq effValid
    /\ \A i \in pendBr : ~IsLoad(i) /\ ~IsStore(i)
    /\ \A s \in Insts : violator[s] # 0 =>
          /\ violator[s] > s /\ violator[s] \in effValid
          /\ s \in InROB => violator[s] \in InROB

\* A message of IEW squashes the instruction it names if that is a load.
Includes(b) == b.squash # 0 => b.include = IsLoad(b.squash)

\* The instruction whose execution signalled a redirect in this cycle is in the
\* ROB, not younger than the one to be redirected, and may not commit yet.
SignalROB ==
    toCommit.squash # 0 =>
        /\ phase \in {"execute", "writeback", "issue", "retire"}
        /\ \/ phase = "retire" /\ commitStatus = "ROBSquashing"
           \/ \E x \in InROB : x <= toCommit.squash /\ x \notin canCommit /\ stage[x] \in Executed

\* The invariants that need no cover.
PipeInv ==
    /\ TypeOK /\ SquashInv /\ PendInv /\ InOrder /\ LastSquash /\ SquashedClean
    /\ StatusInv /\ ReplaySafe /\ PendROB /\ Includes(toCommit) /\ Includes(fromIEW) /\ SignalROB

-----------------------------------------------------------------------------
(***************************************************************************)
(* What the steps do.                                                      *)
(***************************************************************************)

\* Instruction numbers are numbers.
LEMMA Numbers ==
    /\ Insts \subseteq Nat \ {0} /\ Insts \subseteq 0..N /\ 0 \in 0..N
    /\ \A x \in 0..N : x \in Nat /\ (x # 0 => x \in Insts)
BY NAssumption DEF Insts

\* A decision of commit either resumes, taking what rename has sent and leaving
\* every redirect pending, or squashes entries S above the new youngestSeqNum.
\* A redirect q that ends here belongs to an instruction that is squashed, or to
\* the youngest one left, which is no load.  A redirect signalled by IEW for an
\* instruction that stays is the one acted on, or it is pending.
Resume ==
    LET new == {i \in Insts : stage[i] = "renamed"} IN
    /\ commitStatus' = "Running" /\ (commitStatus = "Running" \/ squashIt = 0)
    /\ stage' = [i \in Insts |-> IF i \in new THEN "rob" ELSE stage[i]]
    /\ ctlRes' = IF ~MemOnly /\ InROB \cap ctlInd # {} THEN ctlRes \cup new ELSE ctlRes
    /\ ctlInd' = ctlInd \cup {i \in new : Kind(i) = "branch"}
    /\ youngest' = Max(new \cup {youngest})
    /\ UNCHANGED <<pendBr, pendMO, canCommit, squashed, dataInd, dataRes, stalled, effValid, links,
                   readFrom, wrong, redirected, toIEW>>
    /\ fromIEW.squash # 0 /\ fromIEW.squash <= youngest => fromIEW.squash \in pendBr \cup pendMO

SquashStep(S, q) ==
    /\ Squash(S, q) /\ S \subseteq InROB /\ \A j \in S : j > youngest'
    /\ commitStatus' = "ROBSquashing" /\ youngest' <= youngest
    /\ \/ toIEW' = youngest'
       \/ UNCHANGED <<toIEW, youngest>>
    /\ \/ q = 0 /\ UNCHANGED redirected
       \/ q > youngest' /\ UNCHANGED redirected
       \/ q = youngest' /\ q \in Insts /\ ~IsLoad(q) /\ redirected' = redirected \cup {q}
    /\ fromIEW.squash # 0 /\ fromIEW.squash <= youngest' =>
          fromIEW.squash = q \/ fromIEW.squash \in (pendBr \cup pendMO) \ (S \cup {q})

\* Commit decides once per cycle.
LEMMA CommitEffect ==
    ASSUME PipeInv, CommitPendingRedirect \/ CommitSignalledSquash \/ CommitNoSquash
    PROVE  /\ phase \in {"writeback", "issue"} /\ phase' = "retire" /\ cursor' = 0
           /\ UNCHANGED <<fixed, toCommit, fromIEW>>
           /\ Resume \/ \E S : \E q \in 0..N : SquashStep(S, q)
<1> USE DEF PipeInv
<1>0. TypeOK /\ TypeOK'
  <2>1. [Next]_vars
    BY DEF Next
  <2> QED BY <2>1, TypeStep
<1>1. /\ phase \in {"writeback", "issue"} /\ phase' = "retire" /\ cursor' = 0
      /\ UNCHANGED <<fixed, toCommit, fromIEW>>
  BY Zenon DEF CommitPendingRedirect, CommitSignalledSquash, CommitNoSquash, CanIssue, Goto, buffers
<1>2. /\ youngest \in Nat /\ squashNum \in Nat /\ fromIEW.squash \in 0..N /\ fromIEW.squash \in Nat
      /\ fromIEW.include \in BOOLEAN
  BY <1>0, Numbers, Zenon DEF TypeOK
<1>3. Ongoing \subseteq InROB /\ \A j \in Ongoing : j > youngest
  <2>1. CASE commitStatus = "ROBSquashing" /\ squashIt # 0
    <3>1. Ongoing \subseteq Squashable(squashNum, squashIt) /\ squashNum = youngest
      BY <2>1 DEF Ongoing, Marked, SquashInv
    <3> QED BY <3>1 DEF Squashable
  <2>2. CASE ~(commitStatus = "ROBSquashing" /\ squashIt # 0)
    BY <2>2 DEF Ongoing
  <2> QED BY <2>1, <2>2
<1>4. ASSUME NEW num \in Nat, NEW q \in Insts, BeginSquash(num, q), num <= youngest,
             num = q \/ num < q, num = q => ~IsLoad(q),
             fromIEW.squash # 0 /\ fromIEW.squash <= num => fromIEW.squash = q
      PROVE  \E S : SquashStep(S, q)
  <2> DEFINE M == Marked(num, Max(InROB))
  <2>1. M \subseteq InROB /\ \A j \in M : j > num
    BY Zenon DEF Marked, Squashable
  <2>2. /\ Squash(Ongoing \cup M, q)
        /\ commitStatus' = "ROBSquashing" /\ youngest' = num /\ toIEW' = num
        /\ redirected' = IF num = q THEN redirected \cup {q} ELSE redirected
    BY <1>4, ZenonT(60) DEF BeginSquash
  <2> HIDE DEF M
  <2>3. \A j \in Ongoing \cup M : j > num
    BY <1>2, <1>3, <1>4, <2>1, Numbers DEF InROB
  <2>4. q \in Nat /\ q # 0
    BY Numbers
  <2>5. Ongoing \cup M \subseteq InROB
    BY <1>3, <2>1
  <2>6. \/ q > youngest' /\ UNCHANGED redirected
        \/ q = youngest' /\ q \in Insts /\ ~IsLoad(q) /\ redirected' = redirected \cup {q}
    BY <1>4, <2>2, <2>4, Zenon
  <2>7. /\ \A j \in Ongoing \cup M : j > youngest'
        /\ commitStatus' = "ROBSquashing" /\ youngest' <= youngest /\ toIEW' = youngest'
        /\ fromIEW.squash # 0 /\ fromIEW.squash <= youngest' => fromIEW.squash = q
    BY <1>4, <2>2, <2>3, Zenon
  <2>8. SquashStep(Ongoing \cup M, q)
    BY <2>2, <2>5, <2>6, <2>7, ZenonT(60) DEF SquashStep
  <2> QED BY <2>8
<1>5. CASE CommitPendingRedirect
  <2> DEFINE q == Squasher
             num == IF q \in pendMO THEN q - 1 ELSE q
  <2>1. /\ BeginSquash(num, q) /\ q \in Insts /\ q \in ResolvedRedirects /\ q <= youngest
        /\ fromIEW.squash = 0 \/ q <= fromIEW.squash
    BY <1>5, SquasherType, Zenon DEF CommitPendingRedirect, FireResolved
  <2>2. q \notin pendMO => q \in pendBr
    BY <2>1 DEF ResolvedRedirects
  <2>3. q \notin pendMO => ~IsLoad(q)
    BY <2>2 DEF PendROB
  <2>4. q \in Nat /\ q # 0
    BY <2>1, Numbers
  <2> HIDE DEF q
  <2>5. num \in Nat /\ num <= youngest /\ (num = q \/ num < q) /\ (num = q => ~IsLoad(q))
    BY <1>2, <2>1, <2>3, <2>4
  <2>6. fromIEW.squash # 0 /\ fromIEW.squash <= num => fromIEW.squash = q
    BY <1>2, <2>1, <2>4, <2>5
  <2> HIDE DEF num
  <2>7. \E S : SquashStep(S, q)
    BY <1>4, <2>1, <2>5, <2>6, Zenon
  <2> QED BY <1>1, <2>1, <2>7, Numbers, Zenon
<1>6. CASE CommitSignalledSquash
  <2> DEFINE q == fromIEW.squash
             num == IF fromIEW.include THEN q - 1 ELSE q
  <2>1. BeginSquash(num, q) /\ q # 0 /\ q <= youngest
    BY <1>6, Zenon DEF CommitSignalledSquash, Signalled
  <2>2. q \in Insts /\ q \in Nat
    BY <1>2, <2>1, Numbers, Zenon
  <2>3. fromIEW.include = IsLoad(q)
    BY <2>1 DEF Includes
  <2> HIDE DEF q
  <2>4. num \in Nat /\ num <= youngest /\ (num = q \/ num < q)
    BY <1>2, <2>1, <2>2
  <2>5. num = q => ~IsLoad(q)
    <3>1. CASE fromIEW.include
      BY <2>2, <3>1
    <3>2. CASE ~fromIEW.include
      BY <2>3, <3>2
    <3> QED BY <3>1, <3>2
  <2> HIDE DEF num
  <2>6. \E S : SquashStep(S, q)
    BY <1>4, <2>1, <2>2, <2>4, <2>5, Zenon DEF q
  <2> QED BY <1>1, <2>2, <2>6, Numbers, Zenon
<1>7. CASE CommitNoSquash
  <2> DEFINE q == IF Signalled THEN 0 ELSE Squasher
             new == {i \in Insts : stage[i] = "renamed"}
  <2>1. ~FireResolved /\ (Signalled => MustWait(fromIEW.squash)) /\ UNCHANGED <<redirected, toIEW>>
    BY <1>7, Zenon DEF CommitNoSquash, buffers
  <2>2. q \in 0..N /\ (q # 0 => q \in ResolvedRedirects /\ q > youngest)
    <3>1. Squasher \in Nat /\ (Squasher # 0 => Squasher \in ResolvedRedirects)
      BY SquasherType, Numbers
    <3> QED BY <1>2, <2>1, <3>1, SquasherType, Numbers, SMTT(60) DEF FireResolved, Signalled
  <2>3. fromIEW.squash # 0 /\ fromIEW.squash <= youngest =>
           /\ fromIEW.squash \in (pendBr \cup pendMO) \ Ongoing /\ q = 0
    BY <2>1, Zenon DEF Signalled, MustWait
  <2>4. CASE commitStatus = "Running" \/ squashIt = 0
    <3>1. q = 0
      <4>1. ASSUME q # 0 PROVE FALSE
        <5>1. q \in InROB /\ q \notin squashed /\ q > youngest
          BY <2>2, <4>1 DEF ResolvedRedirects
        <5> HIDE DEF q
        <5>2. squashIt = 0 => ~(q <= squashIt)
          BY <5>1, Numbers DEF InROB
        <5> QED BY <2>4, <5>1, <5>2 DEF SquashInv
      <4> QED BY <4>1
    <3>2. 0 \notin Insts
      BY Numbers
    <3>3. /\ commitStatus' = "Running"
          /\ stage' = [i \in Insts |-> IF i \in new THEN "rob" ELSE stage[i]]
          /\ ctlRes' = IF ~MemOnly /\ InROB \cap (ctlInd \ {q}) # {} THEN ctlRes \cup new ELSE ctlRes
          /\ ctlInd' = (ctlInd \ {q}) \cup {i \in new : Kind(i) = "branch"}
          /\ pendBr' = pendBr \ {q} /\ pendMO' = pendMO \ {q}
          /\ canCommit' = canCommit \cup ({q} \cap InROB)
          /\ youngest' = Max(new \cup {youngest})
          /\ UNCHANGED <<squashed, dataInd, dataRes, stalled, effValid, links, readFrom, wrong>>
      BY <1>7, <2>4, Zenon DEF CommitNoSquash
    <3> HIDE DEF q, new
    <3>4. ctlInd \ {q} = ctlInd /\ pendBr \ {q} = pendBr /\ pendMO \ {q} = pendMO /\ {q} \cap InROB = {}
      <4>1. q \notin ctlInd /\ q \notin pendBr /\ q \notin pendMO /\ q \notin InROB
        BY <1>0, <3>1, <3>2, Zenon DEF TypeOK, InROB
      <4> QED BY <4>1
    <3>5. /\ ctlRes' = IF ~MemOnly /\ InROB \cap ctlInd # {} THEN ctlRes \cup new ELSE ctlRes
          /\ ctlInd' = ctlInd \cup {i \in new : Kind(i) = "branch"}
          /\ pendBr' = pendBr /\ pendMO' = pendMO /\ canCommit' = canCommit
      BY <3>3, <3>4, Zenon
    <3>6. fromIEW.squash # 0 /\ fromIEW.squash <= youngest => fromIEW.squash \in pendBr \cup pendMO
      BY <2>3, Zenon
    <3>7. Resume
      BY <2>1, <2>4, <3>3, <3>5, <3>6, Zenon DEF Resume, new
    <3> QED BY <1>1, <3>7
  <2>5. CASE ~(commitStatus = "Running" \/ squashIt = 0)
    <3>1. /\ Squash(Ongoing, q) /\ UNCHANGED <<commitStatus, youngest>>
      BY <1>7, <2>5, Zenon DEF CommitNoSquash
    <3>2. commitStatus' = "ROBSquashing" /\ youngest' = youngest /\ youngest' <= youngest
      <4>1. commitStatus \in {"Running", "ROBSquashing"} /\ youngest \in 0..N
        BY <1>0, Zenon DEF TypeOK
      <4>2. youngest <= youngest
        BY <4>1, Numbers
      <4> QED BY <2>5, <3>1, <4>1, <4>2
    <3>3. fromIEW.squash # 0 /\ fromIEW.squash <= youngest =>
             fromIEW.squash = q \/ fromIEW.squash \in (pendBr \cup pendMO) \ (Ongoing \cup {q})
      BY <2>3, Zenon
    <3>4. q = 0 \/ q > youngest
      BY <2>2, Zenon
    <3> HIDE DEF q
    <3>5. SquashStep(Ongoing, q)
      BY <1>3, <2>1, <3>1, <3>2, <3>3, <3>4, Zenon DEF SquashStep
    <3> QED BY <1>1, <2>2, <3>5, Zenon
  <2> QED BY <2>4, <2>5, Zenon
<1> QED BY <1>5, <1>6, <1>7, Zenon

\* The head that leaves the ROB has executed unless it is squashed.
LEMMA RetireFacts ==
    ASSUME PipeInv, HeadReady
    PROVE  /\ Head \in InROB /\ Head \in Insts /\ \A j \in InROB : Head <= j
           /\ Head \in canCommit /\ phase = "retire" /\ commitStatus = "Running"
           /\ Head \notin squashed =>
                /\ Head <= youngest /\ stage[Head] \in Executed /\ Head \notin pendBr \cup pendMO
<1>1. Head \in InROB /\ Head \in Insts /\ Head \in canCommit /\ phase = "retire" /\ commitStatus = "Running"
  BY HeadType DEF HeadReady, Head
<1>2. \A j \in InROB : Head <= j
  <2>1. InROB \in SUBSET Nat
    BY Numbers, Zenon DEF InROB
  <2> QED BY <1>1, <2>1, MinProperty DEF Head
<1>3. ASSUME Head \notin squashed
      PROVE  Head <= youngest /\ stage[Head] \in Executed /\ Head \notin pendBr \cup pendMO
  <2>1. Head \in Nat /\ youngest \in Nat
    BY <1>1, Numbers, Zenon DEF PipeInv, TypeOK
  <2>2. ~(Head > youngest)
    BY <1>1, <1>3 DEF PipeInv, SquashInv
  <2>3. stage[Head] \in Executed
    BY <1>1, <1>3, <2>2, Zenon DEF PipeInv, PendInv
  <2>4. Head \notin pendBr \cup pendMO
    BY <1>1, Zenon DEF PipeInv, PendInv
  <2> QED BY <2>1, <2>2, <2>3, <2>4
<1> QED BY <1>1, <1>2, <1>3

\* What a step of the front end or the back end before commit does to stages.
LEMMA FrontStage ==
    ASSUME TypeOK, FrontStep
    PROVE  /\ phase' \in {"dispatch", "execute", "writeback", "issue"}
           /\ \/ UNCHANGED stage
              \/ \E i \in Insts : Rename(i) /\ stage' = [stage EXCEPT ![i] = "renamed"]
              \/ \E i \in InROB : \E x \in Stages \ {"none", "renamed", "retired"} :
                    stage' = [stage EXCEPT ![i] = x]
<1>1. phase' \in {"dispatch", "execute", "writeback", "issue"}
  BY ZenonT(60) DEF FrontStep, Rename, Dispatch, Execute, ExecuteSquashed, ExecuteInst, ExecuteTLBMiss,
         ExecuteLoad, ExecuteLoadMiss, ExecuteLoadBlocked, ExecuteStore, Writeback, Issue,
         IEWSquash, SafeTick, NextToExecute, Goto
<1>2. ASSUME NEW i \in Insts, Dispatch(i) \/ Execute(i) \/ Writeback(i) \/ Issue(i)
      PROVE  /\ i \in InROB
             /\ \E x \in Stages \ {"none", "renamed", "retired"} : stage' = [stage EXCEPT ![i] = x]
  <2> USE DEF Stages, InROB
  <2>1. CASE Dispatch(i)
    BY <2>1, Zenon DEF Dispatch
  <2>2. CASE Execute(i)
    BY <2>2, Zenon DEF Execute, NextToExecute, Stall, ExecuteSquashed, ExecuteInst, ExecuteTLBMiss,
                ExecuteLoad, ExecuteLoadMiss, ExecuteLoadBlocked, ExecuteStore
  <2>3. CASE Writeback(i)
    BY <2>3, Zenon DEF Writeback
  <2>4. CASE Issue(i)
    BY <2>4, Zenon DEF Issue, Stall
  <2> QED BY <1>2, <2>1, <2>2, <2>3, <2>4, Zenon
<1>3. ASSUME NEW i \in Insts, Rename(i) PROVE stage' = [stage EXCEPT ![i] = "renamed"]
  BY <1>3, Zenon DEF Rename
<1>4. CASE IEWSquash \/ SafeTick
  BY <1>1, <1>4, Zenon DEF IEWSquash, SafeTick
<1> QED BY <1>1, <1>2, <1>3, <1>4, Zenon DEF FrontStep

-----------------------------------------------------------------------------
(***************************************************************************)
(* The invariants that need no cover are kept.                             *)
(***************************************************************************)

\* The kinds of step.
LEMMA StepCases ==
    ASSUME [Next]_vars
    PROVE  \/ FrontStep
           \/ CommitPendingRedirect \/ CommitSignalledSquash \/ CommitNoSquash
           \/ RetireSquashed \/ RetireHead \/ EndCommit \/ UNCHANGED vars
BY DEF Next, FrontStep

\* Instructions stay in program order.
LEMMA InOrderStep ==
    ASSUME PipeInv, [Next]_vars
    PROVE  InOrder'
<1>0. TypeOK /\ TypeOK' /\ InOrder
  BY TypeStep DEF PipeInv
<1> DEFINE Same(k) == /\ stage'[k] = "none" <=> stage[k] = "none"
                      /\ stage'[k] = "renamed" <=> stage[k] = "renamed"
                      /\ stage'[k] = "retired" <=> stage[k] = "retired"
<1>1. ASSUME \A k \in Insts : Same(k),
             phase' \in {"rename", "retire"} => phase \in {"rename", "retire"}
      PROVE  InOrder'
  BY <1>0, <1>1, Zenon DEF InOrder
<1>2. CASE FrontStep
  <2>0. phase' \notin {"rename", "retire"}
    BY <1>0, <1>2, FrontStage
  <2>1. CASE UNCHANGED stage
    BY <1>1, <2>0, <2>1
  <2>2. ASSUME NEW i \in Insts, Rename(i), stage' = [stage EXCEPT ![i] = "renamed"]
        PROVE  InOrder'
    <3>1. stage[i] = "none" /\ phase = "rename" /\ \A j \in 1..(i-1) : stage[j] # "none"
      BY <2>2, Zenon DEF Rename
    <3>2. \A j \in Insts : j < i => stage[j] \notin {"none", "renamed"}
      BY <1>0, <3>1, Numbers DEF InOrder, Insts
    <3>3. \A k \in Insts : i < k => stage[k] = "none"
      BY <1>0, <3>1, Zenon DEF InOrder
    <3>4. \A k \in Insts : stage'[k] = IF k = i THEN "renamed" ELSE stage[k]
      BY <1>0, <2>2, Zenon DEF TypeOK
    <3>5. ASSUME NEW k \in Insts, NEW j \in Insts, j < k
          PROVE  /\ stage'[k] # "none" => stage'[j] \notin {"none", "renamed"}
                 /\ stage'[k] = "retired" => stage'[j] = "retired"
      <4>1. k # j
        BY <3>5, Numbers
      <4> QED BY <1>0, <3>1, <3>2, <3>3, <3>4, <3>5, <4>1 DEF InOrder
    <3> QED BY <2>0, <3>5 DEF InOrder
  <2>3. ASSUME NEW i \in InROB, NEW x \in Stages \ {"none", "renamed", "retired"},
               stage' = [stage EXCEPT ![i] = x]
        PROVE  InOrder'
    <3>1. \A k \in Insts : Same(k)
      BY <1>0, <2>3, Zenon DEF InROB, TypeOK
    <3> HIDE DEF Same
    <3> QED BY <1>1, <2>0, <3>1
  <2> QED BY <1>0, <1>2, <2>1, <2>2, <2>3, FrontStage
<1>3. CASE CommitPendingRedirect \/ CommitSignalledSquash \/ CommitNoSquash
  <2>1. CASE Resume
    <3>1. \A k \in Insts : stage'[k] = IF stage[k] = "renamed" THEN "rob" ELSE stage[k]
      BY <1>0, <2>1, Zenon DEF Resume, TypeOK
    <3> QED BY <1>0, <3>1 DEF InOrder
  <2>2. ASSUME NEW S, NEW q, SquashStep(S, q) PROVE InOrder'
    <3>1. \A k \in Insts : stage'[k] = IF stage[k] = "renamed" THEN "none" ELSE stage[k]
      BY <1>0, <2>2, Zenon DEF SquashStep, Squash, TypeOK
    <3> QED BY <1>0, <3>1 DEF InOrder
  <2> QED BY <1>3, <2>1, <2>2, CommitEffect
<1>4. CASE RetireSquashed \/ RetireHead
  <2>1. /\ HeadReady /\ stage' = [stage EXCEPT ![Head] = "retired"] /\ phase' = phase
    BY <1>4, Zenon DEF RetireSquashed, RetireHead, HeadReady, Goto
  <2> DEFINE h == Head
  <2>2. h \in InROB /\ h \in Insts /\ \A j \in InROB : h <= j
    BY <2>1, RetireFacts
  <2>3. \A k \in Insts : stage'[k] = IF k = h THEN "retired" ELSE stage[k]
    BY <1>0, <2>1, Zenon DEF TypeOK
  <2> HIDE DEF h
  <2>4. stage[h] \notin {"none", "renamed", "retired"}
    BY <2>2 DEF InROB
  <2>5. ASSUME NEW j \in Insts, j < h PROVE stage[j] = "retired"
    <3>1. stage[j] \notin {"none", "renamed"}
      BY <1>0, <2>2, <2>4, <2>5 DEF InOrder
    <3>2. j \notin InROB
      BY <2>2, <2>5, Numbers
    <3> QED BY <3>1, <3>2 DEF InROB
  <2> QED BY <1>0, <2>1, <2>2, <2>3, <2>4, <2>5 DEF InOrder
<1>5. CASE EndCommit \/ UNCHANGED vars
  <2>1. UNCHANGED stage /\ (UNCHANGED phase \/ phase = "retire")
    BY <1>5, Zenon DEF EndCommit, vars
  <2> QED BY <1>0, <2>1, Zenon DEF InOrder
<1> QED BY <1>2, <1>3, <1>4, <1>5, StepCases

\* The squash IEW has still to see stays the last one.
LEMMA LastSquashStep ==
    ASSUME PipeInv, [Next]_vars
    PROVE  LastSquash'
<1>0. TypeOK /\ LastSquash
  BY DEF PipeInv
<1>1. CASE FrontStep
  <2>1. toIEW' = -1
    <3>1. CASE IEWSquash
      BY <3>1, Zenon DEF IEWSquash
    <3>2. CASE SafeTick
      BY <1>0, <3>2, Zenon DEF SafeTick, CanExecute, LastSquash, buffers
    <3>3. ASSUME NEW i \in Insts, Rename(i) \/ Dispatch(i) \/ Writeback(i) \/ Issue(i) PROVE toIEW' = -1
      BY <1>0, <3>3, Zenon DEF Rename, Dispatch, Writeback, Issue, CanIssue, LastSquash, buffers
    <3>4. ASSUME NEW i \in Insts, Execute(i) PROVE toIEW' = -1
      <4>1. CanExecute /\ UNCHANGED toIEW
        BY <3>4, Zenon DEF Execute, NextToExecute, ExecuteSquashed, ExecuteInst, ExecuteTLBMiss,
                ExecuteLoad, ExecuteLoadMiss, ExecuteLoadBlocked, ExecuteStore, buffers
      <4> QED BY <1>0, <4>1 DEF CanExecute, LastSquash
    <3> QED BY <1>1, <3>1, <3>2, <3>3, <3>4, Zenon DEF FrontStep
  <2> QED BY <2>1 DEF LastSquash
<1>2. CASE CommitPendingRedirect \/ CommitSignalledSquash \/ CommitNoSquash
  <2>1. toIEW = -1 /\ phase' = "retire"
    BY <1>0, <1>2, CommitEffect DEF LastSquash
  <2>2. toIEW' = toIEW \/ toIEW' = youngest'
    BY <1>2, CommitEffect, Zenon DEF Resume, SquashStep
  <2> QED BY <2>1, <2>2 DEF LastSquash
<1>3. CASE RetireSquashed \/ RetireHead \/ EndCommit \/ UNCHANGED vars
  <2>1. UNCHANGED <<toIEW, youngest>> /\ (UNCHANGED phase \/ phase' \in {"retire", "rename"})
    BY <1>3, Zenon DEF RetireSquashed, RetireHead, EndCommit, vars, buffers, robState, Goto
  <2> QED BY <1>0, <2>1 DEF LastSquash
<1> QED BY <1>1, <1>2, <1>3, StepCases

\* The squashed instructions have no status left.
LEMMA SquashedCleanStep ==
    ASSUME PipeInv, [Next]_vars
    PROVE  SquashedClean'
<1>0. TypeOK /\ SquashedClean
  BY DEF PipeInv
<1> DEFINE Status == ctlInd \cup ctlRes \cup dataInd \cup dataRes \cup stalled \cup effValid
<1> DEFINE Out == {i \in Insts : stage[i] \in {"none", "renamed"}}
\* Steps that squash S, forget it, and set the status of no squashed instruction.
<1>1. ASSUME NEW S, squashed' = squashed \cup S, S \cap Out = {},
             \A i \in Insts \ Out : stage'[i] \notin {"none", "renamed"},
             \A i \in Status' : i \notin S /\ (i \in Status \/ i \notin squashed)
      PROVE  SquashedClean'
  <2>1. \A i \in squashed : i \notin Out
    BY <1>0 DEF SquashedClean
  <2>2. squashed' \subseteq Insts
    BY TypeStep, Zenon DEF PipeInv, TypeOK
  <2>3. \A i \in squashed' : stage'[i] \notin {"none", "renamed"}
    BY <1>1, <2>1, <2>2, Zenon
  <2>4. squashed' \cap Status' = {}
    BY <1>0, <1>1, Zenon DEF SquashedClean
  <2> QED BY <2>3, <2>4, Zenon DEF SquashedClean
<1>a. ASSUME squashed' = squashed,
             \A i \in Insts \ Out : stage'[i] \notin {"none", "renamed"},
             \A i \in Status' : i \in Status \/ i \notin squashed
      PROVE  SquashedClean'
  <2>1. squashed' = squashed \cup {} /\ {} \cap Out = {}
    BY <1>a, Zenon
  <2> QED BY <1>1, <1>a, <2>1, Zenon
<1>2. CASE FrontStep
  <2>1. \A i \in Insts \ Out : stage'[i] \notin {"none", "renamed"}
    <3>1. CASE UNCHANGED stage
      BY <3>1
    <3>2. ASSUME NEW i \in Insts, Rename(i), stage' = [stage EXCEPT ![i] = "renamed"]
          PROVE  \A k \in Insts \ Out : stage'[k] \notin {"none", "renamed"}
      BY <1>0, <3>2, Zenon DEF TypeOK, Rename
    <3>3. ASSUME NEW i \in InROB, NEW x \in Stages \ {"none", "renamed", "retired"},
                 stage' = [stage EXCEPT ![i] = x]
          PROVE  \A k \in Insts \ Out : stage'[k] \notin {"none", "renamed"}
      BY <1>0, <3>3, Zenon DEF TypeOK, InROB
    <3> QED BY <1>0, <1>2, <3>1, <3>2, <3>3, FrontStage, Zenon
  <2>2. ASSUME squashed' = squashed, \A i \in Status' : i \in Status \/ i \notin squashed
        PROVE  SquashedClean'
    BY <1>a, <2>1, <2>2, Zenon
  <2>3. ASSUME NEW i \in Insts, Rename(i) \/ Dispatch(i) PROVE SquashedClean'
    <3>1. i \notin squashed
      BY <1>0, <2>3, Zenon DEF Rename, Dispatch, Live, SquashedClean
    <3>2. /\ UNCHANGED <<squashed, ctlInd, ctlRes, dataInd, stalled, effValid>>
          /\ dataRes' \subseteq dataRes \cup {i}
      BY <2>3, Zenon DEF Rename, Dispatch, TaintFromReady
    <3> QED BY <2>2, <3>1, <3>2, Zenon
  <2>4. ASSUME NEW i \in Insts, Execute(i) \/ Issue(i) PROVE SquashedClean'
    <3>1. /\ UNCHANGED <<squashed, ctlRes, dataRes>> /\ ctlInd' \subseteq ctlInd
          /\ dataInd' \subseteq dataInd \cup {i} /\ stalled' \subseteq stalled \cup {i}
          /\ effValid' \subseteq effValid \cup {i}
      BY <2>4, ZenonT(60) DEF Execute, ExecuteSquashed, ExecuteInst, ExecuteTLBMiss, ExecuteLoad,
             ExecuteLoadMiss, ExecuteLoadBlocked, ExecuteStore, Issue, Stall
    <3>2. i \notin squashed \/ UNCHANGED <<dataInd, stalled, effValid>>
      BY <2>4, Zenon DEF Execute, ExecuteSquashed, ExecuteInst, ExecuteTLBMiss, ExecuteLoad,
             ExecuteLoadMiss, ExecuteLoadBlocked, ExecuteStore, Issue, Live
    <3> QED BY <2>2, <3>1, <3>2, Zenon
  <2>5. ASSUME NEW i \in Insts, Writeback(i) PROVE SquashedClean'
    <3>1. i \notin squashed
      BY <2>5, Zenon DEF Writeback, Live
    <3>2. /\ UNCHANGED <<squashed, ctlInd, ctlRes, stalled, effValid>>
          /\ dataInd' \subseteq dataInd \cup {i} /\ dataRes' \subseteq dataRes \cup Live
      BY <2>5, Zenon DEF Writeback
    <3> QED BY <2>2, <3>1, <3>2, Zenon DEF Live
  <2>6. CASE IEWSquash
    <3>1. PICK dead \in SUBSET InROB :
            squashed' = squashed \cup dead /\ Forget(dead) /\ ctlInd' = ctlInd \ dead
      BY <2>6, Zenon DEF IEWSquash
    <3>2. \A i \in Status' : i \notin dead /\ i \in Status
      BY <3>1, Zenon DEF Forget
    <3>3. dead \cap Out = {}
      BY <3>1 DEF InROB
    <3> QED BY <1>1, <2>1, <3>1, <3>2, <3>3, Zenon
  <2>7. CASE SafeTick
    <3>1. /\ UNCHANGED <<squashed, ctlInd, effValid>> /\ dataInd' \subseteq dataInd
          /\ ctlRes' \subseteq ctlRes /\ dataRes' \subseteq dataRes /\ stalled' \subseteq stalled
      BY <1>0, <2>7, UpdateSafeStatusType, Zenon DEF SafeTick, TypeOK
    <3> QED BY <2>2, <3>1, Zenon
  <2> QED BY <1>2, <2>3, <2>4, <2>5, <2>6, <2>7, Zenon DEF FrontStep
<1>3. CASE CommitPendingRedirect \/ CommitSignalledSquash \/ CommitNoSquash
  <2>1. CASE Resume
    <3> DEFINE new == {i \in Insts : stage[i] = "renamed"}
    <3>1. /\ UNCHANGED <<squashed, dataInd, dataRes, stalled, effValid>>
          /\ ctlInd' \subseteq ctlInd \cup new /\ ctlRes' \subseteq ctlRes \cup new
      BY <2>1, Zenon DEF Resume
    <3>2. \A i \in Insts : stage'[i] = IF stage[i] = "renamed" THEN "rob" ELSE stage[i]
      BY <2>1, Zenon DEF Resume
    <3>3. new \cap squashed = {}
      BY <1>0 DEF SquashedClean
    <3> HIDE DEF new
    <3>4. \A i \in Status' : i \in Status \/ i \notin squashed
      BY <3>1, <3>3, Zenon
    <3>5. \A i \in Insts \ Out : stage'[i] \notin {"none", "renamed"}
      BY <3>2, Zenon
    <3> QED BY <1>a, <3>1, <3>4, <3>5, Zenon
  <2>2. ASSUME NEW S, NEW q, SquashStep(S, q) PROVE SquashedClean'
    <3>1. /\ squashed' = squashed \cup S /\ ctlInd' \subseteq ctlInd \ S
          /\ \E T : S \subseteq T /\ Forget(T)
      BY <2>2, Zenon DEF SquashStep, Squash
    <3>2. \A i \in Insts \ Out : stage'[i] \notin {"none", "renamed"}
      BY <2>2, Zenon DEF SquashStep, Squash
    <3>3. S \cap Out = {}
      BY <2>2, Zenon DEF SquashStep, InROB
    <3>4. \A i \in Status' : i \notin S /\ i \in Status
      BY <3>1, Zenon DEF Forget
    <3> QED BY <1>1, <3>1, <3>2, <3>3, <3>4, Zenon
  <2> QED BY <1>3, <2>1, <2>2, CommitEffect
<1>4. CASE RetireSquashed \/ RetireHead \/ EndCommit \/ UNCHANGED vars
  <2>1. UNCHANGED squashed /\ (stage' = stage \/ stage' = [stage EXCEPT ![Head] = "retired"])
    BY <1>4, Zenon DEF RetireSquashed, RetireHead, EndCommit, vars, status
  <2>2. Status' \subseteq Status
    <3>1. CASE RetireHead
      <4>1. dataInd \ {Head} \in SUBSET Insts
        BY <1>0, Zenon DEF TypeOK
      <4> QED BY <1>0, <3>1, <4>1, UpdateSafeStatusType, Zenon DEF RetireHead
    <3>2. CASE RetireSquashed \/ EndCommit \/ UNCHANGED vars
      BY <3>2, Zenon DEF RetireSquashed, EndCommit, vars, status
    <3> QED BY <1>4, <3>1, <3>2, Zenon
  <2>3. \A i \in Insts \ Out : stage'[i] \notin {"none", "renamed"}
    BY <1>0, <2>1, Zenon DEF TypeOK
  <2> QED BY <1>a, <2>1, <2>2, <2>3, Zenon
<1> QED BY <1>2, <1>3, <1>4, StepCases

\* Where an instruction is still follows from its status.
LEMMA StatusInvStep ==
    ASSUME PipeInv, [Next]_vars, ~CacheBlocks
    PROVE  StatusInv'
<1>0. TypeOK /\ TypeOK' /\ StatusInv /\ SquashedClean /\ prog' = prog
  BY TypeStep, StageFactsStep, Zenon DEF PipeInv, StageFacts
<1>1. \A k : /\ IsLoad(k)' = IsLoad(k) /\ IsStore(k)' = IsStore(k) /\ Kind(k)' = Kind(k)
             /\ ~(IsLoad(k) /\ IsStore(k))
  BY <1>0, Zenon DEF IsLoad, IsStore, Kind
\* One instruction at a time.
<1> DEFINE Good(k) ==
      /\ k \in ctlInd => Kind(k) = "branch"
      /\ k \in stalled => stage[k] = "queued"
      /\ k \in effValid => /\ IsLoad(k) \/ IsStore(k)
                           /\ stage[k] \notin {"none", "renamed", "rob"}
                           /\ IsStore(k) => stage[k] \in Executed
      /\ k \notin squashed =>
            /\ stage[k] \in Executed /\ (IsLoad(k) \/ IsStore(k)) => k \in effValid
            /\ stage[k] = "access" => IsLoad(k) /\ k \in effValid
<1>2. \A k \in Insts : Good(k)
  BY <1>0, Zenon DEF StatusInv
<1>3. ASSUME \A k \in Insts : Good(k)' PROVE StatusInv'
  <2>1. ctlInd' \subseteq Insts /\ stalled' \subseteq Insts /\ effValid' \subseteq Insts
    BY <1>0, Zenon DEF TypeOK
  <2> QED BY <1>3, <2>1, Zenon DEF StatusInv
\* An instruction whose stage and status do not change.
<1>4. ASSUME NEW k \in Insts, k \in squashed => k \in squashed', k \in ctlInd' => k \in ctlInd,
             k \in stalled' => k \in stalled, stage'[k] = stage[k],
             k \in effValid' <=> k \in effValid
      PROVE  Good(k)'
  BY <1>1, <1>2, <1>4, Zenon DEF Executed
<1>5. ASSUME NEW k \in Insts, k \in squashed', k \notin stalled', k \notin ctlInd', k \notin effValid'
      PROVE  Good(k)'
  BY <1>5, Zenon
<1>6. CASE FrontStep
  <2>1. ASSUME NEW i \in Insts, Rename(i) \/ Dispatch(i) PROVE StatusInv'
    <3>1. /\ UNCHANGED <<squashed, ctlInd, stalled, effValid>> /\ stage[i] \in {"none", "rob"}
          /\ \E x \in {"renamed", "queued"} : stage' = [stage EXCEPT ![i] = x]
      BY <2>1, Zenon DEF Rename, Dispatch
    <3>2. \A k \in Insts : k # i => stage'[k] = stage[k]
      BY <1>0, <3>1, Zenon DEF TypeOK
    <3>3. stage'[i] \in {"renamed", "queued"}
      BY <1>0, <3>1, Zenon DEF TypeOK
    <3>4. i \notin stalled /\ i \notin effValid
      BY <1>2, <3>1, Zenon
    <3>5. Good(i)'
      BY <1>1, <1>2, <3>1, <3>3, <3>4, Zenon DEF Executed
    <3> HIDE DEF Good
    <3>6. \A k \in Insts : k # i => Good(k)'
      BY <1>4, <3>1, <3>2, Zenon
    <3> QED BY <1>3, <3>5, <3>6
  <2>2. ASSUME NEW i \in Insts, Execute(i) \/ Issue(i) \/ Writeback(i) PROVE StatusInv'
    <3>1. /\ UNCHANGED squashed /\ ctlInd' \subseteq ctlInd
          /\ stalled' = stalled \/ stalled' = stalled \cup {i}
          /\ effValid' = effValid \/ effValid' = effValid \cup {i}
          /\ \E x : stage' = [stage EXCEPT ![i] = x]
      BY <2>2, ZenonT(60) DEF Execute, ExecuteSquashed, ExecuteInst, ExecuteTLBMiss, ExecuteLoad,
             ExecuteLoadMiss, ExecuteLoadBlocked, ExecuteStore, Issue, Stall, Writeback
    <3>2. \A k \in Insts : k # i => stage'[k] = stage[k]
      BY <1>0, <3>1, Zenon DEF TypeOK
    <3>3. \A k \in Insts : k # i => Good(k)'
      BY <1>4, <3>1, <3>2, Zenon
    <3>4. Good(i)'
      <4>1. \A x : stage' = [stage EXCEPT ![i] = x] => stage'[i] = x
        BY <1>0, Zenon DEF TypeOK
      <4>2. CASE ExecuteSquashed(i)
        <5>1. i \in squashed' /\ UNCHANGED <<ctlInd, stalled, effValid>> /\ i \in squashed
          BY <4>2, Zenon DEF ExecuteSquashed
        <5> QED BY <1>0, <5>1, Zenon DEF SquashedClean
      <4>3. CASE ExecuteInst(i)
        <5>1. /\ stage'[i] = "done" /\ UNCHANGED <<squashed, stalled, effValid>> /\ ctlInd' \subseteq ctlInd
              /\ stage[i] = "issued" /\ ~IsLoad(i) /\ ~IsStore(i)
          BY <4>1, <4>3, Zenon DEF ExecuteInst, NextToExecute
        <5> QED BY <1>1, <1>2, <5>1, Zenon DEF Executed
      <4>4. CASE ExecuteTLBMiss(i) \/ ExecuteLoadMiss(i)
        <5>1. /\ stage'[i] = "queued" /\ UNCHANGED <<squashed, ctlInd>> /\ stage[i] = "issued"
              /\ effValid' = effValid \/ (effValid' = effValid \cup {i} /\ IsLoad(i))
          BY <4>1, <4>4, Zenon DEF ExecuteTLBMiss, ExecuteLoadMiss, Stall, NextToExecute
        <5> QED BY <1>1, <1>2, <5>1, Zenon DEF Executed
      <4>5. CASE ExecuteLoad(i)
        <5>1. /\ stage'[i] = "access" /\ UNCHANGED <<squashed, ctlInd, stalled>> /\ stage[i] = "issued"
              /\ effValid' = effValid \cup {i} /\ IsLoad(i)
          BY <4>1, <4>5, Zenon DEF ExecuteLoad, NextToExecute
        <5> QED BY <1>1, <1>2, <5>1, Zenon DEF Executed
      <4>6. CASE ExecuteStore(i)
        <5>1. /\ stage'[i] = "done" /\ UNCHANGED <<squashed, ctlInd, stalled>> /\ stage[i] = "issued"
              /\ effValid' = effValid \cup {i} /\ IsStore(i)
          BY <4>1, <4>6, Zenon DEF ExecuteStore, NextToExecute
        <5> QED BY <1>1, <1>2, <5>1, Zenon DEF Executed
      <4>7. CASE Issue(i)
        <5>1. /\ stage[i] = "queued" /\ UNCHANGED <<squashed, ctlInd, effValid>> /\ i \notin stalled
              /\ \/ stage'[i] = "queued"
                 \/ stage'[i] = "issued" /\ UNCHANGED stalled
          BY <4>1, <4>7, Zenon DEF Issue, Stall
        <5> QED BY <1>1, <1>2, <5>1, Zenon DEF Executed
      <4>8. CASE Writeback(i)
        <5>1. /\ stage[i] \in {"done", "access"} /\ UNCHANGED <<squashed, ctlInd, effValid, stalled>>
              /\ i \notin squashed /\ stage'[i] = "wb"
          BY <4>1, <4>8, Zenon DEF Writeback, Live
        <5> QED BY <1>1, <1>2, <5>1, Zenon DEF Executed
      <4>9. ~ExecuteLoadBlocked(i)
        BY Zenon DEF ExecuteLoadBlocked
      <4> QED BY <2>2, <4>2, <4>3, <4>4, <4>5, <4>6, <4>7, <4>8, <4>9, Zenon DEF Execute
    <3> HIDE DEF Good
    <3> QED BY <1>3, <3>3, <3>4
  <2>3. CASE IEWSquash
    <3>1. PICK dead : squashed' = squashed \cup dead /\ Forget(dead) /\ ctlInd' = ctlInd \ dead
      BY <2>3, Zenon DEF IEWSquash
    <3>2. UNCHANGED stage
      BY <2>3, Zenon DEF IEWSquash
    <3>3. effValid' = effValid \ dead /\ stalled' = stalled \ dead
      BY <3>1, Zenon DEF Forget
    <3>4. \A k \in Insts : k \notin dead => Good(k)'
      BY <1>4, <3>1, <3>2, <3>3, Zenon
    <3>5. \A k \in Insts : k \in dead => Good(k)'
      BY <1>5, <3>1, <3>3, Zenon
    <3> HIDE DEF Good
    <3> QED BY <1>3, <3>4, <3>5, Zenon
  <2>4. CASE SafeTick
    <3>1. UNCHANGED <<stage, squashed, ctlInd, effValid>> /\ stalled' \subseteq stalled
      BY <1>0, <2>4, UpdateSafeStatusType, Zenon DEF SafeTick, TypeOK
    <3>2. \A k \in Insts : Good(k)'
      BY <1>4, <3>1, Zenon
    <3> HIDE DEF Good
    <3> QED BY <1>3, <3>2, Zenon
  <2> QED BY <1>6, <2>1, <2>2, <2>3, <2>4, Zenon DEF FrontStep
<1>7. CASE CommitPendingRedirect \/ CommitSignalledSquash \/ CommitNoSquash
  <2>1. CASE Resume
    <3>1. /\ UNCHANGED <<squashed, stalled, effValid>>
          /\ \A k \in Insts : stage'[k] = IF stage[k] = "renamed" THEN "rob" ELSE stage[k]
          /\ \A k \in ctlInd' : k \in ctlInd \/ (stage[k] = "renamed" /\ Kind(k) = "branch")
      BY <2>1, Zenon DEF Resume
    <3>2. ASSUME NEW k \in Insts, stage[k] = "renamed" PROVE Good(k)'
      BY <1>1, <1>2, <3>1, <3>2, Zenon DEF Executed
    <3>3. \A k \in Insts : stage[k] # "renamed" => Good(k)'
      BY <1>4, <3>1, Zenon
    <3> HIDE DEF Good
    <3> QED BY <1>3, <3>2, <3>3, Zenon
  <2>2. ASSUME NEW S, NEW q, SquashStep(S, q) PROVE StatusInv'
    <3> DEFINE dropped == {i \in Insts : stage[i] = "renamed"}
    <3>1. /\ squashed' = squashed \cup S /\ ctlInd' = ctlInd \ (S \cup {q})
          /\ effValid' = effValid \ (S \cup dropped) /\ stalled' = stalled \ (S \cup dropped)
          /\ \A k \in Insts : stage'[k] = IF k \in dropped THEN "none" ELSE stage[k]
      BY <2>2, Zenon DEF SquashStep, Squash, Forget
    <3>2. ASSUME NEW k \in Insts, k \in dropped PROVE Good(k)'
      BY <1>1, <1>2, <3>1, <3>2, Zenon DEF Executed
    <3>3. \A k \in Insts : k \notin S \cup dropped => Good(k)'
      BY <1>4, <3>1, Zenon
    <3>4. \A k \in Insts : k \in S => Good(k)'
      BY <1>5, <3>1, Zenon
    <3> HIDE DEF Good, dropped
    <3> QED BY <1>3, <3>2, <3>3, <3>4, Zenon
  <2> QED BY <1>7, <2>1, <2>2, CommitEffect, Zenon
<1>8. CASE RetireSquashed \/ RetireHead
  <2>1. /\ UNCHANGED <<squashed, ctlInd, effValid>> /\ stalled' \subseteq stalled /\ HeadReady
        /\ stage' = [stage EXCEPT ![Head] = "retired"]
    <3>1. CASE RetireHead
      <4>1. dataInd \ {Head} \in SUBSET Insts
        BY <1>0, Zenon DEF TypeOK
      <4> QED BY <1>0, <3>1, <4>1, UpdateSafeStatusType, Zenon DEF RetireHead
    <3>2. CASE RetireSquashed
      BY <3>2, Zenon DEF RetireSquashed, status
    <3> QED BY <1>8, <3>1, <3>2, Zenon
  <2>2. PICK h \in Insts : h = Head /\ h \in InROB /\ (h \notin squashed => stage[h] \in Executed)
    BY <2>1, RetireFacts, Zenon
  <2>3. \A k \in Insts : stage'[k] = IF k = h THEN "retired" ELSE stage[k]
    BY <1>0, <2>1, <2>2, Zenon DEF TypeOK
  <2>4. Good(h)'
    <3>1. CASE h \in squashed
      BY <1>0, <1>5, <2>1, <2>2, <3>1, Zenon DEF SquashedClean
    <3>2. CASE h \notin squashed
      <4>1. stage[h] \in Executed /\ stage'[h] = "retired" /\ h \notin stalled'
        BY <1>2, <2>1, <2>2, <2>3, <3>2, Zenon DEF Executed
      <4> QED BY <1>1, <1>2, <2>1, <4>1, Zenon DEF Executed
    <3> QED BY <3>1, <3>2, Zenon
  <2>5. \A k \in Insts : k # h => Good(k)'
    BY <1>4, <2>1, <2>3, Zenon
  <2> HIDE DEF Good
  <2> QED BY <1>3, <2>4, <2>5
<1>9. CASE EndCommit \/ UNCHANGED vars
  <2>1. UNCHANGED <<stage, squashed, ctlInd, effValid, stalled>>
    BY <1>9, Zenon DEF EndCommit, vars, status
  <2>2. \A k \in Insts : Good(k)'
    BY <1>4, <2>1, Zenon
  <2> HIDE DEF Good
  <2> QED BY <1>3, <2>2
<1> HIDE DEF Good
<1> QED BY <1>6, <1>7, <1>8, <1>9, StepCases

\* updateSafeStatus() ends a stall only of what becomes safe, and leaves pending
\* only redirects of violators of stores in the ROB.
LEMMA TickEffect ==
    ASSUME TypeOK, NEW di \in SUBSET Insts, UpdateSafeStatus(di)
    PROVE  /\ ctlRes' \subseteq ctlRes /\ dataRes' \subseteq dataRes /\ stalled' \subseteq stalled
           /\ dataInd' \subseteq di /\ canCommit' \subseteq canCommit /\ pendMO \subseteq pendMO'
           /\ \A k \in stalled \ stalled' : ~Restricted(k)'
           /\ \A v \in pendMO' \ pendMO : v # 0 /\ \E s \in InROB : v = violator[s]
<1>1. PICK kept \in SUBSET di :
        /\ ctlRes' = CtlResKept
        /\ dataRes' = DataResKept(kept)
        /\ stalled' = stalled \ Freed(kept)
        /\ pendMO' = pendMO \cup Violators(kept)
  BY Zenon DEF UpdateSafeStatus
<1>2. \A k \in stalled \ stalled' : ~Restricted(k)'
  <2>1. ASSUME NEW k \in stalled \ stalled' PROVE k \notin ctlRes' \cup dataRes'
    BY <1>1, <2>1, Zenon DEF Freed
  <2> QED BY <2>1 DEF Restricted
<1>3. \A v \in Violators(kept) : v # 0 /\ \E s \in InROB : v = violator[s]
  BY Zenon DEF Violators, FreedColliders, Freed
<1> QED BY <1>1, <1>2, <1>3, UpdateSafeStatusType, Zenon

\* An instruction once squashed stays squashed, and a register once ready stays
\* ready.
LEMMA ReadyStays ==
    ASSUME PipeInv, [Next]_vars
    PROVE  squashed \subseteq squashed' /\ \A s \in Insts : Ready(s) => Ready(s)'
<1>1. squashed \subseteq squashed'
  <2>1. CASE FrontStep
    BY <2>1, FrontStepROB, Zenon DEF PipeInv
  <2>2. CASE CommitPendingRedirect \/ CommitSignalledSquash \/ CommitNoSquash
    BY <2>2, CommitEffect, Zenon DEF Resume, SquashStep, Squash
  <2>3. CASE RetireSquashed \/ RetireHead \/ EndCommit \/ UNCHANGED vars
    BY <2>3, Zenon DEF RetireSquashed, RetireHead, EndCommit, vars, status
  <2> QED BY <2>1, <2>2, <2>3, StepCases
<1> QED BY <1>1, StageFactsStep, Zenon DEF PipeInv, StageFacts, Ready

\* A load that waits to execute again stays safe.
LEMMA ReplaySafeStep ==
    ASSUME PipeInv, [Next]_vars, ~CacheBlocks
    PROVE  ReplaySafe'
<1>0. TypeOK /\ TypeOK' /\ ReplaySafe /\ StatusInv /\ prog' = prog
  BY TypeStep, StageFactsStep, Zenon DEF PipeInv, StageFacts
<1>1. \A k \in Insts : prog[k].srcs \subseteq Insts
  <2>1. ASSUME NEW k \in Insts PROVE prog[k].srcs \subseteq 1..(k-1)
    BY <1>0, ProgramAssumption, Zenon DEF TypeOK
  <2>2. \A k \in Insts : 1..(k-1) \subseteq Insts
    BY NAssumption DEF Insts
  <2> QED BY <2>1, <2>2, Zenon
<1>2. squashed \subseteq squashed' /\ \A s \in Insts : Ready(s) => Ready(s)'
  BY ReadyStays, Zenon
<1> DEFINE Waits(k) == stage[k] = "issued" \/ (stage[k] = "queued" /\ k \in effValid)
           Good(k) == /\ k \notin squashed /\ Waits(k) => \A s \in prog[k].srcs : Ready(s)
                      /\ k \in effValid \ stalled /\ stage[k] \in {"queued", "issued"} => ~Restricted(k)
<1>3. \A k \in Insts : Good(k)
  BY <1>0, Zenon DEF ReplaySafe
<1>4. ASSUME \A k \in Insts : Good(k)' PROVE ReplaySafe'
  <2>1. effValid' \subseteq Insts
    BY <1>0, Zenon DEF TypeOK
  <2> QED BY <1>4, <2>1, Zenon DEF ReplaySafe
<1>5. ASSUME NEW k \in Insts, \A s \in prog[k].srcs : Ready(s)
      PROVE  \A s \in prog'[k].srcs : Ready(s)'
  BY <1>0, <1>1, <1>2, <1>5, Zenon
\* An instruction that stays where it is and is not restricted.
<1>6. ASSUME NEW k \in Insts, stage'[k] = stage[k], k \in effValid' => k \in effValid,
             Restricted(k)' => Restricted(k),
             k \in stalled \ stalled' => ~Restricted(k)'
      PROVE  Good(k)'
  <2>1. k \notin squashed' /\ Waits(k)' => \A s \in prog'[k].srcs : Ready(s)'
    BY <1>2, <1>3, <1>5, <1>6, Zenon
  <2> QED BY <1>3, <1>6, <2>1, Zenon
\* One that executes, or leaves.
<1>7. ASSUME NEW k \in Insts, stage'[k] \notin {"issued", "queued"} PROVE Good(k)'
  BY <1>7, Zenon
<1>8. ASSUME NEW k \in Insts, k \in squashed', k \notin effValid' PROVE Good(k)'
  BY <1>8, Zenon
<1>9. CASE FrontStep
  <2>1. ASSUME NEW i \in Insts, Rename(i) \/ Dispatch(i) PROVE ReplaySafe'
    <3>1. /\ UNCHANGED <<stalled, effValid, ctlRes>> /\ stage[i] \in {"none", "rob"}
          /\ dataRes' \subseteq dataRes \cup {i}
          /\ \E x \in {"renamed", "queued"} : stage' = [stage EXCEPT ![i] = x]
      BY <2>1, Zenon DEF Rename, Dispatch, TaintFromReady
    <3>2. stage'[i] \in {"renamed", "queued"} /\ \A k \in Insts : k # i => stage'[k] = stage[k]
      BY <1>0, <3>1, Zenon DEF TypeOK
    <3>3. i \notin effValid'
      BY <1>0, <3>1, Zenon DEF StatusInv
    <3>4. Good(i)'
      BY <3>2, <3>3, Zenon
    <3>5. \A k \in Insts : k # i => Good(k)'
      BY <1>6, <3>1, <3>2, Zenon DEF Restricted
    <3> HIDE DEF Good
    <3> QED BY <1>4, <3>4, <3>5
  <2>2. ASSUME NEW i \in Insts, Execute(i) \/ Issue(i) PROVE ReplaySafe'
    <3>1. /\ UNCHANGED <<squashed, ctlRes, dataRes>>
          /\ stalled' = stalled \/ stalled' = stalled \cup {i}
          /\ effValid' = effValid \/ effValid' = effValid \cup {i}
          /\ \E x : stage' = [stage EXCEPT ![i] = x]
      BY <2>2, ZenonT(60) DEF Execute, ExecuteSquashed, ExecuteInst, ExecuteTLBMiss, ExecuteLoad,
             ExecuteLoadMiss, ExecuteLoadBlocked, ExecuteStore, Issue, Stall
    <3>2. \A k \in Insts : k # i => stage'[k] = stage[k]
      BY <1>0, <3>1, Zenon DEF TypeOK
    <3>3. \A k \in Insts : k # i => Good(k)'
      BY <1>6, <3>1, <3>2, Zenon DEF Restricted
    <3>4. Good(i)'
      <4>1. \A x : stage' = [stage EXCEPT ![i] = x] => stage'[i] = x
        BY <1>0 DEF TypeOK
      <4>2. CASE ExecuteSquashed(i) \/ ExecuteInst(i) \/ ExecuteLoad(i) \/ ExecuteStore(i)
        <5>1. stage'[i] \in {"done", "access"}
          BY <4>1, <4>2, Zenon DEF ExecuteSquashed, ExecuteInst, ExecuteLoad, ExecuteStore
        <5> QED BY <5>1, Zenon
      <4>3. CASE ExecuteTLBMiss(i) \/ ExecuteLoadMiss(i)
        <5>1. /\ stage'[i] = "queued" /\ stage[i] = "issued" /\ i \in stalled' /\ i \notin squashed
          BY <4>1, <4>3, Zenon DEF ExecuteTLBMiss, ExecuteLoadMiss, Stall, NextToExecute
        <5>2. \A s \in prog'[i].srcs : Ready(s)'
          BY <1>3, <1>5, <5>1, Zenon
        <5> QED BY <5>1, <5>2, Zenon
      <4>4. CASE Issue(i)
        <5>1. /\ stage[i] = "queued" /\ UNCHANGED effValid /\ i \notin stalled
              /\ \A s \in prog[i].srcs : Ready(s)
              /\ \/ stage'[i] = "queued" /\ i \in stalled'
                 \/ stage'[i] = "issued"
          BY <4>1, <4>4, Zenon DEF Issue, Stall
        <5>2. \A s \in prog'[i].srcs : Ready(s)'
          BY <1>5, <5>1, Zenon
        <5>3. i \in effValid => ~Restricted(i)'
          BY <1>3, <3>1, <5>1, Zenon DEF Restricted
        <5> QED BY <5>1, <5>2, <5>3, Zenon
      <4>5. ~ExecuteLoadBlocked(i)
        BY DEF ExecuteLoadBlocked
      <4> QED BY <2>2, <4>2, <4>3, <4>4, <4>5, Zenon DEF Execute
    <3> HIDE DEF Good
    <3> QED BY <1>4, <3>3, <3>4
  <2>3. ASSUME NEW i \in Insts, Writeback(i) PROVE ReplaySafe'
    <3> DEFINE deps == {d \in Live : stage[d] = "queued" /\ i \in prog[d].srcs}
    <3>1. /\ UNCHANGED <<squashed, ctlRes, stalled, effValid>> /\ dataRes' \subseteq dataRes \cup deps
          /\ i \notin squashed /\ stage[i] \in {"done", "access"} /\ stage' = [stage EXCEPT ![i] = "wb"]
      BY <2>3, Zenon DEF Writeback, Live
    <3>2. stage'[i] = "wb" /\ \A k \in Insts : k # i => stage'[k] = stage[k]
      BY <1>0, <3>1, Zenon DEF TypeOK
    <3>3. ASSUME NEW k \in deps PROVE k \notin effValid /\ stage[k] = "queued" /\ k # i
      <4>1. ~Ready(i)
        BY <3>1, Zenon DEF Ready
      <4> QED BY <1>3, <3>1, <4>1, Zenon DEF Live
    <3>4. \A k \in deps : Good(k)'
      BY <3>1, <3>2, <3>3, Zenon DEF Live
    <3>5. Good(i)'
      BY <1>7, <3>2, Zenon
    <3> HIDE DEF deps
    <3>6. \A k \in Insts : k # i /\ k \notin deps => Good(k)'
      BY <1>6, <3>1, <3>2, Zenon DEF Restricted
    <3> HIDE DEF Good
    <3> QED BY <1>4, <3>4, <3>5, <3>6, Zenon
  <2>4. CASE IEWSquash
    <3>1. PICK dead : squashed' = squashed \cup dead /\ Forget(dead)
      BY <2>4, Zenon DEF IEWSquash
    <3>2. UNCHANGED stage
      BY <2>4 DEF IEWSquash
    <3>3. /\ effValid' = effValid \ dead /\ stalled' = stalled \ dead
          /\ ctlRes' = ctlRes \ dead /\ dataRes' = dataRes \ dead
      BY <3>1, Zenon DEF Forget
    <3>4. \A k \in Insts : k \notin dead => Good(k)'
      BY <1>6, <3>2, <3>3, Zenon DEF Restricted
    <3>5. \A k \in Insts : k \in dead => Good(k)'
      BY <1>8, <3>1, <3>3, Zenon
    <3> HIDE DEF Good
    <3> QED BY <1>4, <3>4, <3>5
  <2>5. CASE SafeTick
    <3>1. /\ UNCHANGED <<stage, effValid>> /\ ctlRes' \subseteq ctlRes /\ dataRes' \subseteq dataRes
          /\ \A k \in stalled \ stalled' : ~Restricted(k)'
      BY <1>0, <2>5, TickEffect, Zenon DEF SafeTick, TypeOK
    <3>2. \A k \in Insts : Good(k)'
      BY <1>6, <3>1, Zenon DEF Restricted
    <3> HIDE DEF Good
    <3> QED BY <1>4, <3>2
  <2> QED BY <1>9, <2>1, <2>2, <2>3, <2>4, <2>5, Zenon DEF FrontStep
<1>10. CASE CommitPendingRedirect \/ CommitSignalledSquash \/ CommitNoSquash
  <2> DEFINE new == {i \in Insts : stage[i] = "renamed"}
  <2>1. CASE Resume
    <3>1. /\ UNCHANGED <<stalled, effValid, dataRes>> /\ ctlRes' \subseteq ctlRes \cup new
          /\ \A k \in Insts : stage'[k] = IF k \in new THEN "rob" ELSE stage[k]
      BY <2>1, Zenon DEF Resume
    <3>2. \A k \in Insts : k \in new => Good(k)'
      BY <1>7, <3>1, Zenon
    <3> HIDE DEF new
    <3>3. \A k \in Insts : k \notin new => Good(k)'
      BY <1>6, <3>1, Zenon DEF Restricted
    <3> HIDE DEF Good
    <3> QED BY <1>4, <3>2, <3>3, Zenon
  <2>2. ASSUME NEW S, NEW q, SquashStep(S, q) PROVE ReplaySafe'
    <3>1. /\ squashed' = squashed \cup S
          /\ effValid' = effValid \ (S \cup new) /\ stalled' = stalled \ (S \cup new)
          /\ ctlRes' = ctlRes \ (S \cup new) /\ dataRes' = dataRes \ (S \cup new)
          /\ \A k \in Insts : stage'[k] = IF k \in new THEN "none" ELSE stage[k]
      BY <2>2, Zenon DEF SquashStep, Squash, Forget
    <3>2. \A k \in Insts : k \in new => Good(k)'
      BY <1>7, <3>1, Zenon
    <3> HIDE DEF new
    <3>3. \A k \in Insts : k \notin S \cup new => Good(k)'
      BY <1>6, <3>1, Zenon DEF Restricted
    <3>4. \A k \in Insts : k \in S => Good(k)'
      BY <1>8, <3>1, Zenon
    <3> HIDE DEF Good
    <3> QED BY <1>4, <3>2, <3>3, <3>4, Zenon
  <2> QED BY <1>10, <2>1, <2>2, CommitEffect
<1>11. CASE RetireSquashed \/ RetireHead
  <2>1. /\ UNCHANGED effValid /\ ctlRes' \subseteq ctlRes /\ dataRes' \subseteq dataRes
        /\ \A k \in stalled \ stalled' : ~Restricted(k)'
        /\ HeadReady /\ stage' = [stage EXCEPT ![Head] = "retired"]
    <3>1. CASE RetireHead
      <4>1. dataInd \ {Head} \in SUBSET Insts
        BY <1>0 DEF TypeOK
      <4> QED BY <1>0, <3>1, <4>1, TickEffect, Zenon DEF RetireHead
    <3>2. CASE RetireSquashed
      BY <3>2, Zenon DEF RetireSquashed, status
    <3> QED BY <1>11, <3>1, <3>2, Zenon
  <2>2. PICK h \in Insts : h = Head
    BY <2>1, RetireFacts, Zenon
  <2>3. \A k \in Insts : stage'[k] = IF k = h THEN "retired" ELSE stage[k]
    BY <1>0, <2>1, <2>2, Zenon DEF TypeOK
  <2>4. Good(h)'
    BY <1>7, <2>3, Zenon
  <2>5. \A k \in Insts : k # h => Good(k)'
    BY <1>6, <2>1, <2>3, Zenon DEF Restricted
  <2> HIDE DEF Good
  <2> QED BY <1>4, <2>4, <2>5
<1>12. CASE EndCommit \/ UNCHANGED vars
  <2>1. UNCHANGED <<stage, effValid, stalled, ctlRes, dataRes>>
    BY <1>12, Zenon DEF EndCommit, vars, status
  <2>2. \A k \in Insts : Good(k)'
    BY <1>6, <2>1, Zenon DEF Restricted
  <2> HIDE DEF Good
  <2> QED BY <1>4, <2>2
<1> HIDE DEF Good
<1> QED BY <1>9, <1>10, <1>11, <1>12, StepCases

\* The violator of a store is the oldest younger load of its block whose address
\* is known and that is not stalled.
LEMMA ViolatorProperty ==
    ASSUME TypeOK, NEW i \in Insts
    PROVE  /\ Violator(i) # 0 =>
                /\ Violator(i) \in InLSQ /\ IsLoad(Violator(i)) /\ Violator(i) > i
                /\ Violator(i) \in effValid /\ Violator(i) \in Insts
           /\ \A l \in InLSQ : /\ l > i /\ IsLoad(l) /\ l \in effValid
                               /\ l \notin stalled /\ Block(l) = Block(i)
                               => Violator(i) # 0 /\ Violator(i) <= l
<1> DEFINE L == {l \in InLSQ : /\ l > i /\ IsLoad(l) /\ l \in effValid
                               /\ l \notin stalled /\ Block(l) = Block(i)}
<1>1. L \in SUBSET Nat /\ L \subseteq Insts /\ 0 \notin L
  BY Numbers, Zenon DEF InLSQ, Live
<1>2. Violator(i) = IF L = {} THEN 0 ELSE Min(L)
  BY Zenon DEF Violator
<1>3. L # {} => Min(L) \in L /\ \A y \in L : Min(L) <= y
  <2> HIDE DEF L
  <2> QED BY <1>1, MinProperty, Zenon
<1>4. ASSUME NEW l \in L PROVE Violator(i) # 0 /\ Violator(i) <= l
  <2> HIDE DEF L
  <2> QED BY <1>1, <1>2, <1>3, <1>4, Zenon
<1>5. Violator(i) # 0 => Violator(i) \in L
  <2> HIDE DEF L
  <2> QED BY <1>2, <1>3, Zenon
<1> QED BY <1>1, <1>4, <1>5, Zenon

\* Pending redirects stay with entries of the ROB.
LEMMA PendROBStep ==
    ASSUME PipeInv, [Next]_vars
    PROVE  PendROB'
<1>0. TypeOK /\ TypeOK' /\ PendROB /\ prog' = prog
  BY TypeStep, StageFactsStep, Zenon DEF PipeInv, StageFacts
<1>1. \A k : IsLoad(k)' = IsLoad(k) /\ IsStore(k)' = IsStore(k)
  BY <1>0, Zenon DEF IsLoad, IsStore, Kind
<1>2. \A s \in Insts : violator[s] # 0 => violator[s] \in Insts
  BY <1>0, Numbers, Zenon DEF TypeOK
\* Steps that leave the ROB and the violators alone.
<1>3. ASSUME InROB \subseteq InROB', effValid \subseteq effValid', UNCHANGED violator,
             \A s \in Insts : violator[s] # 0 /\ s \in InROB' => s \in InROB,
             pendBr' \subseteq pendBr, pendMO' \subseteq pendMO
      PROVE  PendROB'
  BY <1>0, <1>1, <1>3, Zenon DEF PendROB
<1>4. CASE FrontStep
  <2>0. InROB' = InROB
    BY <1>0, <1>4, FrontStepROB
  <2>1. ASSUME NEW i \in Insts, Rename(i) \/ Dispatch(i) \/ Writeback(i) \/ Issue(i)
                 \/ ExecuteSquashed(i) \/ ExecuteTLBMiss(i) \/ ExecuteLoad(i) \/ ExecuteLoadMiss(i)
                 \/ ExecuteLoadBlocked(i)
        PROVE  PendROB'
    <3>1. /\ effValid \subseteq effValid' /\ UNCHANGED violator
          /\ pendBr' \subseteq pendBr /\ pendMO' \subseteq pendMO
      BY <2>1, ZenonT(60) DEF Rename, Dispatch, Writeback, Issue, Stall, links,
             ExecuteSquashed, ExecuteTLBMiss, ExecuteLoad, ExecuteLoadMiss, ExecuteLoadBlocked
    <3> QED BY <1>3, <2>0, <3>1, Zenon
  <2>2. ASSUME NEW i \in Insts, ExecuteInst(i) PROVE PendROB'
    <3>1. /\ UNCHANGED <<effValid, violator, pendMO>> /\ pendBr' \subseteq pendBr \cup {i}
          /\ stage[i] = "issued" /\ ~IsLoad(i) /\ ~IsStore(i)
      BY <2>2 DEF ExecuteInst, NextToExecute, links
    <3>2. i \in InROB
      BY <3>1, Zenon DEF InROB
    <3> QED BY <1>0, <1>1, <2>0, <3>1, <3>2, Zenon DEF PendROB
  <2>3. ASSUME NEW i \in Insts, ExecuteStore(i) PROVE PendROB'
    <3>1. PICK v : v = Violator(i)
      OBVIOUS
    <3>2. /\ effValid' = effValid \cup {i} /\ UNCHANGED pendBr
          /\ \/ UNCHANGED <<pendMO, violator>>
             \/ /\ v # 0 /\ (pendMO' = pendMO \/ pendMO' = pendMO \cup {v})
                /\ (violator' = violator \/ violator' = [violator EXCEPT ![i] = v])
      BY <2>3, <3>1, Zenon DEF ExecuteStore, SquashDueToMemOrder
    <3>3. v # 0 => v \in InROB /\ v > i /\ v \in effValid
      BY <1>0, <3>1, ViolatorProperty, Zenon DEF InLSQ, Live, InROB
    <3>4. \A s \in Insts : violator'[s] = violator[s] \/ (v # 0 /\ s = i /\ violator'[s] = v)
      BY <1>0, <3>2, Zenon DEF TypeOK
    <3>5. pendBr' \cup pendMO' \subseteq InROB' /\ pendMO' \subseteq effValid'
      BY <1>0, <2>0, <3>2, <3>3, Zenon DEF PendROB
    <3>6. \A s \in Insts : violator'[s] # 0 =>
             violator'[s] > s /\ violator'[s] \in effValid' /\ (s \in InROB' => violator'[s] \in InROB')
      BY <1>0, <2>0, <3>2, <3>3, <3>4, Zenon DEF PendROB
    <3> QED BY <1>0, <1>1, <3>2, <3>5, <3>6, Zenon DEF PendROB
  <2>4. CASE IEWSquash
    <3>1. PICK dead : /\ squashed' = squashed \cup dead /\ Forget(dead)
                      /\ pendBr' = pendBr \ dead /\ pendMO' = pendMO \ dead
      BY <2>4, Zenon DEF IEWSquash
    <3>2. \A s \in Insts : violator'[s] # 0 => violator'[s] = violator[s] /\ violator[s] \notin dead
      BY <3>1, Zenon DEF Forget
    <3>3. effValid' = effValid \ dead
      BY <3>1, Zenon DEF Forget
    <3> QED BY <1>0, <1>1, <2>0, <3>1, <3>2, <3>3, Zenon DEF PendROB
  <2>5. CASE SafeTick
    <3>1. /\ UNCHANGED <<pendBr, effValid, violator>>
          /\ \A v \in pendMO' \ pendMO : v # 0 /\ \E s \in InROB : v = violator[s]
      BY <1>0, <2>5, TickEffect, Zenon DEF SafeTick, TypeOK
    <3>2. pendMO' \subseteq InROB /\ pendMO' \subseteq effValid
      BY <1>0, <3>1 DEF PendROB, InROB
    <3> QED BY <1>0, <1>1, <2>0, <3>1, <3>2, Zenon DEF PendROB
  <2> QED BY <1>4, <2>1, <2>2, <2>3, <2>4, <2>5, Zenon DEF FrontStep, Execute
<1>5. CASE CommitPendingRedirect \/ CommitSignalledSquash \/ CommitNoSquash
  <2>1. CASE Resume
    <3>1. /\ UNCHANGED <<effValid, violator, pendBr, pendMO>>
          /\ \A k \in Insts : stage'[k] = IF stage[k] = "renamed" THEN "rob" ELSE stage[k]
      BY <2>1, Zenon DEF Resume, links
    <3>2. InROB \subseteq InROB' /\ \A k \in InROB' : k \in InROB \/ stage[k] = "renamed"
      BY <3>1, Zenon DEF InROB
    <3>3. ASSUME NEW s \in Insts, violator[s] # 0 PROVE stage[s] # "renamed"
      <4>1. violator[s] \in Insts /\ violator[s] > s /\ violator[s] \in effValid
        BY <1>0, <1>2, <3>3, Zenon DEF PendROB
      <4>2. stage[violator[s]] # "none"
        BY <4>1, Zenon DEF PipeInv, StatusInv
      <4> QED BY <4>1, <4>2, Numbers, Zenon DEF PipeInv, InOrder
    <3> QED BY <1>3, <3>1, <3>2, <3>3, Zenon
  <2>2. ASSUME NEW S, NEW q, SquashStep(S, q) PROVE PendROB'
    <3> DEFINE T == S \cup {i \in Insts : stage[i] = "renamed"}
    <3>1. /\ Forget(T) /\ pendBr' = pendBr \ (S \cup {q}) /\ pendMO' = pendMO \ (S \cup {q})
          /\ \A k \in Insts : stage'[k] = IF stage[k] = "renamed" THEN "none" ELSE stage[k]
      BY <2>2, Zenon DEF SquashStep, Squash
    <3>2. InROB' = InROB /\ \A k \in InROB : k \in T => k \in S
      BY <3>1, Zenon DEF InROB
    <3> HIDE DEF T
    <3>3. \A s \in Insts : violator'[s] # 0 => violator'[s] = violator[s] /\ violator[s] \notin T
      BY <3>1, Zenon DEF Forget
    <3>4. effValid' = effValid \ T
      BY <3>1, Zenon DEF Forget
    <3>5. pendMO' \subseteq effValid'
      BY <1>0, <3>1, <3>2, <3>4, Zenon DEF PendROB
    <3> QED BY <1>0, <1>1, <3>1, <3>2, <3>3, <3>4, <3>5, Zenon DEF PendROB
  <2> QED BY <1>5, <2>1, <2>2, CommitEffect
<1>6. CASE RetireSquashed \/ RetireHead
  <2>1. /\ UNCHANGED <<effValid, violator, pendBr>> /\ HeadReady
        /\ \A v \in pendMO' \ pendMO : v # 0 /\ \E s \in InROB : v = violator[s]
        /\ stage' = [stage EXCEPT ![Head] = "retired"]
    <3>1. CASE RetireHead
      <4>1. dataInd \ {Head} \in SUBSET Insts
        BY <1>0, Zenon DEF TypeOK
      <4> QED BY <1>0, <3>1, <4>1, TickEffect, Zenon DEF RetireHead
    <3>2. CASE RetireSquashed
      BY <3>2, Zenon DEF RetireSquashed, status, links
    <3> QED BY <1>6, <3>1, <3>2, Zenon
  <2>2. PICK h \in Insts : /\ h = Head /\ h \in InROB /\ \A j \in InROB : h <= j
                           /\ h \notin squashed => h \notin pendBr \cup pendMO
    BY <2>1, RetireFacts, Zenon
  <2>3. InROB' = InROB \ {h}
    BY <1>0, <2>1, <2>2, Zenon DEF TypeOK, InROB
  <2>4. h \notin pendBr \cup pendMO
    BY <2>2, Zenon DEF PipeInv, PendInv
  <2>5. ASSUME NEW s \in InROB, violator[s] # 0
        PROVE  violator[s] \in InROB' /\ violator[s] \in effValid
    <3>1. s \in Insts /\ h <= s
      BY <2>2, Zenon DEF InROB
    <3>2. violator[s] \in InROB /\ violator[s] > s /\ violator[s] \in effValid
      BY <1>0, <2>5, <3>1, Zenon DEF PendROB
    <3>3. violator[s] # h
      BY <2>2, <3>1, <3>2, Numbers DEF InROB
    <3> QED BY <2>3, <3>2, <3>3, Zenon
  <2>6. pendBr' \cup pendMO' \subseteq InROB' /\ pendMO' \subseteq effValid'
    <3>1. pendBr \cup pendMO \subseteq InROB' /\ pendMO \subseteq effValid
      BY <1>0, <2>3, <2>4, Zenon DEF PendROB
    <3> QED BY <2>1, <2>5, <3>1
  <2>7. \A s \in Insts : violator'[s] # 0 =>
           violator'[s] > s /\ violator'[s] \in effValid' /\ (s \in InROB' => violator'[s] \in InROB')
    BY <1>0, <2>1, <2>3, <2>5, Zenon DEF PendROB
  <2> QED BY <1>0, <1>1, <2>1, <2>6, <2>7, Zenon DEF PendROB
<1>7. CASE EndCommit \/ UNCHANGED vars
  <2>1. UNCHANGED <<stage, effValid, violator, pendBr, pendMO>>
    BY <1>7, Zenon DEF EndCommit, vars, status, links
  <2>2. InROB' = InROB
    BY <2>1, Zenon DEF InROB
  <2> QED BY <1>3, <2>1, <2>2, Zenon
<1> QED BY <1>4, <1>5, <1>6, <1>7, StepCases

\* What a step does to the message to commit.
LEMMA SignalEffect ==
    ASSUME PipeInv, [Next]_vars
    PROVE  \/ EndCommit
           \/ UNCHANGED <<toCommit, fromIEW>>
           \/ \E i \in Insts : /\ Writeback(i) /\ UNCHANGED fromIEW
                               /\ toCommit' = [toCommit EXCEPT !.insts = @ \cup {i}]
           \/ \E i \in Insts : \E v \in Insts :
                 /\ ExecuteInst(i) \/ ExecuteStore(i)
                 /\ UNCHANGED fromIEW /\ toCommit'.squash = v /\ toCommit'.include = IsLoad(v)
                 /\ i <= v
                 /\ toCommit.squash # 0 => v <= toCommit.squash
<1>0. TypeOK
  BY DEF PipeInv
<1>1. ASSUME NEW i \in Insts, ExecuteInst(i)
      PROVE  \/ UNCHANGED <<toCommit, fromIEW>>
             \/ /\ UNCHANGED fromIEW /\ toCommit'.squash = i /\ toCommit'.include = IsLoad(i)
                /\ i <= i
                /\ toCommit.squash # 0 => i <= toCommit.squash
  <2>1. CASE MayRedirect(i) /\ prog[i].bad
    <3>1. toCommit' = [toCommit EXCEPT !.squash = i, !.include = FALSE] /\ UNCHANGED fromIEW /\ ~IsLoad(i)
      BY <1>1, <2>1 DEF ExecuteInst
    <3>2. toCommit'.squash = i /\ toCommit'.include = FALSE
      BY <1>0, <3>1 DEF TypeOK
    <3>3. toCommit.squash # 0 => i <= toCommit.squash
      <4>1. toCommit.squash \in Nat /\ i \in Nat
        BY <1>0, Numbers, Zenon DEF TypeOK
      <4> QED BY <2>1, <4>1 DEF MayRedirect
    <3>4. i <= i /\ FALSE = IsLoad(i)
      BY <3>1, Numbers DEF IsLoad
    <3> QED BY <3>1, <3>2, <3>3, <3>4, Zenon
  <2>2. CASE ~(MayRedirect(i) /\ prog[i].bad)
    BY <1>1, <2>2 DEF ExecuteInst
  <2> QED BY <2>1, <2>2, Zenon
<1>2. ASSUME NEW i \in Insts, ExecuteStore(i)
      PROVE  \/ UNCHANGED <<toCommit, fromIEW>>
             \/ \E v \in Insts :
                  /\ UNCHANGED fromIEW /\ toCommit'.squash = v /\ toCommit'.include = IsLoad(v)
                  /\ i <= v
                  /\ toCommit.squash # 0 => v <= toCommit.squash
  <2>1. PICK v : v = Violator(i)
    OBVIOUS
  <2>2. UNCHANGED fromIEW
    BY <1>2, Zenon DEF ExecuteStore
  <2>3. CASE v # 0 /\ MayRedirect(i) /\ (toCommit.squash = 0 \/ v <= toCommit.squash)
    <3>1. toCommit' = [toCommit EXCEPT !.squash = v, !.include = TRUE]
      BY <1>2, <2>1, <2>3, Zenon DEF ExecuteStore, SquashDueToMemOrder
    <3>2. toCommit'.squash = v /\ toCommit'.include = TRUE
      BY <1>0, <3>1 DEF TypeOK
    <3>3. v \in Insts /\ IsLoad(v) /\ i <= v
      <4>1. v \in Insts /\ IsLoad(v) /\ v > i
        BY <1>0, <2>1, <2>3, ViolatorProperty, Zenon
      <4> QED BY <4>1, Numbers
    <3>4. TRUE = IsLoad(v)
      BY <3>3 DEF IsLoad
    <3> QED BY <2>2, <2>3, <3>2, <3>3, <3>4, Zenon
  <2>4. CASE ~(v # 0 /\ MayRedirect(i) /\ (toCommit.squash = 0 \/ v <= toCommit.squash))
    BY <1>2, <2>1, <2>2, <2>4, Zenon DEF ExecuteStore
  <2> QED BY <2>3, <2>4, Zenon
<1>3. ASSUME NEW i \in Insts, Rename(i) \/ Dispatch(i) \/ Issue(i) \/ ExecuteSquashed(i) \/ ExecuteTLBMiss(i)
               \/ ExecuteLoad(i) \/ ExecuteLoadMiss(i) \/ ExecuteLoadBlocked(i)
      PROVE  UNCHANGED <<toCommit, fromIEW>>
  BY <1>3, ZenonT(60) DEF Rename, Dispatch, Issue, ExecuteSquashed, ExecuteTLBMiss,
              ExecuteLoad, ExecuteLoadMiss, ExecuteLoadBlocked, buffers
<1>4. ASSUME NEW i \in Insts, Writeback(i)
      PROVE  UNCHANGED fromIEW /\ toCommit' = [toCommit EXCEPT !.insts = @ \cup {i}]
  BY <1>4 DEF Writeback
<1>5. CASE IEWSquash \/ SafeTick \/ CommitPendingRedirect \/ CommitSignalledSquash \/ CommitNoSquash
           \/ RetireSquashed \/ RetireHead \/ UNCHANGED vars
  BY <1>5, Zenon DEF IEWSquash, SafeTick, CommitPendingRedirect, CommitSignalledSquash, CommitNoSquash,
              RetireSquashed, RetireHead, vars, buffers
<1> QED BY <1>1, <1>2, <1>3, <1>4, <1>5, Zenon DEF Next, Execute

\* Messages name the instruction to be squashed exactly when it is a load.
LEMMA IncludesStep ==
    ASSUME PipeInv, [Next]_vars
    PROVE  Includes(toCommit)' /\ Includes(fromIEW)'
<1>0. TypeOK /\ Includes(toCommit) /\ Includes(fromIEW) /\ prog' = prog
  BY StageFactsStep, Zenon DEF PipeInv, StageFacts
<1>1. \A k : IsLoad(k)' = IsLoad(k)
  BY <1>0, Zenon DEF IsLoad, Kind
<1>2. CASE EndCommit
  <2>1. fromIEW' = toCommit /\ toCommit'.squash = 0
    BY <1>2, Zenon DEF EndCommit, NoSignal
  <2> QED BY <1>0, <1>1, <2>1, Zenon DEF Includes
<1>3. CASE UNCHANGED <<toCommit, fromIEW>>
  BY <1>0, <1>1, <1>3, Zenon DEF Includes
<1>4. ASSUME NEW i \in Insts, UNCHANGED fromIEW, toCommit' = [toCommit EXCEPT !.insts = @ \cup {i}]
      PROVE  Includes(toCommit)' /\ Includes(fromIEW)'
  <2>1. toCommit'.squash = toCommit.squash /\ toCommit'.include = toCommit.include
    BY <1>0, <1>4, Zenon DEF TypeOK
  <2> QED BY <1>0, <1>1, <1>4, <2>1 DEF Includes
<1>5. ASSUME NEW v \in Insts, UNCHANGED fromIEW, toCommit'.squash = v, toCommit'.include = IsLoad(v)
      PROVE  Includes(toCommit)' /\ Includes(fromIEW)'
  BY <1>0, <1>1, <1>5, Zenon DEF Includes
<1> QED BY <1>2, <1>3, <1>4, <1>5, SignalEffect

\* The instruction that signalled a redirect stays in the ROB in its cycle.
LEMMA SignalROBStep ==
    ASSUME PipeInv, [Next]_vars
    PROVE  SignalROB'
<1>0. TypeOK /\ TypeOK' /\ SignalROB /\ StageFacts
  BY TypeStep, StageFactsStep, Zenon DEF PipeInv
<1> DEFINE Sender(x) == x \in InROB /\ x \notin canCommit /\ stage[x] \in Executed
<1>1. ASSUME NEW x \in Insts, Sender(x), toCommit'.squash = toCommit.squash, x <= toCommit.squash,
             phase' \in {"execute", "writeback", "issue", "retire"},
             x \in InROB', x \notin canCommit'
      PROVE  SignalROB'
  BY <1>0, <1>1, Zenon DEF SignalROB, StageFacts
<1>2. ASSUME toCommit'.squash = 0 PROVE SignalROB'
  BY <1>2, Zenon DEF SignalROB
<1>3. ASSUME toCommit.squash # 0, phase # "retire"
      PROVE  \E x \in Insts : Sender(x) /\ x <= toCommit.squash
  BY <1>0, <1>3, Zenon DEF SignalROB, InROB
\* Front steps do not let the sender commit.
<1>4. CASE FrontStep
  <2>0. InROB' = InROB /\ phase # "retire" /\ phase' \in {"dispatch", "execute", "writeback", "issue"}
    <3>1. phase # "retire"
      BY <1>4, ZenonT(60) DEF FrontStep, Rename, Dispatch, Execute, ExecuteSquashed, ExecuteInst, ExecuteTLBMiss,
         ExecuteLoad, ExecuteLoadMiss, ExecuteLoadBlocked, ExecuteStore, Writeback, Issue,
         IEWSquash, SafeTick, NextToExecute, BeforeIEW, CanExecute, CanIssue
    <3> QED BY <1>0, <1>4, <3>1, FrontStepROB, FrontStage, Zenon
  <2>1. ASSUME toCommit'.squash = toCommit.squash, phase \in {"execute", "writeback", "issue"} => phase' # "dispatch",
               \A x \in Insts : Sender(x) => x \notin canCommit' \/ phase = "rename" \/ phase = "dispatch"
        PROVE  SignalROB'
    <3>1. CASE toCommit.squash = 0
      BY <1>2, <2>1, <3>1, Zenon
    <3>2. CASE toCommit.squash # 0
      <4>1. PICK x \in Insts : Sender(x) /\ x <= toCommit.squash
        BY <1>3, <2>0, <3>2, Zenon
      <4>2. phase \in {"execute", "writeback", "issue"}
        BY <1>0, <2>0, <3>2, Zenon DEF SignalROB
      <4>3. phase' \in {"execute", "writeback", "issue", "retire"} /\ x \notin canCommit'
        BY <2>0, <2>1, <4>1, <4>2, Zenon
      <4> QED BY <1>1, <2>0, <2>1, <4>1, <4>3, Zenon
    <3> QED BY <3>1, <3>2, Zenon
  <2>2. ASSUME NEW i \in Insts, Rename(i) \/ Dispatch(i) \/ Issue(i) \/ ExecuteTLBMiss(i)
                 \/ ExecuteLoad(i) \/ ExecuteLoadMiss(i) \/ ExecuteLoadBlocked(i)
        PROVE  SignalROB'
    <3>1. UNCHANGED <<canCommit, toCommit>> /\ (phase' = "dispatch" => phase = "rename")
      BY <2>2, ZenonT(60) DEF Rename, Dispatch, Issue, ExecuteTLBMiss, NextToExecute, Goto,
             ExecuteLoad, ExecuteLoadMiss, ExecuteLoadBlocked, buffers
    <3> QED BY <2>1, <3>1, Zenon
  <2>3. ASSUME NEW i \in Insts, ExecuteSquashed(i) PROVE SignalROB'
    <3>1. UNCHANGED toCommit /\ canCommit' = canCommit \cup {i} /\ stage[i] = "issued" /\ phase' = "execute"
      BY <2>3, Zenon DEF ExecuteSquashed, NextToExecute, Goto, buffers
    <3> QED BY <2>1, <3>1, Zenon DEF Executed
  <2>4. ASSUME NEW i \in Insts, ExecuteInst(i) \/ ExecuteStore(i) PROVE SignalROB'
    <3>1. /\ stage[i] = "issued" /\ i \notin squashed /\ ~IsLoad(i) /\ phase' = "execute"
          /\ canCommit' \subseteq canCommit /\ stage' = [stage EXCEPT ![i] = "done"]
      BY <2>4, Zenon DEF ExecuteInst, ExecuteStore, SquashDueToMemOrder, NextToExecute, Goto, IsLoad, IsStore
    <3>2. i \notin canCommit /\ i \in InROB
      BY <3>1, Zenon DEF PipeInv, PendInv, InROB, Executed
    <3>3. stage'[i] \in Executed
      BY <1>0, <3>1, Zenon DEF TypeOK, Executed
    <3>4. CASE UNCHANGED toCommit
      BY <2>1, <3>1, <3>4, Zenon
    <3>5. ASSUME NEW v \in Insts, toCommit'.squash = v, i <= v PROVE SignalROB'
      BY <2>0, <3>1, <3>2, <3>3, <3>5, Zenon DEF SignalROB
    <3>6. ASSUME NEW k \in Insts, NEW v \in Insts, ExecuteInst(k) \/ ExecuteStore(k),
                 toCommit'.squash = v, k <= v
          PROVE  SignalROB'
      <4>1. cursor' = k /\ cursor' = i
        BY <2>4, <3>6, Zenon DEF ExecuteInst, ExecuteStore, NextToExecute, Goto
      <4> QED BY <3>5, <3>6, <4>1, Zenon
    <3>7. ~EndCommit /\ \A k \in Insts : ~Writeback(k)
      BY <3>1 DEF EndCommit, Writeback, Goto
    <3> QED BY <3>4, <3>6, <3>7, SignalEffect
  <2>5. ASSUME NEW i \in Insts, Writeback(i) PROVE SignalROB'
    <3>1. /\ UNCHANGED canCommit /\ toCommit' = [toCommit EXCEPT !.insts = @ \cup {i}] /\ phase' = "writeback"
      BY <2>5 DEF Writeback, Goto
    <3>2. toCommit'.squash = toCommit.squash
      BY <1>0, <3>1, Zenon DEF TypeOK
    <3> QED BY <2>1, <3>1, <3>2
  <2>6. CASE IEWSquash
    BY <2>1, <2>6, Zenon DEF IEWSquash, BeforeIEW, Goto
  <2>7. CASE SafeTick
    <3>1. UNCHANGED toCommit /\ canCommit' \subseteq canCommit /\ phase' = "writeback"
      BY <1>0, <2>7, TickEffect, Zenon DEF SafeTick, TypeOK, Goto, buffers
    <3> QED BY <2>1, <3>1, Zenon
  <2> QED BY <1>4, <2>2, <2>3, <2>4, <2>5, <2>6, <2>7, Zenon DEF FrontStep, Execute
<1>5. CASE CommitPendingRedirect \/ CommitSignalledSquash \/ CommitNoSquash
  <2>1. phase' = "retire" /\ UNCHANGED toCommit /\ phase # "retire"
    BY <1>5, CommitEffect, Zenon
  <2>2. CASE Resume
    <3>1. CASE toCommit.squash = 0
      BY <1>2, <2>1, <3>1, Zenon
    <3>2. CASE toCommit.squash # 0
      <4>1. PICK x \in Insts : Sender(x) /\ x <= toCommit.squash
        BY <1>3, <2>1, <3>2, Zenon
      <4>2. UNCHANGED canCommit /\ stage'[x] = stage[x]
        BY <4>1, <2>2, Zenon DEF Resume, Executed
      <4>3. x \in InROB'
        BY <4>1, <4>2, Zenon DEF InROB
      <4> QED BY <1>1, <2>1, <4>1, <4>2, <4>3, Zenon
    <3> QED BY <3>1, <3>2
  <2>3. ASSUME NEW S, NEW q, SquashStep(S, q) PROVE SignalROB'
    <3>1. commitStatus' = "ROBSquashing"
      BY <2>3, Zenon DEF SquashStep
    <3> QED BY <2>1, <3>1, Zenon DEF SignalROB
  <2> QED BY <1>5, <2>2, <2>3, CommitEffect
<1>6. CASE RetireSquashed \/ RetireHead
  <2>1. /\ UNCHANGED <<toCommit, commitStatus>> /\ HeadReady /\ phase' = "retire"
        /\ canCommit' \subseteq canCommit /\ stage' = [stage EXCEPT ![Head] = "retired"]
    <3>1. CASE RetireHead
      <4>1. dataInd \ {Head} \in SUBSET Insts
        BY <1>0, Zenon DEF TypeOK
      <4> QED BY <1>0, <3>1, <4>1, TickEffect, Zenon DEF RetireHead, buffers, robState, Goto
    <3>2. CASE RetireSquashed
      BY <3>2, Zenon DEF RetireSquashed, status, buffers, robState, HeadReady
    <3> QED BY <1>6, <3>1, <3>2, Zenon
  <2>2. PICK h \in Insts : h = Head /\ h \in canCommit /\ commitStatus = "Running"
    BY <2>1, RetireFacts, Zenon
  <2>3. InROB' = InROB \ {h}
    BY <1>0, <2>1, <2>2, Zenon DEF TypeOK, InROB
  <2>4. CASE toCommit.squash = 0
    BY <1>2, <2>1, <2>4, Zenon
  <2>5. CASE toCommit.squash # 0
    <3>1. PICK x \in Insts : Sender(x) /\ x <= toCommit.squash
      BY <1>0, <2>2, <2>5, Zenon DEF SignalROB, InROB
    <3>2. x \in InROB' /\ x \notin canCommit'
      BY <2>1, <2>2, <2>3, <3>1, Zenon
    <3> QED BY <1>1, <2>1, <3>1, <3>2, Zenon
  <2> QED BY <2>4, <2>5, Zenon
<1>7. CASE EndCommit
  <2>1. toCommit'.squash = 0
    BY <1>7, Zenon DEF EndCommit, NoSignal
  <2> QED BY <1>2, <2>1, Zenon
<1>8. CASE UNCHANGED vars
  <2>1. UNCHANGED <<toCommit, commitStatus, phase, stage, canCommit>>
    BY <1>8, Zenon DEF vars, status, buffers, robState
  <2> QED BY <1>0, <2>1, Zenon DEF SignalROB, InROB
<1> QED BY <1>4, <1>5, <1>6, <1>7, <1>8, StepCases, Zenon

\* The invariants that need no cover hold in every reachable state.
LEMMA PipeInvHolds ==
    ASSUME ~CacheBlocks
    PROVE  Spec => []PipeInv
<1>1. Init => PipeInv
  <2> SUFFICES ASSUME Init PROVE PipeInv
    OBVIOUS
  <2>1. \A i \in Insts : stage[i] = "none" /\ violator[i] = 0
    BY Zenon DEF Init
  <2>2. InROB = {}
    BY <2>1, Zenon DEF InROB
  <2>3. /\ toCommit.insts = {} /\ toCommit.squash = 0 /\ fromIEW.insts = {} /\ fromIEW.squash = 0
    BY Zenon DEF Init, NoSignal
  <2>4. TypeOK /\ SquashInv /\ SignalInv(toCommit) /\ SignalInv(fromIEW)
    BY <2>2, <2>3, TypeInit, Zenon DEF Init, SquashInv, SignalInv
  <2>5. PendInv
    BY <2>1, <2>4, Zenon DEF Init, PendInv
  <2>6. InOrder /\ LastSquash /\ SquashedClean /\ PendROB
    BY <2>1, Zenon DEF Init, InOrder, LastSquash, SquashedClean, PendROB
  <2>7. StatusInv /\ ReplaySafe
    BY <2>1, Zenon DEF Init, StatusInv, ReplaySafe, Executed
  <2>8. Includes(toCommit) /\ Includes(fromIEW) /\ SignalROB
    BY <2>3, Zenon DEF Includes, SignalROB
  <2> QED BY <2>4, <2>5, <2>6, <2>7, <2>8, Zenon DEF PipeInv
<1>2. PipeInv /\ [Next]_vars => PipeInv'
  <2> SUFFICES ASSUME PipeInv, [Next]_vars PROVE PipeInv'
    BY Zenon
  <2>1. TypeOK' /\ SquashInv' /\ PendInv'
    BY TypeStep, SquashInvStep, PendInvStep, Zenon DEF PipeInv
  <2> QED BY <2>1, InOrderStep, LastSquashStep, SquashedCleanStep, StatusInvStep, ReplaySafeStep,
             PendROBStep, IncludesStep, SignalROBStep, Zenon DEF PipeInv
<1> QED BY <1>1, <1>2, PTL DEF Spec
=============================================================================
