------------------------- MODULE DolmaRetire_proofs -------------------------
(***************************************************************************)
(* What retires is right: every redirect that is due reaches fetch before  *)
(* the instruction it belongs to can retire.  For every number of          *)
(* instructions, every program and every configuration, provided that the  *)
(* L1 does not refuse requests (with a blocking L1 a redirect can be lost). *)
(***************************************************************************)
EXTENDS DolmaPipe_proofs

-----------------------------------------------------------------------------
(***************************************************************************)
(* The inductive invariant.                                                *)
(***************************************************************************)

\* The redirects that are due: pending, or on their way to commit.
Coming == {r \in Insts : \/ r \in pendBr \cup pendMO \/ r = toCommit.squash
                         \/ phase # "retire" /\ r = fromIEW.squash}
\* b will be squashed, or redirected itself: a squash has passed it, or a
\* redirect is due that is not younger.
Covered(b) == b > youngest \/ \E r \in Coming : r <= b

\* The outcome of b is not known to the front end and to the ROB.
Unsettled(b) == b \in ctlInd \/ (prog[b].bad /\ b \notin redirected)

\* The instructions that must not retire as they are, a branch that has executed
\* and is not settled, the violator of a store, and a load that has not read
\* the latest store to its address, are covered.
CoverInv ==
    \A b \in InROB \ squashed :
       /\ stage[b] \in Executed /\ Unsettled(b) => Covered(b)
       /\ violSeq[b] \in InROB \ squashed => Covered(violSeq[b])
       /\ IsLoad(b) /\ stage[b] \in {"access", "done", "wb"} =>
            Covered(b) \/ readFrom[b] = Source(b)

\* The violator recorded by a store is a load whose address is known.
ViolSeqInv ==
    \A s \in Insts : violSeq[s] # 0 => /\ violSeq[s] > s /\ violSeq[s] \in effValid
                                       /\ IsLoad(violSeq[s])

\* What has retired was settled.
SettledInv == \A b \in Insts \ squashed : stage[b] = "retired" => ~Unsettled(b)

\* An instruction on a wrong path is in front of commit, behind a branch of the
\* ROB that has not redirected fetch, or a squash has passed it.
WrongInv ==
    \A i \in wrong \ squashed :
      \/ i \in InROB /\ i > youngest
      \/ /\ i \in InROB \/ stage[i] = "renamed"
         /\ \E b \in InROB \ squashed : b < i /\ b <= youngest /\ prog[b].bad /\ b \notin redirected

-----------------------------------------------------------------------------
(***************************************************************************)
(* A covered instruction stays covered until it is settled.                *)
(***************************************************************************)

\* Before commit, a pending redirect stays pending unless a squash has passed
\* its instruction: an instruction with a pending redirect does not stall.
LEMMA PendKept ==
    ASSUME PipeInv, FrontStep, ~CacheBlocks, NEW r \in pendBr \cup pendMO
    PROVE  r \in (pendBr \cup pendMO)' \/ r > youngest
<1>0. TypeOK /\ r \in Insts
  BY Zenon DEF PipeInv, TypeOK
<1>1. ASSUME NEW i \in Insts, Rename(i) \/ Dispatch(i) \/ Writeback(i) \/ ExecuteSquashed(i)
               \/ ExecuteInst(i) \/ ExecuteLoad(i) \/ ExecuteStore(i)
      PROVE  pendBr \subseteq pendBr' /\ pendMO \subseteq pendMO'
  BY <1>1, Zenon DEF Rename, Dispatch, Writeback, ExecuteSquashed, ExecuteInst, ExecuteLoad, ExecuteStore,
              SquashDueToMemOrder
<1>2. ASSUME NEW i \in Insts, stage[i] \in {"issued", "queued"}, Restricted(i), i \notin stalled
      PROVE  i \notin pendBr \cup pendMO
  <2>1. i \notin pendBr
    BY <1>2, Zenon DEF PipeInv, PendInv, Executed
  <2>2. i \notin pendMO
    BY <1>2, Zenon DEF PipeInv, PendROB, ReplaySafe
  <2> QED BY <2>1, <2>2
<1>3. ASSUME NEW i \in Insts, ExecuteTLBMiss(i) \/ ExecuteLoadMiss(i) \/ Issue(i)
      PROVE  r \in (pendBr \cup pendMO)'
  <2>1. CASE UNCHANGED <<pendBr, pendMO>>
    BY <2>1
  <2>2. CASE Stall(i) /\ stage[i] \in {"issued", "queued"} /\ Restricted(i) /\ (stage[i] = "queued" => i \notin stalled)
    <3>1. i \notin stalled
      BY <2>2, Zenon DEF PipeInv, StatusInv
    <3>2. i \notin pendBr \cup pendMO
      BY <1>2, <2>2, <3>1, Zenon
    <3> QED BY <2>2, <3>2 DEF Stall
  <2> QED BY <1>3, <2>1, <2>2, Zenon DEF ExecuteTLBMiss, ExecuteLoadMiss, Issue, NextToExecute
<1>4. CASE IEWSquash
  <2>1. toIEW = youngest
    BY <1>4, Zenon DEF IEWSquash, PipeInv, LastSquash
  <2>2. PICK dead : /\ \A i \in dead : i > toIEW
                    /\ pendBr' = pendBr \ dead /\ pendMO' = pendMO \ dead
    BY <1>4, Zenon DEF IEWSquash
  <2> QED BY <2>1, <2>2
<1>5. CASE SafeTick
  BY <1>0, <1>5, TickEffect, Zenon DEF SafeTick, TypeOK
<1>6. \A i : ~ExecuteLoadBlocked(i)
  BY DEF ExecuteLoadBlocked
<1> QED BY <1>1, <1>3, <1>4, <1>5, <1>6, Zenon DEF FrontStep, Execute

\* A covered instruction is squashed, stays covered, or is redirected itself.
LEMMA CoverKept ==
    ASSUME PipeInv, [Next]_vars, ~CacheBlocks, NEW b \in InROB, b \notin squashed', Covered(b)
    PROVE  \/ Covered(b)'
           \/ ~IsLoad(b) /\ b \in redirected' /\ b \notin ctlInd'
<1>0. TypeOK /\ TypeOK' /\ b \in Insts
  BY TypeStep DEF PipeInv, InROB
<1>1. /\ b \in Nat /\ youngest \in Nat /\ youngest' \in Nat /\ toCommit.squash \in 0..N
      /\ toCommit'.squash \in 0..N
  BY <1>0, Numbers, Zenon DEF TypeOK
<1>2. ASSUME b > youngest' PROVE Covered(b)'
  BY <1>2 DEF Covered
<1>3. ASSUME NEW r \in Insts, r <= b,
             \/ r \in (pendBr \cup pendMO)' \/ r = toCommit'.squash
             \/ phase' # "retire" /\ r = fromIEW'.squash
      PROVE  Covered(b)'
  BY <1>3 DEF Covered, Coming
<1>4. CASE FrontStep
  <2>1. /\ youngest' = youngest /\ phase # "retire" /\ phase' # "retire" /\ ~EndCommit
    <3>1. phase # "retire"
      BY <1>4, ZenonT(60) DEF FrontStep, Rename, Dispatch, Execute, ExecuteSquashed, ExecuteInst, ExecuteTLBMiss,
         ExecuteLoad, ExecuteLoadMiss, ExecuteLoadBlocked, ExecuteStore, Writeback, Issue,
         IEWSquash, SafeTick, NextToExecute, BeforeIEW, CanExecute, CanIssue
    <3> QED BY <1>0, <1>4, <3>1, FrontStepROB, FrontStage, Zenon DEF robState, EndCommit
  <2>2. CASE b > youngest
    BY <1>2, <2>1, <2>2
  <2>3. ASSUME NEW r \in Insts, r <= b, r \in pendBr \cup pendMO PROVE Covered(b)'
    <3>1. r \in (pendBr \cup pendMO)' \/ r > youngest
      BY <1>4, <2>3, PendKept
    <3>2. r > youngest => b > youngest
      BY <1>1, <2>3, Numbers
    <3> QED BY <1>2, <1>3, <2>1, <2>3, <3>1, <3>2
  <2>4. ASSUME NEW r \in Insts, r <= b, r = toCommit.squash PROVE Covered(b)'
    <3>1. \E v \in Insts : v = toCommit'.squash /\ v <= r
      <4>1. CASE UNCHANGED toCommit
        BY <2>4, <4>1, Numbers
      <4>2. ASSUME NEW i \in Insts, toCommit' = [toCommit EXCEPT !.insts = @ \cup {i}]
            PROVE  toCommit'.squash = toCommit.squash
        BY <1>0, <4>2, Zenon DEF TypeOK
      <4>3. r # 0 /\ r <= r
        BY Numbers
      <4> QED BY <2>1, <2>4, <4>1, <4>2, <4>3, SignalEffect
    <3>2. PICK v \in Insts : v = toCommit'.squash /\ v <= r
      BY <3>1
    <3>3. v <= b
      BY <1>1, <2>4, <3>2, Numbers
    <3> QED BY <1>3, <3>2, <3>3, Zenon
  <2>5. ASSUME NEW r \in Insts, r <= b, r = fromIEW.squash PROVE Covered(b)'
    <3>1. UNCHANGED fromIEW
      BY <2>1, SignalEffect
    <3> QED BY <1>3, <2>1, <2>5, <3>1, Zenon
  <2> QED BY <2>2, <2>3, <2>4, <2>5, Zenon DEF Covered, Coming
<1>5. CASE CommitPendingRedirect \/ CommitSignalledSquash \/ CommitNoSquash
  <2>1. UNCHANGED <<toCommit, fromIEW>> /\ phase' = "retire"
    BY <1>5, CommitEffect, Zenon
  <2>2. ASSUME NEW r \in Insts, r <= b, r = toCommit.squash PROVE Covered(b)'
    BY <1>3, <2>1, <2>2, Zenon
  <2>3. CASE Resume
    <3>1. b <= youngest
      <4>1. b \in squashed => FALSE
        BY ReadyStays, Zenon
      <4>2. b > youngest => commitStatus = "ROBSquashing" /\ b <= squashIt
        BY <4>1, Zenon DEF PipeInv, SquashInv
      <4>3. squashIt = 0 => ~(b <= squashIt)
        BY <1>0, Numbers
      <4> QED BY <1>1, <2>3, <4>2, <4>3 DEF Resume
    <3>2. /\ UNCHANGED <<pendBr, pendMO>>
          /\ fromIEW.squash # 0 /\ fromIEW.squash <= youngest => fromIEW.squash \in pendBr \cup pendMO
      BY <2>3, Zenon DEF Resume
    <3>3. ASSUME NEW r \in Insts, r <= b, r = fromIEW.squash \/ r \in pendBr \cup pendMO PROVE Covered(b)'
      <4>1. r \in pendBr \cup pendMO
        BY <1>1, <3>1, <3>2, <3>3, Numbers
      <4> QED BY <1>3, <3>2, <3>3, <4>1, Zenon
    <3>4. ~(b > youngest)
      BY <1>1, <3>1
    <3> QED BY <2>2, <3>3, <3>4, Zenon DEF Covered, Coming
  <2>4. ASSUME NEW S, NEW q \in 0..N, SquashStep(S, q)
        PROVE  Covered(b)' \/ (~IsLoad(b) /\ b \in redirected' /\ b \notin ctlInd')
    <3> SUFFICES ASSUME b <= youngest'
                 PROVE  Covered(b)' \/ (~IsLoad(b) /\ b \in redirected' /\ b \notin ctlInd')
      BY <1>1, <1>2
    <3>1. /\ pendBr' = pendBr \ (S \cup {q}) /\ pendMO' = pendMO \ (S \cup {q})
          /\ ctlInd' = ctlInd \ (S \cup {q})
          /\ youngest' <= youngest /\ \A j \in S : j > youngest'
      BY <2>4, Zenon DEF SquashStep, Squash
    <3>2. CASE q = b
      BY <1>0, <1>1, <2>4, <3>1, <3>2, Numbers DEF SquashStep
    <3>3. ASSUME q # b, NEW r \in Insts, r <= b, r \in pendBr \cup pendMO \/ r = fromIEW.squash
          PROVE  Covered(b)'
      <4>1. r <= youngest' /\ r \in Nat /\ r # 0
        BY <1>1, <3>3, Numbers
      <4>2. r \notin S
        BY <1>1, <3>1, <4>1
      <4>3. q # r
        <5>1. CASE q = 0
          BY <4>1, <5>1, Zenon
        <5>2. CASE q > youngest'
          BY <1>1, <4>1, <5>2
        <5>3. CASE q = youngest'
          BY <1>1, <3>3, <4>1, <5>3
        <5> QED BY <2>4, <5>1, <5>2, <5>3, Zenon DEF SquashStep
      <4>4. r \in pendBr \cup pendMO
        BY <2>4, <3>3, <4>1, <4>3, Zenon DEF SquashStep
      <4>5. r \in pendBr' \cup pendMO'
        BY <3>1, <4>2, <4>3, <4>4, Zenon
      <4> QED BY <1>3, <3>3, <4>5, Zenon
    <3>4. ~(b > youngest)
      BY <1>1, <3>1
    <3> QED BY <2>2, <3>2, <3>3, <3>4, Zenon DEF Covered, Coming
  <2> QED BY <1>5, <2>3, <2>4, CommitEffect, Zenon
<1>6. CASE RetireSquashed \/ RetireHead \/ UNCHANGED vars
  <2>1. UNCHANGED <<toCommit, fromIEW, phase, youngest, pendBr>> /\ pendMO \subseteq pendMO'
    <3>1. CASE RetireHead
      <4>1. dataInd \ {Head} \in SUBSET Insts
        BY <1>0, Zenon DEF TypeOK
      <4> QED BY <1>0, <3>1, <4>1, TickEffect, Zenon DEF RetireHead, HeadReady, buffers, robState, Goto
    <3>2. CASE RetireSquashed \/ UNCHANGED vars
      BY <3>2, Zenon DEF RetireSquashed, vars, status, buffers, robState
    <3> QED BY <1>6, <3>1, <3>2, Zenon
  <2> QED BY <2>1, Zenon DEF Covered, Coming
<1>7. CASE EndCommit
  <2>1. /\ fromIEW' = toCommit /\ phase' = "rename" /\ phase = "retire"
        /\ UNCHANGED <<youngest, pendBr, pendMO>>
    BY <1>7, Zenon DEF EndCommit, Goto, robState
  <2> QED BY <2>1, Zenon DEF Covered, Coming
<1> QED BY <1>4, <1>5, <1>6, <1>7, StepCases, Zenon

\* An instruction that retires is not covered: every redirect that is due
\* belongs to a younger one.
LEMMA HeadNotCovered ==
    ASSUME PipeInv, HeadReady, Head \notin squashed
    PROVE  ~Covered(Head)
<1>1. PICK h \in Insts : /\ h = Head /\ h \in InROB /\ \A j \in InROB : h <= j
                         /\ h \in canCommit /\ phase = "retire" /\ commitStatus = "Running"
                         /\ h <= youngest /\ h \notin pendBr \cup pendMO
  BY RetireFacts, Zenon
<1>2. h \in Nat /\ youngest \in Nat /\ toCommit.squash \in Nat
  BY Numbers, Zenon DEF PipeInv, TypeOK
<1>3. ASSUME NEW r \in pendBr \cup pendMO PROVE ~(r <= h)
  <2>1. r \in InROB /\ r # h
    BY <1>1, Zenon DEF PipeInv, PendROB
  <2>2. h <= r /\ r \in Nat
    BY <1>1, <2>1, Numbers, Zenon DEF InROB
  <2> QED BY <1>2, <2>1, <2>2
<1>4. ASSUME toCommit.squash # 0, toCommit.squash <= h PROVE FALSE
  <2>1. PICK x \in InROB : x <= toCommit.squash /\ x \notin canCommit
    BY <1>1, <1>4, Zenon DEF PipeInv, SignalROB
  <2>2. h <= x /\ x \in Nat
    BY <1>1, <2>1, Numbers, Zenon DEF InROB
  <2>3. x = h
    BY <1>2, <1>4, <2>1, <2>2
  <2> QED BY <1>1, <2>1, <2>3
<1>5. ~(h > youngest)
  BY <1>1, <1>2
<1>6. ASSUME NEW r \in Coming PROVE ~(r <= h)
  BY <1>1, <1>3, <1>4, Numbers, Zenon DEF Coming
<1> QED BY <1>1, <1>5, <1>6, Zenon DEF Covered

\* The violators recorded by stores stay known loads.
LEMMA ViolSeqStep ==
    ASSUME PipeInv, ViolSeqInv, [Next]_vars
    PROVE  ViolSeqInv'
<1>0. TypeOK /\ TypeOK' /\ prog' = prog
  BY TypeStep, StageFactsStep, Zenon DEF PipeInv, StageFacts
<1>1. \A k : IsLoad(k)' = IsLoad(k)
  BY <1>0 DEF IsLoad, Kind
<1>2. ASSUME UNCHANGED violSeq, effValid \subseteq effValid' PROVE ViolSeqInv'
  BY <1>1, <1>2, Zenon DEF ViolSeqInv
<1>3. ASSUME NEW S, Forget(S) PROVE ViolSeqInv'
  <2>1. \A s \in Insts : violSeq'[s] # 0 => violSeq'[s] = violSeq[s] /\ violSeq[s] \notin S
    BY <1>3, Zenon DEF Forget
  <2>2. effValid' = effValid \ S
    BY <1>3, Zenon DEF Forget
  <2> QED BY <1>1, <2>1, <2>2, Zenon DEF ViolSeqInv
<1>4. ASSUME NEW i \in Insts, ExecuteStore(i) PROVE ViolSeqInv'
  <2>1. PICK v : v = Violator(i)
    OBVIOUS
  <2>2. /\ effValid' = effValid \cup {i}
        /\ violSeq' = violSeq \/ (v # 0 /\ violSeq' = [violSeq EXCEPT ![i] = v])
    BY <1>4, <2>1, Zenon DEF ExecuteStore
  <2>3. v # 0 => v > i /\ v \in effValid /\ IsLoad(v)
    BY <1>0, <2>1, ViolatorProperty, Zenon
  <2>4. \A s \in Insts : violSeq'[s] = violSeq[s] \/ (v # 0 /\ s = i /\ violSeq'[s] = v)
    BY <1>0, <2>2, Zenon DEF TypeOK
  <2> QED BY <1>1, <2>2, <2>3, <2>4, Zenon DEF ViolSeqInv
<1>5. ASSUME NEW i \in Insts, Rename(i) \/ Dispatch(i) \/ Writeback(i) \/ Issue(i)
                 \/ ExecuteSquashed(i) \/ ExecuteInst(i) \/ ExecuteTLBMiss(i) \/ ExecuteLoad(i)
                 \/ ExecuteLoadMiss(i) \/ ExecuteLoadBlocked(i)
      PROVE  ViolSeqInv'
  <2>1. UNCHANGED violSeq /\ effValid \subseteq effValid'
    BY <1>5, ZenonT(60) DEF Rename, Dispatch, Writeback, Issue, links, ExecuteSquashed, ExecuteInst,
           ExecuteTLBMiss, ExecuteLoad, ExecuteLoadMiss, ExecuteLoadBlocked
  <2> QED BY <1>2, <2>1
<1>6. CASE IEWSquash
  BY <1>3, <1>6, Zenon DEF IEWSquash
<1>7. CASE CommitPendingRedirect \/ CommitSignalledSquash \/ CommitNoSquash
  <2>1. CASE Resume
    BY <1>2, <2>1, Zenon DEF Resume, links
  <2>2. ASSUME NEW S, NEW q, SquashStep(S, q) PROVE ViolSeqInv'
    BY <1>3, <2>2, Zenon DEF SquashStep, Squash
  <2> QED BY <1>7, <2>1, <2>2, CommitEffect, Zenon
<1>8. CASE SafeTick \/ RetireSquashed \/ RetireHead \/ EndCommit \/ UNCHANGED vars
  <2>1. UNCHANGED <<violSeq, effValid>>
    BY <1>8, Zenon DEF SafeTick, RetireSquashed, RetireHead, EndCommit, vars, status, links
  <2> QED BY <1>2, <2>1, Zenon
<1> QED BY <1>4, <1>5, <1>6, <1>7, <1>8, StepCases, Zenon DEF FrontStep, Execute

\* A store that finds a violator covers it, and every younger load that could be one.
LEMMA StoreCovers ==
    ASSUME PipeInv, NEW s \in Insts, ExecuteStore(s), NEW l \in Insts,
           Violator(s) # 0, Violator(s) <= l
    PROVE  Covered(l)'
<1>0. TypeOK
  BY DEF PipeInv
<1>1. PICK v : v = Violator(s)
  OBVIOUS
<1>2. v \in Insts /\ v > s
  BY <1>0, <1>1, ViolatorProperty, Zenon
<1>3. toCommit.squash \in 0..N
  BY <1>0, Zenon DEF TypeOK
<1>4. CASE MayRedirect(s) /\ (toCommit.squash = 0 \/ v <= toCommit.squash)
  <2>1. toCommit' = [toCommit EXCEPT !.squash = v, !.include = TRUE]
    BY <1>1, <1>4, Zenon DEF ExecuteStore, SquashDueToMemOrder
  <2>2. toCommit'.squash = v
    BY <1>0, <2>1, Zenon DEF TypeOK
  <2>3. v \in Coming'
    BY <1>2, <2>2, Zenon DEF Coming
  <2> QED BY <1>1, <2>3, Zenon DEF Covered
<1>5. CASE ~(MayRedirect(s) /\ (toCommit.squash = 0 \/ v <= toCommit.squash))
  <2>1. toCommit' = toCommit
    BY <1>1, <1>5, Zenon DEF ExecuteStore
  <2>2. toCommit.squash # 0 /\ toCommit.squash <= v
    BY <1>2, <1>3, <1>5, Numbers DEF MayRedirect
  <2>3. toCommit.squash \in Insts /\ toCommit.squash <= l
    BY <1>1, <1>2, <1>3, <2>2, Numbers
  <2>4. toCommit.squash \in Coming'
    BY <2>1, <2>3 DEF Coming
  <2> QED BY <2>3, <2>4 DEF Covered
<1> QED BY <1>4, <1>5, Zenon

\* The stores a load could read stay the same as long as no store executes, or
\* the load is covered.
LEMMA CoveringKept ==
    ASSUME PipeInv, [Next]_vars, NEW l \in InROB, l \notin squashed', IsLoad(l),
           stage[l] \in {"access", "done", "wb"}
    PROVE  Covering(l)' = Covering(l) \/ Covered(l)'
<1>0. TypeOK /\ TypeOK' /\ prog' = prog /\ l \in Insts /\ l \in Nat
  BY TypeStep, StageFactsStep, Numbers, Zenon DEF PipeInv, StageFacts, InROB
<1>1. \A k : IsLoad(k)' = IsLoad(k) /\ IsStore(k)' = IsStore(k)
  BY <1>0, Zenon DEF IsLoad, IsStore, Kind
<1>2. 1..(l-1) \subseteq Insts /\ \A s \in 1..(l-1) : s < l
  BY <1>0, NAssumption DEF Insts
<1> DEFINE Known(s) == s \notin squashed /\ (s \in effValid \/ stage[s] = "retired")
<1>3. ASSUME \A s \in 1..(l-1) : IsStore(s) /\ prog[s].addr = prog[l].addr => (Known(s)' <=> Known(s))
      PROVE  Covering(l)' = Covering(l)
  BY <1>0, <1>1, <1>3, Zenon DEF Covering
<1>4. ASSUME NEW S, squashed' = squashed \cup S, \A s \in S : s > youngest', ~Covered(l)',
             \A s \in Insts \ S : IsStore(s) =>
                 /\ s \in effValid' <=> s \in effValid
                 /\ stage'[s] = "retired" <=> stage[s] = "retired"
      PROVE  Covering(l)' = Covering(l)
  <2>1. ASSUME NEW s \in 1..(l-1), s \in S PROVE FALSE
    <3>1. s \in Nat /\ youngest' \in Nat /\ s < l /\ s > youngest'
      BY <1>0, <1>2, <1>4, <2>1, Numbers, Zenon DEF TypeOK
    <3>2. l > youngest'
      BY <1>0, <3>1
    <3> QED BY <1>4, <3>2, Zenon DEF Covered
  <2>2. \A s \in 1..(l-1) : IsStore(s) => (Known(s)' <=> Known(s))
    BY <1>2, <1>4, <2>1, Zenon
  <2> HIDE DEF Known
  <2> QED BY <1>3, <2>2, Zenon
<1>a. ASSUME squashed' = squashed,
             \A s \in Insts : IsStore(s) =>
                 /\ s \in effValid' <=> s \in effValid
                 /\ stage'[s] = "retired" <=> stage[s] = "retired"
      PROVE  Covering(l)' = Covering(l)
  <2>2. \A s \in 1..(l-1) : IsStore(s) => (Known(s)' <=> Known(s))
    BY <1>2, <1>a, Zenon
  <2> HIDE DEF Known
  <2> QED BY <1>3, <2>2
<1>5. CASE FrontStep
  <2>0. \A s \in Insts : stage'[s] = "retired" <=> stage[s] = "retired"
    <3>1. CASE UNCHANGED stage
      BY <3>1, Zenon
    <3>2. ASSUME NEW i \in Insts, Rename(i), stage' = [stage EXCEPT ![i] = "renamed"]
          PROVE  \A s \in Insts : stage'[s] = "retired" <=> stage[s] = "retired"
      BY <1>0, <3>2, Zenon DEF TypeOK, Rename
    <3>3. ASSUME NEW i \in InROB, NEW x \in Stages \ {"none", "renamed", "retired"},
                 stage' = [stage EXCEPT ![i] = x]
          PROVE  \A s \in Insts : stage'[s] = "retired" <=> stage[s] = "retired"
      BY <1>0, <3>3, Zenon DEF TypeOK, InROB
    <3> QED BY <1>0, <1>5, <3>1, <3>2, <3>3, FrontStage, Zenon
  <2>1. ASSUME NEW i \in Insts, Rename(i) \/ Dispatch(i) \/ Writeback(i) \/ Issue(i)
                 \/ ExecuteSquashed(i) \/ ExecuteInst(i) \/ ExecuteTLBMiss(i) \/ ExecuteLoad(i)
                 \/ ExecuteLoadMiss(i) \/ ExecuteLoadBlocked(i)
        PROVE  Covering(l)' = Covering(l)
    <3>1. UNCHANGED squashed /\ (effValid' = effValid \/ (effValid' = effValid \cup {i} /\ IsLoad(i)))
      BY <2>1, ZenonT(60) DEF Rename, Dispatch, Writeback, Issue, ExecuteSquashed, ExecuteInst,
             ExecuteTLBMiss, ExecuteLoad, ExecuteLoadMiss, ExecuteLoadBlocked
    <3>2. \A s \in Insts : IsStore(s) => (s \in effValid' <=> s \in effValid)
      BY <3>1, Zenon DEF IsLoad, IsStore
    <3> QED BY <1>a, <2>0, <3>1, <3>2, Zenon
  <2>2. ASSUME NEW i \in Insts, ExecuteStore(i), ~Covered(l)' PROVE Covering(l)' = Covering(l)
    <3>1. UNCHANGED squashed /\ effValid' = effValid \cup {i} /\ IsStore(i)
      BY <2>2, Zenon DEF ExecuteStore
    <3>2. ASSUME i \in 1..(l-1), prog[i].addr = prog[l].addr PROVE FALSE
      <4>1. l \in InLSQ /\ l \in effValid /\ l \notin stalled /\ l > i /\ Block(l) = Block(i)
        <5>1. l \notin squashed
          BY <3>1
        <5>2. l \in effValid
          BY <1>0, <5>1, Zenon DEF PipeInv, StatusInv, Executed
        <5>3. l \notin stalled
          BY Zenon DEF PipeInv, StatusInv
        <5>4. l \in InLSQ
          BY <1>0, <5>1 DEF InLSQ, Live
        <5>5. Block(l) = Block(i)
          BY <3>2 DEF Block
        <5>6. l > i
          BY <1>0, <1>2, <3>2, Numbers
        <5> QED BY <5>2, <5>3, <5>4, <5>5, <5>6, Zenon
      <4>2. Violator(i) # 0 /\ Violator(i) <= l
        BY <1>0, <4>1, ViolatorProperty, Zenon
      <4> QED BY <1>0, <2>2, <4>2, StoreCovers, Zenon
    <3>3. \A s \in 1..(l-1) : IsStore(s) /\ prog[s].addr = prog[l].addr => (Known(s)' <=> Known(s))
      BY <1>2, <2>0, <3>1, <3>2, Zenon
    <3> HIDE DEF Known
    <3> QED BY <1>3, <3>3, Zenon
  <2>3. CASE IEWSquash /\ ~Covered(l)'
    <3>1. PICK dead : /\ squashed' = squashed \cup dead /\ Forget(dead) /\ \A i \in dead : i > toIEW
      BY <2>3, Zenon DEF IEWSquash
    <3>2. toIEW = youngest' /\ effValid' = effValid \ dead
      BY <2>3, <3>1, Zenon DEF IEWSquash, PipeInv, LastSquash, Forget, robState
    <3> QED BY <1>4, <2>0, <2>3, <3>1, <3>2, Zenon
  <2>4. CASE SafeTick
    BY <1>a, <2>0, <2>4, Zenon DEF SafeTick
  <2> QED BY <1>5, <2>1, <2>2, <2>3, <2>4, Zenon DEF FrontStep, Execute
<1>6. CASE CommitPendingRedirect \/ CommitSignalledSquash \/ CommitNoSquash
  <2>1. CASE Resume
    <3>1. UNCHANGED <<squashed, effValid>> /\ \A s \in Insts : stage'[s] = "retired" <=> stage[s] = "retired"
      BY <2>1, Zenon DEF Resume
    <3> QED BY <1>a, <3>1, Zenon
  <2>2. ASSUME NEW S, NEW q, SquashStep(S, q), ~Covered(l)' PROVE Covering(l)' = Covering(l)
    <3> DEFINE new == {i \in Insts : stage[i] = "renamed"}
    <3>1. /\ squashed' = squashed \cup S /\ \A j \in S : j > youngest'
          /\ effValid' = effValid \ (S \cup new)
          /\ \A s \in Insts : stage'[s] = "retired" <=> stage[s] = "retired"
      BY <2>2, Zenon DEF SquashStep, Squash, Forget
    <3>2. effValid \cap new = {}
      BY Zenon DEF PipeInv, StatusInv
    <3> HIDE DEF new
    <3>3. \A s \in Insts \ S : s \in effValid' <=> s \in effValid
      BY <3>1, <3>2, Zenon
    <3> QED BY <1>4, <2>2, <3>1, <3>3, Zenon
  <2> QED BY <1>6, <2>1, <2>2, CommitEffect, Zenon
<1>7. CASE RetireSquashed \/ RetireHead
  <2>1. UNCHANGED <<squashed, effValid>> /\ HeadReady /\ stage' = [stage EXCEPT ![Head] = "retired"]
    BY <1>7, Zenon DEF RetireSquashed, RetireHead, status
  <2>2. PICK h \in Insts : h = Head /\ (h \notin squashed => stage[h] \in Executed)
    BY <2>1, RetireFacts, Zenon
  <2>3. \A s \in Insts : stage'[s] = IF s = h THEN "retired" ELSE stage[s]
    BY <1>0, <2>1, <2>2, Zenon DEF TypeOK
  <2>4. h \notin squashed /\ IsStore(h) => h \in effValid
    BY <2>2, Zenon DEF PipeInv, StatusInv
  <2>5. \A s \in 1..(l-1) : IsStore(s) => (Known(s)' <=> Known(s))
    BY <1>2, <2>1, <2>3, <2>4, Zenon
  <2> HIDE DEF Known
  <2> QED BY <1>3, <2>5, Zenon
<1>8. CASE EndCommit \/ UNCHANGED vars
  <2>1. UNCHANGED <<squashed, effValid, stage>>
    BY <1>8, Zenon DEF EndCommit, vars, status
  <2> QED BY <1>a, <2>1, Zenon
<1> QED BY <1>5, <1>6, <1>7, <1>8, StepCases, Zenon

\* Where an instruction that is not squashed can go in a step.
LEMMA StageAdvance ==
    ASSUME PipeInv, [Next]_vars, NEW b \in Insts, b \notin squashed'
    PROVE  \/ stage'[b] = stage[b]
           \/ stage'[b] \in {"none", "renamed", "rob", "queued", "issued"}
           \/ ExecuteInst(b) \/ ExecuteStore(b) \/ ExecuteLoad(b)
           \/ Writeback(b) /\ stage[b] \in {"access", "done"}
           \/ RetireHead /\ HeadReady /\ b = Head /\ stage[b] \in Executed /\ b \in InROB
                /\ stage'[b] = "retired"
<1>0. TypeOK /\ squashed \subseteq squashed'
  BY ReadyStays, Zenon DEF PipeInv
<1>1. ASSUME NEW i \in Insts, NEW x, stage' = [stage EXCEPT ![i] = x], stage'[b] # stage[b]
      PROVE  i = b /\ stage'[b] = x
  BY <1>0, <1>1, Zenon DEF TypeOK
<1>2. CASE FrontStep
  <2>1. ASSUME NEW i \in Insts, Rename(i) \/ Dispatch(i) \/ ExecuteTLBMiss(i) \/ ExecuteLoadMiss(i)
                                \/ ExecuteLoadBlocked(i) \/ Issue(i)
        PROVE  stage'[b] = stage[b] \/ stage'[b] \in {"renamed", "queued", "issued"}
    <3>1. \E x \in {"renamed", "queued", "issued"} : stage' = [stage EXCEPT ![i] = x]
      BY <2>1, Zenon DEF Rename, Dispatch, ExecuteTLBMiss, ExecuteLoadMiss, ExecuteLoadBlocked, Issue, Stall
    <3> QED BY <1>1, <3>1, Zenon
  <2>2. ASSUME NEW i \in Insts, ExecuteInst(i) \/ ExecuteStore(i) \/ ExecuteLoad(i)
        PROVE  stage'[b] = stage[b] \/ ExecuteInst(b) \/ ExecuteStore(b) \/ ExecuteLoad(b)
    <3>1. \E x : stage' = [stage EXCEPT ![i] = x]
      BY <2>2, Zenon DEF ExecuteInst, ExecuteStore, ExecuteLoad
    <3> QED BY <1>1, <2>2, <3>1, Zenon
  <2>3. ASSUME NEW i \in Insts, Writeback(i)
        PROVE  stage'[b] = stage[b] \/ (Writeback(b) /\ stage[b] \in {"access", "done"})
    <3>1. stage' = [stage EXCEPT ![i] = "wb"] /\ stage[i] \in {"access", "done"}
      BY <2>3, Zenon DEF Writeback
    <3> QED BY <1>1, <2>3, <3>1, Zenon
  <2>4. ASSUME NEW i \in Insts, ExecuteSquashed(i) PROVE stage'[b] = stage[b]
    <3>1. stage' = [stage EXCEPT ![i] = "done"] /\ i \in squashed
      BY <2>4, Zenon DEF ExecuteSquashed
    <3> QED BY <1>0, <1>1, <3>1, Zenon
  <2>5. CASE IEWSquash \/ SafeTick
    BY <2>5, Zenon DEF IEWSquash, SafeTick
  <2> QED BY <1>2, <2>1, <2>2, <2>3, <2>4, <2>5, Zenon DEF FrontStep, Execute
<1>3. CASE CommitPendingRedirect \/ CommitSignalledSquash \/ CommitNoSquash
  <2>1. \/ stage' = [i \in Insts |-> IF stage[i] = "renamed" THEN "rob" ELSE stage[i]]
        \/ stage' = [i \in Insts |-> IF stage[i] = "renamed" THEN "none" ELSE stage[i]]
    BY <1>3, CommitEffect, Zenon DEF Resume, SquashStep, Squash
  <2> QED BY <2>1, Zenon
<1>4. CASE RetireSquashed \/ RetireHead
  <2>1. HeadReady /\ stage' = [stage EXCEPT ![Head] = "retired"]
    BY <1>4, Zenon DEF RetireSquashed, RetireHead
  <2>2. PICK h \in Insts : /\ h = Head /\ h \in InROB /\ (h \notin squashed => stage[h] \in Executed)
    BY <2>1, RetireFacts, Zenon
  <2>3. h \in squashed => ~RetireHead
    BY <2>2, Zenon DEF RetireHead
  <2>4. h \notin squashed => ~RetireSquashed
    BY <2>2, Zenon DEF RetireSquashed
  <2>5. stage'[b] = stage[b] \/ (b = h /\ stage'[b] = "retired")
    BY <1>1, <2>1, <2>2, Zenon
  <2> QED BY <1>0, <1>4, <2>1, <2>2, <2>3, <2>4, <2>5, Zenon
<1>5. CASE EndCommit \/ UNCHANGED vars
  BY <1>5, Zenon DEF EndCommit, vars
<1> QED BY <1>2, <1>3, <1>4, <1>5, StepCases, Zenon

\* A branch starts to induce restrictions when it enters the ROB, and a branch
\* that has redirected fetch stays redirected.
LEMMA SettledStays ==
    ASSUME PipeInv, [Next]_vars
    PROVE  /\ ctlInd' \subseteq ctlInd \cup {i \in Insts : stage[i] = "renamed"}
           /\ redirected \subseteq redirected'
           /\ \A b \in Insts : stage[b] # "renamed" /\ Unsettled(b)' => Unsettled(b)
<1>0. prog' = prog
  BY StageFactsStep, Zenon DEF PipeInv, StageFacts
<1>1. /\ ctlInd' \subseteq ctlInd \cup {i \in Insts : stage[i] = "renamed"}
      /\ redirected \subseteq redirected'
  <2>1. CASE FrontStep
    BY <2>1, ZenonT(60) DEF FrontStep, Rename, Dispatch, Execute, ExecuteSquashed, ExecuteInst, ExecuteTLBMiss,
         ExecuteLoad, ExecuteLoadMiss, ExecuteLoadBlocked, ExecuteStore, Writeback, Issue,
         IEWSquash, SafeTick, history
  <2>2. CASE CommitPendingRedirect \/ CommitSignalledSquash \/ CommitNoSquash
    BY <2>2, CommitEffect, Zenon DEF Resume, SquashStep, Squash
  <2>3. CASE RetireSquashed \/ RetireHead \/ EndCommit \/ UNCHANGED vars
    BY <2>3, Zenon DEF RetireSquashed, RetireHead, EndCommit, vars, status, history
  <2> QED BY <2>1, <2>2, <2>3, StepCases, Zenon
<1> QED BY <1>0, <1>1, Zenon DEF Unsettled

\* An entry of the ROB was one already, or rename has just sent it.
LEMMA EntersROB ==
    ASSUME PipeInv, [Next]_vars, NEW b \in InROB'
    PROVE  \/ b \in InROB
           \/ stage[b] = "renamed" /\ stage'[b] = "rob"
<1>0. TypeOK /\ b \in Insts
  BY Zenon DEF PipeInv, InROB
<1>1. CASE FrontStep
  BY <1>0, <1>1, FrontStepROB, Zenon
<1>2. CASE CommitPendingRedirect \/ CommitSignalledSquash \/ CommitNoSquash
  <2>1. \/ stage' = [i \in Insts |-> IF stage[i] = "renamed" THEN "rob" ELSE stage[i]]
        \/ stage' = [i \in Insts |-> IF stage[i] = "renamed" THEN "none" ELSE stage[i]]
    BY <1>2, CommitEffect, Zenon DEF Resume, SquashStep, Squash
  <2> QED BY <1>0, <2>1, Zenon DEF InROB
<1>3. CASE RetireSquashed \/ RetireHead \/ EndCommit \/ UNCHANGED vars
  <2>1. UNCHANGED stage \/ stage' = [stage EXCEPT ![Head] = "retired"]
    BY <1>3, Zenon DEF RetireSquashed, RetireHead, EndCommit, vars
  <2> QED BY <1>0, <2>1, Zenon DEF InROB, TypeOK
<1> QED BY <1>1, <1>2, <1>3, StepCases, Zenon

\* The recorded violator of a store and the store a load has read are kept
\* until the load is squashed.
LEMMA LinksKept ==
    ASSUME PipeInv, [Next]_vars, NEW b \in Insts
    PROVE  /\ violSeq'[b] \in {violSeq[b], 0} \/ (ExecuteStore(b) /\ violSeq'[b] = Violator(b))
           /\ \/ readFrom'[b] = readFrom[b]
              \/ ExecuteLoad(b) /\ readFrom'[b] = Source(b)
              \/ b \in squashed' \/ stage[b] = "renamed"
<1>0. TypeOK
  BY DEF PipeInv
<1>1. ASSUME NEW S, Forget(S)
      PROVE  violSeq'[b] \in {violSeq[b], 0} /\ (b \notin S => readFrom'[b] = readFrom[b])
  BY <1>0, <1>1, Zenon DEF Forget, TypeOK
<1>2. ASSUME NEW i \in Insts, Rename(i) \/ Dispatch(i) \/ Writeback(i) \/ Issue(i)
                 \/ ExecuteSquashed(i) \/ ExecuteInst(i) \/ ExecuteTLBMiss(i)
                 \/ ExecuteLoadMiss(i) \/ ExecuteLoadBlocked(i)
      PROVE  UNCHANGED <<violSeq, readFrom>>
  BY <1>2, ZenonT(60) DEF Rename, Dispatch, Writeback, Issue, links, history, ExecuteSquashed, ExecuteInst,
         ExecuteTLBMiss, ExecuteLoadMiss, ExecuteLoadBlocked
<1>3. ASSUME NEW i \in Insts, ExecuteLoad(i)
      PROVE  /\ UNCHANGED violSeq
             /\ readFrom'[b] = readFrom[b] \/ (ExecuteLoad(b) /\ readFrom'[b] = Source(b))
  <2>1. UNCHANGED violSeq /\ readFrom' = [readFrom EXCEPT ![i] = Source(i)]
    BY <1>3, Zenon DEF ExecuteLoad, links
  <2>2. CASE i = b
    BY <1>0, <1>3, <2>1, <2>2, Zenon DEF TypeOK
  <2>3. CASE i # b
    BY <1>0, <1>3, <2>1, <2>3, Zenon DEF TypeOK
  <2> QED BY <2>1, <2>2, <2>3, Zenon
<1>4. ASSUME NEW i \in Insts, ExecuteStore(i)
      PROVE  /\ UNCHANGED readFrom
             /\ violSeq'[b] = violSeq[b] \/ (ExecuteStore(b) /\ violSeq'[b] = Violator(b))
  <2>1. UNCHANGED readFrom /\ (violSeq' = violSeq \/ violSeq' = [violSeq EXCEPT ![i] = Violator(i)])
    BY <1>4, Zenon DEF ExecuteStore, history
  <2>2. CASE i = b
    BY <1>0, <1>4, <2>1, <2>2, Zenon DEF TypeOK
  <2>3. CASE i # b
    BY <1>0, <1>4, <2>1, <2>3, Zenon DEF TypeOK
  <2> QED BY <2>1, <2>2, <2>3, Zenon
<1>5. CASE IEWSquash
  BY <1>1, <1>5, Zenon DEF IEWSquash
<1>6. CASE CommitPendingRedirect \/ CommitSignalledSquash \/ CommitNoSquash
  <2>1. CASE Resume
    BY <2>1, Zenon DEF Resume, links
  <2>2. ASSUME NEW S, NEW q, SquashStep(S, q)
        PROVE  /\ violSeq'[b] \in {violSeq[b], 0}
               /\ readFrom'[b] = readFrom[b] \/ b \in squashed' \/ stage[b] = "renamed"
    <3>1. \E D : Forget(S \cup D) /\ D = {i \in Insts : stage[i] = "renamed"} /\ squashed' = squashed \cup S
      BY <2>2, Zenon DEF SquashStep, Squash
    <3> QED BY <1>1, <3>1, Zenon
  <2> QED BY <1>6, <2>1, <2>2, CommitEffect, Zenon
<1>7. CASE SafeTick \/ RetireSquashed \/ RetireHead \/ EndCommit \/ UNCHANGED vars
  BY <1>7, Zenon DEF SafeTick, RetireSquashed, RetireHead, EndCommit, vars, status, links, history
<1> QED BY <1>2, <1>3, <1>4, <1>5, <1>6, <1>7, StepCases, Zenon DEF FrontStep, Execute

\* What must not retire as it is stays covered.
LEMMA CoverInvStep ==
    ASSUME PipeInv, ViolSeqInv, CoverInv, [Next]_vars, ~CacheBlocks
    PROVE  CoverInv'
<1>0. TypeOK /\ TypeOK' /\ prog' = prog /\ squashed \subseteq squashed' /\ PipeInv
  BY TypeStep, StageFactsStep, ReadyStays, Zenon DEF PipeInv, StageFacts
<1>1. \A k : IsLoad(k)' = IsLoad(k) /\ IsStore(k)' = IsStore(k)
  BY <1>0, Zenon DEF IsLoad, IsStore, Kind
<1> SUFFICES ASSUME NEW b \in (InROB \ squashed)'
             PROVE  /\ stage'[b] \in Executed /\ Unsettled(b)' => Covered(b)'
                    /\ violSeq'[b] \in (InROB \ squashed)' => Covered(violSeq[b])'
                    /\ IsLoad(b)' /\ stage'[b] \in {"access", "done", "wb"} =>
                          Covered(b)' \/ readFrom'[b] = Source(b)'
  BY Zenon DEF CoverInv
<1>2. b \in Insts /\ b \notin squashed /\ b \in Nat /\ b \notin squashed' /\ b \in InROB'
  BY <1>0, Numbers, Zenon DEF InROB
<1>3. b \in InROB \/ stage'[b] = "rob"
  BY <1>2, EntersROB, Zenon
<1>4. ASSUME stage'[b] \in Executed, Unsettled(b)' PROVE Covered(b)'
  <2>1. b \in InROB
    BY <1>3, <1>4, Zenon DEF Executed
  <2>2. Unsettled(b)
    BY <1>2, <1>4, <2>1, SettledStays, Zenon DEF InROB
  <2>3. CASE stage[b] \in Executed
    <3>1. Covered(b)
      BY <1>2, <2>1, <2>2, <2>3, Zenon DEF CoverInv
    <3>2. ~(b \in redirected' /\ b \notin ctlInd')
      BY <1>4, Zenon DEF Unsettled
    <3> QED BY <1>2, <2>1, <3>1, <3>2, CoverKept, Zenon
  <2>4. CASE ExecuteInst(b)
    <3>1. toCommit.squash \in 0..N
      BY <1>0, Zenon DEF TypeOK
    <3>2. CASE MayRedirect(b) /\ prog[b].bad
      <4>1. toCommit' = [toCommit EXCEPT !.squash = b, !.include = FALSE]
        BY <2>4, <3>2, Zenon DEF ExecuteInst
      <4>2. b = toCommit'.squash
        BY <1>0, <4>1, Zenon DEF TypeOK
      <4>3. b \in Coming' /\ b <= b
        BY <1>2, <4>2 DEF Coming
      <4> QED BY <4>3, Zenon DEF Covered
    <3>3. CASE MayRedirect(b) /\ ~prog[b].bad
      BY <1>0, <1>4, <2>4, <3>3, Zenon DEF ExecuteInst, Unsettled
    <3>4. CASE ~MayRedirect(b)
      <4>1. toCommit' = toCommit
        BY <2>4, <3>4, Zenon DEF ExecuteInst
      <4>2. toCommit.squash \in Insts /\ toCommit.squash <= b
        BY <1>2, <3>1, <3>4, Numbers DEF MayRedirect
      <4>3. toCommit.squash \in Coming'
        BY <4>1, <4>2, Zenon DEF Coming
      <4> QED BY <4>2, <4>3, Zenon DEF Covered
    <3> QED BY <3>2, <3>3, <3>4, Zenon
  <2>5. ASSUME IsLoad(b) \/ IsStore(b) PROVE FALSE
    <3>1. prog[b].bad => Kind(b) \in {"branch", "jump"}
      BY <1>0, <1>2, ProgramAssumption, Zenon DEF TypeOK, Kind
    <3>2. b \in ctlInd => Kind(b) = "branch"
      BY Zenon DEF PipeInv, StatusInv
    <3> QED BY <2>2, <2>5, <3>1, <3>2, Zenon DEF Unsettled, IsLoad, IsStore
  <2>6. ExecuteStore(b) \/ ExecuteLoad(b) => FALSE
    BY <2>5, Zenon DEF ExecuteStore, ExecuteLoad
  <2>7. stage[b] = "access" => FALSE
    BY <1>2, <2>5, Zenon DEF PipeInv, StatusInv
  <2> QED BY <1>2, <1>4, <2>1, <2>3, <2>4, <2>6, <2>7, StageAdvance, Zenon DEF Executed
<1>5. ASSUME violSeq'[b] \in (InROB \ squashed)' PROVE Covered(violSeq[b])'
  <2>1. PICK v : v = violSeq'[b]
    BY Zenon
  <2>2. v \in Insts /\ v \in InROB' /\ v \notin squashed' /\ v # 0
    BY <1>5, <2>1, Numbers, Zenon DEF InROB
  <2>3. CASE v = violSeq[b]
    <3>1. v > b /\ v \in effValid /\ IsLoad(v)
      BY <1>2, <2>2, <2>3, Zenon DEF ViolSeqInv
    <3>2. v \in InROB /\ b \in InROB
      <4>1. stage[v] \notin {"none", "renamed"}
        BY <3>1, Zenon DEF PipeInv, StatusInv
      <4>2. v \in InROB
        BY <2>2, <4>1, EntersROB, Zenon
      <4>3. stage[b] \notin {"none", "renamed"}
        BY <1>2, <2>2, <3>1, <4>1, Numbers, Zenon DEF PipeInv, InOrder
      <4> QED BY <1>2, <4>2, <4>3, EntersROB, Zenon
    <3>3. Covered(v)
      BY <1>0, <1>2, <2>2, <2>3, <3>2, Zenon DEF CoverInv
    <3>4. Covered(v)'
      BY <2>2, <3>1, <3>2, <3>3, CoverKept, Zenon
    <3> QED BY <2>1, <3>4, Zenon
  <2>4. CASE ExecuteStore(b) /\ v = Violator(b)
    <3>1. v <= v
      BY <2>2, Numbers
    <3>2. Covered(v)'
      BY <1>2, <2>2, <2>4, <3>1, StoreCovers, Zenon
    <3> QED BY <2>1, <3>2
  <2> QED BY <1>2, <2>1, <2>2, <2>3, <2>4, LinksKept, Zenon
<1>6. ASSUME IsLoad(b), stage'[b] \in {"access", "done", "wb"}, ~Covered(b)'
      PROVE  readFrom'[b] = Source(b)'
  <2>1. b \in InROB
    BY <1>3, <1>6
  <2>2. ASSUME Covering(b)' = Covering(b) PROVE Source(b)' = Source(b)
    BY <2>2, Zenon DEF Source, MaxOr0
  <2>3. CASE ExecuteLoad(b)
    <3>1. 1..(b-1) \subseteq Insts /\ b \notin 1..(b-1)
      BY <1>2, NAssumption DEF Insts
    <3>2. /\ \A s \in 1..(b-1) : stage'[s] = stage[s]
          /\ \A s \in 1..(b-1) : s \in effValid' <=> s \in effValid
          /\ UNCHANGED squashed
      BY <1>0, <2>3, <3>1, Zenon DEF ExecuteLoad, TypeOK
    <3>3. Covering(b)' = Covering(b)
      BY <1>0, <1>1, <3>2, Zenon DEF Covering
    <3>4. readFrom'[b] = Source(b)
      BY <1>0, <1>2, <2>3, Zenon DEF ExecuteLoad, TypeOK
    <3> QED BY <2>2, <3>3, <3>4, Zenon
  <2>4. CASE stage[b] \in {"access", "done", "wb"}
    <3>1. ~Covered(b)
      BY <1>2, <1>6, <2>1, CoverKept, Zenon
    <3>2. readFrom[b] = Source(b)
      BY <1>2, <1>6, <2>1, <2>4, <3>1, Zenon DEF CoverInv
    <3>3. Covering(b)' = Covering(b)
      BY <1>2, <1>6, <2>1, <2>4, CoveringKept, Zenon
    <3>4. readFrom'[b] = readFrom[b]
      <4>1. ~ExecuteLoad(b)
        BY <2>4, Zenon DEF ExecuteLoad, NextToExecute
      <4> QED BY <1>2, <2>4, <4>1, LinksKept, Zenon
    <3> QED BY <2>2, <3>2, <3>3, <3>4, Zenon
  <2>5. ~ExecuteInst(b) /\ ~ExecuteStore(b)
    BY <1>6 DEF ExecuteInst, ExecuteStore, IsLoad, IsStore
  <2> QED BY <1>2, <1>6, <2>3, <2>4, <2>5, StageAdvance, Zenon
<1> QED BY <1>1, <1>4, <1>5, <1>6, Zenon


\* What retires is settled.
LEMMA SettledStep ==
    ASSUME PipeInv, CoverInv, SettledInv, [Next]_vars
    PROVE  SettledInv'
<1>0. squashed \subseteq squashed'
  BY ReadyStays, Zenon
<1> SUFFICES ASSUME NEW b \in Insts, b \notin squashed', stage'[b] = "retired", Unsettled(b)'
             PROVE  FALSE
  BY Zenon DEF SettledInv
<1>1. CASE stage[b] = "retired"
  BY <1>0, <1>1, SettledStays, Zenon DEF SettledInv
<1>2. CASE HeadReady /\ b = Head /\ stage[b] \in Executed /\ b \in InROB
  <2>1. Unsettled(b)
    BY <1>2, SettledStays, Zenon DEF InROB
  <2>2. Covered(b)
    BY <1>0, <1>2, <2>1, Zenon DEF CoverInv
  <2> QED BY <1>0, <1>2, <2>2, HeadNotCovered, Zenon
<1>3. ExecuteInst(b) \/ ExecuteStore(b) \/ ExecuteLoad(b) \/ Writeback(b) => stage'[b] # "retired"
  <2>1. TypeOK
    BY Zenon DEF PipeInv
  <2> QED BY <2>1, Zenon DEF ExecuteInst, ExecuteStore, ExecuteLoad, Writeback, TypeOK
<1> QED BY <1>1, <1>2, <1>3, StageAdvance, Zenon

\* Instructions on a wrong path stay behind the branch that mispredicted, until
\* a squash passes them.
LEMMA WrongStep ==
    ASSUME PipeInv, CoverInv, SettledInv, WrongInv, [Next]_vars
    PROVE  WrongInv'
<1>0. TypeOK /\ TypeOK' /\ prog' = prog /\ squashed \subseteq squashed' /\ SquashInv'
  BY TypeStep, StageFactsStep, ReadyStays, SquashInvStep, Zenon DEF PipeInv, StageFacts
<1> DEFINE Behind(i, b) == b < i /\ b <= youngest /\ prog[b].bad /\ b \notin redirected
           Good(i) == \/ i \in InROB /\ i > youngest
                      \/ /\ i \in InROB \/ stage[i] = "renamed"
                         /\ \E b \in InROB \ squashed : Behind(i, b)
<1>1. \A i \in wrong \ squashed : Good(i)
  BY Zenon DEF WrongInv
<1>2. SUFFICES ASSUME NEW i \in Insts, i \in wrong', i \notin squashed' PROVE Good(i)'
  <2>1. wrong' \subseteq Insts
    BY <1>0, Zenon DEF TypeOK
  <2> QED BY <2>1, Zenon DEF WrongInv
<1>3. i \notin squashed /\ i \in Nat /\ youngest \in Nat /\ youngest' \in Nat
  BY <1>0, <1>2, Numbers, Zenon DEF TypeOK
<1>4. ASSUME i \in wrong, InROB' = InROB, stage[i] = "renamed" => stage'[i] = "renamed",
             UNCHANGED <<youngest, redirected>>, \A b \in squashed' \ squashed : b > youngest
      PROVE  Good(i)'
  <2>1. Good(i)
    BY <1>1, <1>3, <1>4, Zenon
  <2>2. ASSUME NEW b \in InROB \ squashed, Behind(i, b) PROVE b \in (InROB \ squashed)' /\ Behind(i, b)'
    <3>1. b \in Nat /\ ~(b > youngest)
      BY <1>3, <2>2, Numbers DEF InROB
    <3> QED BY <1>0, <1>4, <2>2, <3>1, Zenon
  <2> HIDE DEF Behind
  <2> QED BY <1>4, <2>1, <2>2, Zenon
<1>5. ASSUME NEW k \in Insts, Rename(k), k = i PROVE Good(i)'
  <2>1. /\ phase = "rename" /\ commitStatus = "Running" /\ stage[i] = "none"
        /\ \A j \in 1..(i-1) : stage[j] # "none"
        /\ stage' = [stage EXCEPT ![i] = "renamed"] /\ UNCHANGED <<squashed, redirected, youngest>>
    BY <1>5, Zenon DEF Rename, robState
  <2>2. InROB' = InROB
    BY <1>0, <1>5, FrontStepROB, Zenon DEF FrontStep
  <2>3. i \notin wrong
    BY <1>1, <1>3, <2>1, Zenon DEF InROB
  <2>4. PICK b \in 1..(i-1) : b \notin squashed /\ prog[b].bad /\ b \notin redirected
    BY <1>2, <1>5, <2>3, Zenon DEF Rename
  <2>5. b \in Insts /\ b < i /\ b \in Nat
    BY <1>3, NAssumption DEF Insts
  <2>6. stage[b] \notin {"none", "renamed"}
    BY <2>1, <2>5, Zenon DEF PipeInv, InOrder
  <2>7. stage[b] # "retired"
    BY <2>4, <2>5, Zenon DEF SettledInv, Unsettled
  <2>8. b \in InROB
    BY <2>5, <2>6, <2>7, Zenon DEF InROB
  <2>9. b <= youngest
    <3>1. SquashInv
      BY Zenon DEF PipeInv
    <3> QED BY <1>3, <2>1, <2>4, <2>5, <2>8, <3>1 DEF SquashInv
  <2>10. stage'[i] = "renamed"
    BY <1>0, <2>1, Zenon DEF TypeOK
  <2> QED BY <1>0, <2>1, <2>2, <2>4, <2>5, <2>8, <2>9, <2>10, Zenon
<1>6. CASE FrontStep /\ ~Rename(i)
  <2>1. InROB' = InROB /\ UNCHANGED youngest
    BY <1>0, <1>6, FrontStepROB, Zenon DEF robState
  <2>2. stage[i] = "renamed" => stage'[i] = "renamed"
    <3>1. \A k \in InROB : stage[k] # "renamed"
      BY Zenon DEF InROB
    <3>2. CASE UNCHANGED stage
      BY <3>2, Zenon
    <3>3. ASSUME NEW k \in Insts, Rename(k), stage' = [stage EXCEPT ![k] = "renamed"]
          PROVE  stage[i] = "renamed" => stage'[i] = "renamed"
      BY <1>0, <3>3, Zenon DEF TypeOK
    <3>4. ASSUME NEW k \in InROB, NEW x, stage' = [stage EXCEPT ![k] = x]
          PROVE  stage[i] = "renamed" => stage'[i] = "renamed"
      BY <1>0, <3>1, <3>4, Zenon DEF TypeOK
    <3> QED BY <1>0, <1>6, <3>2, <3>3, <3>4, FrontStage, Zenon
  <2>3. i \in wrong /\ UNCHANGED redirected
    <3>1. ASSUME NEW k \in Insts, Rename(k) PROVE i \in wrong /\ UNCHANGED redirected
      <4>1. k # i
        BY <1>6, <3>1
      <4> QED BY <1>2, <3>1, <4>1, Zenon DEF Rename
    <3>2. CASE ~\E k \in Insts : Rename(k)
      <4>1. UNCHANGED <<wrong, redirected>>
        BY <1>6, <3>2, ZenonT(60) DEF FrontStep, Dispatch, Execute, ExecuteSquashed, ExecuteInst, ExecuteTLBMiss,
           ExecuteLoad, ExecuteLoadMiss, ExecuteLoadBlocked, ExecuteStore, Writeback, Issue,
           IEWSquash, SafeTick, history
      <4> QED BY <1>2, <4>1, Zenon
    <3> QED BY <3>1, <3>2, Zenon
  <2>4. \A b \in squashed' \ squashed : b > youngest
    <3>1. CASE IEWSquash
      <4>1. PICK dead : squashed' = squashed \cup dead /\ \A k \in dead : k > toIEW
        <5> DEFINE younger == {k \in InROB : k > toIEW}
                   lsq == {k \in younger : stage[k] # "rob" /\ (IsLoad(k) \/ IsStore(k))}
                   iq == {k \in younger : stage[k] = "queued" \/ (k \in lsq /\ stage[k] # "wb")}
        <5>1. squashed' = squashed \cup (iq \cup lsq)
          BY <3>1, Zenon DEF IEWSquash
        <5>2. \A k \in iq \cup lsq : k > toIEW
          BY Zenon
        <5> HIDE DEF iq, lsq
        <5> QED BY <5>1, <5>2, Zenon
      <4>2. toIEW = youngest
        BY <3>1, Zenon DEF IEWSquash, PipeInv, LastSquash
      <4> QED BY <4>1, <4>2
    <3>2. CASE ~IEWSquash
      <4>1. UNCHANGED squashed
        BY <1>6, <3>2, ZenonT(60) DEF FrontStep, Rename, Dispatch, Execute, ExecuteSquashed, ExecuteInst, ExecuteTLBMiss,
           ExecuteLoad, ExecuteLoadMiss, ExecuteLoadBlocked, ExecuteStore, Writeback, Issue, SafeTick
      <4> QED BY <4>1, Zenon
    <3> QED BY <3>1, <3>2
  <2> QED BY <1>4, <2>1, <2>2, <2>3, <2>4, Zenon
<1>7. CASE CommitPendingRedirect \/ CommitSignalledSquash \/ CommitNoSquash
  <2>1. CASE Resume
    <3>1. /\ \A k \in Insts : stage'[k] = IF stage[k] = "renamed" THEN "rob" ELSE stage[k]
          /\ UNCHANGED <<squashed, redirected, wrong>> /\ commitStatus' = "Running"
      BY <2>1, Zenon DEF Resume
    <3>2. InROB \subseteq InROB' /\ (stage[i] = "renamed" => i \in InROB')
      BY <1>2, <3>1, Zenon DEF InROB
    <3>3. Good(i)
      BY <1>1, <1>2, <1>3, <3>1, Zenon
    <3>4. ~(i \in InROB /\ i > youngest)
      <4>1. squashIt = 0 => ~(i <= squashIt)
        BY <1>2, Numbers
      <4> QED BY <1>3, <2>1, <4>1, Zenon DEF Resume, PipeInv, SquashInv
    <3>5. ASSUME NEW b \in InROB \ squashed, Behind(i, b) PROVE b \in (InROB \ squashed)' /\ Behind(i, b)'
      <4>1. b \in InROB' /\ b \notin squashed' /\ b \in Nat
        BY <3>1, <3>2, <3>5, Numbers, Zenon DEF InROB
      <4>2. b <= youngest'
        BY <1>0, <1>3, <3>1, <4>1 DEF SquashInv
      <4> QED BY <1>0, <3>1, <3>5, <4>1, <4>2, Zenon
    <3> HIDE DEF Behind
    <3> QED BY <3>2, <3>3, <3>4, <3>5, Zenon
  <2>2. ASSUME NEW S, NEW q, SquashStep(S, q) PROVE Good(i)'
    <3>1. /\ \A k \in Insts : stage'[k] = IF stage[k] = "renamed" THEN "none" ELSE stage[k]
          /\ squashed' = squashed \cup S /\ wrong' = wrong \ {k \in Insts : stage[k] = "renamed"}
          /\ \A j \in S : j > youngest'
          /\ youngest' <= youngest
          /\ redirected' \subseteq redirected \cup {youngest'}
      <4>1. Squash(S, q) /\ (\A j \in S : j > youngest') /\ youngest' <= youngest
            /\ redirected' \subseteq redirected \cup {youngest'}
        BY <2>2, Zenon DEF SquashStep
      <4>2. /\ stage' = [k \in Insts |-> IF stage[k] = "renamed" THEN "none" ELSE stage[k]]
            /\ squashed' = squashed \cup S /\ wrong' = wrong \ {k \in Insts : stage[k] = "renamed"}
        BY <4>1, Zenon DEF Squash
      <4> QED BY <4>1, <4>2, Zenon
    <3>2. InROB' = InROB /\ i \in wrong /\ stage[i] # "renamed"
      BY <1>2, <3>1, Zenon DEF InROB
    <3>3. Good(i) /\ i \in InROB
      BY <1>1, <1>3, <3>2, Zenon
    <3>4. CASE i > youngest'
      BY <3>2, <3>3, <3>4, Zenon
    <3>5. CASE i <= youngest'
      <4>1. PICK b \in InROB \ squashed : Behind(i, b)
        BY <1>3, <3>1, <3>3, <3>5, SMTT(60)
      <4>2. b \in Nat /\ b < i
        BY <4>1, Numbers, Zenon DEF InROB
      <4>3. b \notin S /\ b # youngest' /\ b <= youngest'
        BY <1>3, <3>1, <3>5, <4>2
      <4>4. b \in (InROB \ squashed)' /\ Behind(i, b)'
        BY <1>0, <3>1, <3>2, <4>1, <4>3, Zenon
      <4> HIDE DEF Behind
      <4> QED BY <3>2, <3>3, <4>4, Zenon
    <3> QED BY <1>3, <3>4, <3>5
  <2> QED BY <1>7, <2>1, <2>2, CommitEffect, Zenon
<1>8. CASE RetireSquashed \/ RetireHead
  <2>1. /\ HeadReady /\ stage' = [stage EXCEPT ![Head] = "retired"]
        /\ UNCHANGED <<squashed, redirected, youngest, wrong>>
    BY <1>8, Zenon DEF RetireSquashed, RetireHead, status, robState, history
  <2>2. PICK h \in Insts : /\ h = Head /\ h \in InROB /\ \A j \in InROB : h <= j
                           /\ h \notin squashed => h <= youngest /\ stage[h] \in Executed
    BY <2>1, RetireFacts, Zenon
  <2>3. \A k \in Insts : stage'[k] = IF k = h THEN "retired" ELSE stage[k]
    BY <1>0, <2>1, <2>2, Zenon DEF TypeOK
  <2>4. InROB' = InROB \ {h}
    BY <2>2, <2>3, Zenon DEF InROB
  <2>5. ASSUME h \notin squashed PROVE ~Unsettled(h)
    BY <2>1, <2>2, <2>5, HeadNotCovered, Zenon DEF CoverInv
  <2>6. Good(i)
    BY <1>1, <1>2, <1>3, <2>1, Zenon
  <2>7. i # h
    <3>1. ASSUME i = h PROVE FALSE
      <4>1. i \in InROB /\ stage[i] # "renamed" /\ i <= youngest /\ \A j \in InROB : j \in Nat /\ i <= j
        BY <1>3, <2>2, <3>1, Numbers, Zenon DEF InROB
      <4> QED BY <1>3, <2>6, <4>1
    <3> QED BY <3>1
  <2>8. ASSUME NEW b \in InROB \ squashed, Behind(i, b) PROVE b \in (InROB \ squashed)' /\ Behind(i, b)'
    <3>1. b # h
      BY <2>5, <2>8, Zenon DEF Unsettled
    <3> QED BY <1>0, <2>1, <2>4, <2>8, <3>1, Zenon
  <2>9. stage'[i] = stage[i] /\ (i \in InROB => i \in InROB')
    BY <1>2, <2>3, <2>4, <2>7, Zenon
  <2> HIDE DEF Behind
  <2> QED BY <2>1, <2>6, <2>8, <2>9, Zenon
<1>9. CASE EndCommit \/ UNCHANGED vars
  <2>1. UNCHANGED <<stage, wrong, youngest, redirected, squashed>>
    BY <1>9, Zenon DEF EndCommit, vars, status, robState, history
  <2>2. InROB' = InROB
    BY <2>1, Zenon DEF InROB
  <2> HIDE DEF Good
  <2> QED BY <1>2, <1>4, <2>1, <2>2, Zenon
<1> HIDE DEF Good
<1> QED BY <1>2, <1>5, <1>6, <1>7, <1>8, <1>9, StepCases, Zenon

\* The invariant behind the theorems on retirement.
RetireInv == PipeInv /\ ViolSeqInv /\ CoverInv /\ SettledInv /\ WrongInv

\* It holds in every reachable state.
LEMMA RetireInvHolds ==
    ASSUME ~CacheBlocks
    PROVE  Spec => []RetireInv
<1>1. Init => ViolSeqInv /\ CoverInv /\ SettledInv /\ WrongInv
  <2> SUFFICES ASSUME Init PROVE ViolSeqInv /\ CoverInv /\ SettledInv /\ WrongInv
    OBVIOUS
  <2>1. \A i \in Insts : stage[i] = "none" /\ violSeq[i] = 0
    BY Zenon DEF Init
  <2>2. InROB = {} /\ wrong = {}
    BY <2>1, Zenon DEF InROB, Init
  <2> QED BY <2>1, <2>2, Zenon DEF ViolSeqInv, CoverInv, SettledInv, WrongInv
<1>2. PipeInv /\ (ViolSeqInv /\ CoverInv /\ SettledInv /\ WrongInv) /\ [Next]_vars
        => (ViolSeqInv /\ CoverInv /\ SettledInv /\ WrongInv)'
  BY ViolSeqStep, CoverInvStep, SettledStep, WrongStep, Zenon
<1> QED BY <1>1, <1>2, PipeInvHolds, PTL DEF Spec, RetireInv

\* Nothing fetched behind a mispredicted branch retires, in whatever order the
\* branches execute, their redirects are held back and become safe, and squashes
\* overtake each other.
THEOREM WrongPathNeverRetires ==
    ASSUME ~CacheBlocks
    PROVE  Spec => []NoWrongPathRetires
<1>1. RetireInv => NoWrongPathRetires
  BY Zenon DEF RetireInv, WrongInv, NoWrongPathRetires, Retired, InROB
<1> QED BY <1>1, RetireInvHolds, PTL


\* Only entries of the ROB are squashed.
LEMMA SquashesROB ==
    ASSUME PipeInv, [Next]_vars
    PROVE  squashed' \subseteq squashed \cup InROB
<1>1. CASE IEWSquash
  <2>1. PICK dead : squashed' = squashed \cup dead /\ dead \subseteq InROB
    BY <1>1, Zenon DEF IEWSquash
  <2> QED BY <2>1, Zenon
<1>2. CASE FrontStep /\ ~IEWSquash
  <2>1. UNCHANGED squashed
    BY <1>2, ZenonT(60) DEF FrontStep, Rename, Dispatch, Execute, ExecuteSquashed, ExecuteInst, ExecuteTLBMiss,
       ExecuteLoad, ExecuteLoadMiss, ExecuteLoadBlocked, ExecuteStore, Writeback, Issue, SafeTick
  <2> QED BY <2>1, Zenon
<1>3. CASE CommitPendingRedirect \/ CommitSignalledSquash \/ CommitNoSquash
  BY <1>3, CommitEffect, Zenon DEF Resume, SquashStep, Squash
<1>4. CASE RetireSquashed \/ RetireHead \/ EndCommit \/ UNCHANGED vars
  BY <1>4, Zenon DEF RetireSquashed, RetireHead, EndCommit, vars, status
<1> QED BY <1>1, <1>2, <1>3, <1>4, StepCases, Zenon

\* What is older than a retired instruction, or than the head, has retired.
LEMMA OlderRetired ==
    ASSUME PipeInv, NEW l \in Insts, stage[l] = "retired" \/ (HeadReady /\ l = Head)
    PROVE  \A s \in 1..(l-1) : s \in Insts /\ stage[s] = "retired"
<1> SUFFICES ASSUME NEW s \in 1..(l-1) PROVE s \in Insts /\ stage[s] = "retired"
  BY Zenon
<1>1. s \in Insts /\ s < l /\ s \in Nat /\ l \in Nat
  BY NAssumption, Numbers DEF Insts
<1>2. CASE stage[l] = "retired"
  BY <1>1, <1>2, Zenon DEF PipeInv, InOrder
<1>3. CASE HeadReady /\ l = Head
  <2>1. l \in InROB /\ \A j \in InROB : l <= j
    BY <1>3, RetireFacts, Zenon
  <2>2. stage[l] # "none" /\ s \notin InROB
    BY <1>1, <2>1, SMTT(60) DEF InROB
  <2>3. stage[s] \notin {"none", "renamed"}
    BY <1>1, <2>2, Zenon DEF PipeInv, InOrder
  <2> QED BY <1>1, <2>2, <2>3, Zenon DEF InROB
<1> QED BY <1>2, <1>3, Zenon

\* A load that retires has read the youngest older store to its address, and
\* what has retired does not change.
LEMMA LoadsReadStep ==
    ASSUME PipeInv, CoverInv, LoadsReadLatestStore, [Next]_vars
    PROVE  LoadsReadLatestStore'
<1>0. TypeOK /\ prog' = prog /\ squashed \subseteq squashed'
  BY StageFactsStep, ReadyStays, Zenon DEF PipeInv, StageFacts
<1>1. \A k : IsLoad(k)' = IsLoad(k) /\ IsStore(k)' = IsStore(k)
  BY <1>0, Zenon DEF IsLoad, IsStore, Kind
<1> DEFINE Older(l) == {s \in 1..(l-1) : /\ IsStore(s) /\ s \notin squashed
                                          /\ prog[s].addr = prog[l].addr}
<1> SUFFICES ASSUME NEW l \in Insts, stage'[l] = "retired", l \notin squashed', IsLoad(l)
             PROVE  readFrom'[l] = MaxOr0(Older(l)')
  BY <1>1, Zenon DEF LoadsReadLatestStore, Retired, MaxOr0
<1>2. ASSUME \A s \in 1..(l-1) : s \in Insts /\ stage[s] = "retired" PROVE Older(l)' = Older(l)
  <2>1. \A s \in 1..(l-1) : s \in squashed' <=> s \in squashed
    BY <1>0, <1>2, SquashesROB, Zenon DEF InROB
  <2> QED BY <1>0, <1>1, <2>1, Zenon
<1>3. CASE stage[l] = "retired"
  <2>1. readFrom[l] = MaxOr0(Older(l))
    BY <1>0, <1>3, Zenon DEF LoadsReadLatestStore, Retired
  <2>2. Older(l)' = Older(l)
    BY <1>2, <1>3, OlderRetired, Zenon
  <2>3. readFrom'[l] = readFrom[l]
    <3>1. ~ExecuteLoad(l)
      BY <1>3, Zenon DEF ExecuteLoad, NextToExecute
    <3> QED BY <1>3, <3>1, LinksKept, Zenon
  <2> HIDE DEF Older
  <2> QED BY <2>1, <2>2, <2>3, Zenon
<1>4. CASE RetireHead /\ HeadReady /\ l = Head /\ stage[l] \in Executed /\ l \in InROB
  <2>1. \A s \in 1..(l-1) : s \in Insts /\ stage[s] = "retired"
    BY <1>4, OlderRetired, Zenon
  <2>2. Covering(l) = Older(l)
    BY <2>1, Zenon DEF Covering
  <2>3. Older(l)' = Older(l)
    BY <1>2, <2>1, Zenon
  <2>4. ~Covered(l) /\ l \notin squashed
    BY <1>0, <1>4, HeadNotCovered, Zenon
  <2>5. readFrom[l] = Source(l)
    BY <1>4, <2>4, Zenon DEF CoverInv, Executed, InROB
  <2>6. UNCHANGED readFrom
    BY <1>4, Zenon DEF RetireHead, history
  <2> HIDE DEF Older
  <2> QED BY <2>2, <2>3, <2>5, <2>6, Zenon DEF Source
<1>5. ExecuteInst(l) \/ ExecuteStore(l) \/ ExecuteLoad(l) \/ Writeback(l) => stage'[l] # "retired"
  BY <1>0, Zenon DEF ExecuteInst, ExecuteStore, ExecuteLoad, Writeback, TypeOK
<1> HIDE DEF Older
<1> QED BY <1>3, <1>4, <1>5, StageAdvance, Zenon

\* A load that retires has read the value of the youngest older store to its
\* address: every violation executeStore() finds ends in a squash of the load.
THEOREM RetiredLoadsAreRight ==
    ASSUME ~CacheBlocks
    PROVE  Spec => []LoadsReadLatestStore
<1>1. Init => LoadsReadLatestStore
  BY Zenon DEF Init, LoadsReadLatestStore, Retired
<1>2. RetireInv /\ LoadsReadLatestStore /\ [Next]_vars => LoadsReadLatestStore'
  BY LoadsReadStep, Zenon DEF RetireInv
<1> QED BY <1>1, <1>2, RetireInvHolds, PTL DEF Spec

-----------------------------------------------------------------------------
(***************************************************************************)
(* What retires is safe.                                                   *)
(***************************************************************************)

\* The safety status has been updated since the last instruction executed.
Updated == phase \in {"writeback", "issue"} \/ (phase = "retire" /\ commitStatus = "Running")

\* Data inducers are loads of the ROB.
DataInducers == \A i \in dataInd : i \in InROB /\ IsLoad(i)
\* The youngest data inducer of an instruction is older.
InducersOlder == \A i \in Insts : ydi[i] < i

\* Data inducers stay loads of the ROB until they retire.
LEMMA DataInducersStep ==
    ASSUME PipeInv, DataInducers, [Next]_vars
    PROVE  DataInducers'
<1>0. TypeOK /\ TypeOK' /\ prog' = prog
  BY TypeStep, StageFactsStep DEF PipeInv, StageFacts
<1>1. \A k : IsLoad(k)' = IsLoad(k)
  BY <1>0 DEF IsLoad, Kind
<1>2. CASE FrontStep
  <2>1. InROB' = InROB
    BY <1>0, <1>2, FrontStepROB, Zenon
  <2>2. ASSUME NEW i \in Insts, ExecuteLoad(i) \/ Writeback(i)
        PROVE  \A k \in dataInd' : k \in dataInd \/ (k \in InROB /\ IsLoad(k))
    <3>1. i \in InROB
      BY <2>2, Zenon DEF ExecuteLoad, NextToExecute, Writeback, InROB
    <3>2. dataInd' \subseteq dataInd \/ (IsLoad(i) /\ dataInd' \subseteq dataInd \cup {i})
      BY <2>2, Zenon DEF ExecuteLoad, Writeback, InducesAtWriteback
    <3> QED BY <3>1, <3>2, Zenon
  <2>3. ASSUME NEW i \in Insts, Rename(i) \/ Dispatch(i) \/ Issue(i) \/ ExecuteSquashed(i)
                 \/ ExecuteInst(i) \/ ExecuteTLBMiss(i) \/ ExecuteLoadMiss(i)
                 \/ ExecuteLoadBlocked(i) \/ ExecuteStore(i)
        PROVE  dataInd' \subseteq dataInd
    BY <2>3, ZenonT(60) DEF Rename, Dispatch, Issue, ExecuteSquashed, ExecuteInst, ExecuteTLBMiss,
                ExecuteLoadMiss, ExecuteLoadBlocked, ExecuteStore
  <2>4. \A k \in dataInd' : k \in dataInd \/ (k \in InROB /\ IsLoad(k))
    <3>1. CASE IEWSquash
      BY <3>1, Zenon DEF IEWSquash, Forget
    <3>2. CASE SafeTick
      BY <1>0, <3>2, TickEffect, Zenon DEF SafeTick, TypeOK
    <3> QED BY <1>2, <2>2, <2>3, <3>1, <3>2, Zenon DEF FrontStep, Execute
  <2> QED BY <1>1, <2>1, <2>4, Zenon DEF DataInducers
<1>3. CASE CommitPendingRedirect \/ CommitSignalledSquash \/ CommitNoSquash
  <2>1. dataInd' \subseteq dataInd
    <3>1. CASE Resume
      BY <3>1, Zenon DEF Resume
    <3>2. ASSUME NEW S, NEW q, SquashStep(S, q) PROVE dataInd' \subseteq dataInd
      BY <3>2, Zenon DEF SquashStep, Squash, Forget
    <3> QED BY <1>3, <3>1, <3>2, CommitEffect, Zenon
  <2>2. InROB \subseteq InROB'
    <3>1. \/ stage' = [i \in Insts |-> IF stage[i] = "renamed" THEN "rob" ELSE stage[i]]
          \/ stage' = [i \in Insts |-> IF stage[i] = "renamed" THEN "none" ELSE stage[i]]
      BY <1>3, CommitEffect, Zenon DEF Resume, SquashStep, Squash
    <3> QED BY <3>1, Zenon DEF InROB
  <2> QED BY <1>1, <2>1, <2>2, Zenon DEF DataInducers
<1>4. CASE RetireSquashed \/ RetireHead
  <2>1. HeadReady /\ stage' = [stage EXCEPT ![Head] = "retired"]
    BY <1>4, Zenon DEF RetireSquashed, RetireHead
  <2>2. InROB' = InROB \ {Head}
    <3>1. PICK h \in Insts : h = Head
      BY <2>1, RetireFacts, Zenon
    <3>2. \A k \in Insts : stage'[k] = IF k = h THEN "retired" ELSE stage[k]
      BY <1>0, <2>1, <3>1, Zenon DEF TypeOK
    <3> QED BY <3>1, <3>2, Zenon DEF InROB
  <2>3. dataInd' \subseteq dataInd /\ Head \notin dataInd'
    <3>1. CASE RetireSquashed
      BY <3>1, Zenon DEF RetireSquashed, status, PipeInv, SquashedClean
    <3>2. CASE RetireHead /\ Head \in dataInd
      <4>1. dataInd \ {Head} \in SUBSET Insts /\ UpdateSafeStatus(dataInd \ {Head})
        BY <1>0, <3>2, Zenon DEF RetireHead, TypeOK
      <4> QED BY <1>0, <4>1, TickEffect, Zenon
    <3>3. CASE RetireHead /\ Head \notin dataInd
      BY <3>3, Zenon DEF RetireHead
    <3> QED BY <1>4, <3>1, <3>2, <3>3, Zenon
  <2> QED BY <1>1, <2>2, <2>3, Zenon DEF DataInducers
<1>5. CASE EndCommit \/ UNCHANGED vars
  <2>1. UNCHANGED <<dataInd, stage>>
    BY <1>5, Zenon DEF EndCommit, vars, status
  <2> QED BY <1>1, <2>1, Zenon DEF DataInducers, InROB
<1> QED BY <1>2, <1>3, <1>4, <1>5, StepCases, Zenon

\* Control restrictions are imposed on what enters the ROB.
CtlResPlace == \A i \in ctlRes : stage[i] \notin {"none", "renamed"}

\* They stay there.
LEMMA CtlResPlaceStep ==
    ASSUME PipeInv, CtlResPlace, [Next]_vars
    PROVE  CtlResPlace'
<1>0. TypeOK /\ StageFacts /\ ctlRes \subseteq Insts
  BY StageFactsStep, Zenon DEF PipeInv, TypeOK
<1>1. ctlRes' \subseteq ctlRes \/ (Resume /\ ctlRes' \subseteq ctlRes \cup {i \in Insts : stage[i] = "renamed"})
  <2>1. CASE FrontStep
    <3>1. CASE IEWSquash
      BY <3>1, Zenon DEF IEWSquash, Forget
    <3>2. CASE SafeTick
      BY <1>0, <3>2, TickEffect, Zenon DEF SafeTick, TypeOK
    <3>3. ASSUME NEW i \in Insts, Rename(i) \/ Dispatch(i) \/ Execute(i) \/ Writeback(i) \/ Issue(i)
          PROVE  UNCHANGED ctlRes
      BY <3>3, ZenonT(60) DEF Rename, Dispatch, Execute, ExecuteSquashed, ExecuteInst, ExecuteTLBMiss,
             ExecuteLoad, ExecuteLoadMiss, ExecuteLoadBlocked, ExecuteStore, Writeback, Issue
    <3> QED BY <2>1, <3>1, <3>2, <3>3, Zenon DEF FrontStep
  <2>2. CASE CommitPendingRedirect \/ CommitSignalledSquash \/ CommitNoSquash
    <3>1. Resume => ctlRes' \subseteq ctlRes \cup {i \in Insts : stage[i] = "renamed"}
      BY Zenon DEF Resume
    <3>2. \A S, q : SquashStep(S, q) => ctlRes' \subseteq ctlRes
      BY Zenon DEF SquashStep, Squash, Forget
    <3> QED BY <2>2, <3>1, <3>2, CommitEffect, Zenon
  <2>3. CASE RetireHead
    <3>1. dataInd \ {Head} \in SUBSET Insts
      BY <1>0, Zenon DEF TypeOK
    <3> QED BY <1>0, <2>3, <3>1, TickEffect, Zenon DEF RetireHead
  <2>4. CASE RetireSquashed \/ EndCommit \/ UNCHANGED vars
    BY <2>4, Zenon DEF RetireSquashed, EndCommit, vars, status
  <2> QED BY <2>1, <2>2, <2>3, <2>4, StepCases, Zenon
<1>2. ASSUME NEW i \in ctlRes PROVE stage'[i] \notin {"none", "renamed"}
  <2>1. i \in InROB \/ stage[i] = "retired"
    BY <1>0, Zenon DEF CtlResPlace, InROB
  <2>2. i \in InROB' \/ stage'[i] \in Executed
    BY <1>0, <2>1, Zenon DEF StageFacts, Executed
  <2> QED BY <2>2, Zenon DEF InROB, Executed
<1>3. Resume => \A i \in Insts : stage[i] = "renamed" => stage'[i] = "rob"
  BY Zenon DEF Resume
<1> QED BY <1>1, <1>2, <1>3, Zenon DEF CtlResPlace

\* Taint is inherited from older instructions only.
LEMMA InducersOlderStep ==
    ASSUME PipeInv, InducersOlder, [Next]_vars
    PROVE  InducersOlder'
<1>0. TypeOK /\ TypeOK'
  BY TypeStep DEF PipeInv
<1>1. ASSUME NEW d \in Insts, NEW x \in 0..N, NEW y \in 0..N, x < d, y < d
      PROVE  Max({x, y}) < d
  <2>1. {x, y} \in SUBSET (0..N) /\ {x, y} # {}
    BY Zenon
  <2>2. Max({x, y}) \in {x, y}
    BY <2>1, NAssumption, MaxProperty, Zenon
  <2> QED BY <1>1, <2>2, Zenon
<1>2. \A i \in Insts : 0 < i /\ i \in Nat /\ i \in 0..N /\ ydi[i] \in 0..N
  <2>1. \A i \in Insts : 0 < i /\ i \in Nat /\ i \in 0..N
    BY Numbers
  <2>2. ydi \in [Insts -> 0..N]
    BY <1>0, Zenon DEF TypeOK
  <2> QED BY <2>1, <2>2, Zenon
<1>3. ASSUME NEW d \in Insts PROVE prog[d].srcs \subseteq Insts /\ \A s \in prog[d].srcs : s < d
  <2>1. prog[d].srcs \subseteq 1..(d-1)
    BY <1>0, ProgramAssumption, Zenon DEF TypeOK
  <2>2. 1..(d-1) \subseteq Insts /\ \A s \in 1..(d-1) : s < d
    BY NAssumption DEF Insts
  <2> QED BY <2>1, <2>2, Zenon
<1>4. ASSUME UNCHANGED ydi \/ \E S : Forget(S) PROVE InducersOlder'
  <2>1. \A i \in Insts : ydi'[i] = ydi[i] \/ ydi'[i] = 0
    BY <1>4, Zenon DEF Forget
  <2> QED BY <1>2, <2>1, Zenon DEF InducersOlder
<1>5. ASSUME NEW i \in Insts, TaintFromReady(i) PROVE InducersOlder'
  <2> DEFINE S == {s \in prog[i].srcs : Ready(s)}
             T == {IF s \in dataInd THEN s ELSE ydi[s] : s \in S \cap (dataInd \cup dataRes)}
  <2>1. S \subseteq Insts /\ \A s \in S : s < i
    BY <1>3, Zenon
  <2>2. ydi' = [ydi EXCEPT ![i] = Max({ydi[i], InheritedYdi(S)})]
    BY <1>5, Zenon DEF TaintFromReady
  <2>3. InheritedYdi(S) = MaxOr0(T)
    BY Zenon DEF InheritedYdi
  <2> HIDE DEF S
  <2>4. \A t \in T : t \in 0..N /\ t < i
    <3>1. ASSUME NEW s \in S PROVE s \in 0..N /\ s < i /\ ydi[s] \in 0..N /\ ydi[s] < i
      BY <1>2, <2>1, <3>1 DEF InducersOlder
    <3> QED BY <3>1, Zenon
  <2> HIDE DEF T
  <2>5. MaxOr0(T) \in T \cup {0}
    BY <2>4, MaxOr0Property, Zenon
  <2>6. MaxOr0(T) \in 0..N /\ MaxOr0(T) < i
    BY <1>2, <2>4, <2>5, Numbers, Zenon
  <2>7. Max({ydi[i], InheritedYdi(S)}) < i
    BY <1>1, <1>2, <2>3, <2>6, Zenon DEF InducersOlder
  <2> QED BY <1>0, <2>2, <2>7, Zenon DEF InducersOlder, TypeOK
<1>6. ASSUME NEW i \in Insts, Writeback(i) PROVE InducersOlder'
  <2> DEFINE tainted == i \in dataInd' \cup dataRes
             y == IF i \in dataInd' THEN i ELSE ydi[i]
             deps == {d \in Live : stage[d] = "queued" /\ i \in prog[d].srcs}
  <2>1. ydi' = [d \in Insts |-> IF tainted /\ d \in deps THEN Max({ydi[d], y}) ELSE ydi[d]]
    BY <1>6, Zenon DEF Writeback
  <2>2. ASSUME NEW d \in Insts, d \in deps PROVE Max({ydi[d], y}) < d
    <3>1. i < d
      BY <1>3, <2>2, Zenon
    <3>2. y \in 0..N /\ y < d
      BY <1>2, <3>1 DEF InducersOlder
    <3> HIDE DEF y
    <3> QED BY <1>1, <1>2, <3>2, Zenon DEF InducersOlder
  <2> HIDE DEF deps, tainted, y
  <2> QED BY <2>1, <2>2, Zenon DEF InducersOlder
<1>7. ASSUME NEW i \in Insts, Rename(i) \/ Dispatch(i) PROVE InducersOlder'
  BY <1>5, <1>7, Zenon DEF Rename, Dispatch
<1>8. ASSUME NEW i \in Insts, Issue(i) \/ Execute(i) PROVE UNCHANGED ydi
  BY <1>8, ZenonT(60) DEF Issue, Execute, ExecuteSquashed, ExecuteInst, ExecuteTLBMiss,
         ExecuteLoad, ExecuteLoadMiss, ExecuteLoadBlocked, ExecuteStore, links
<1>9. CASE IEWSquash \/ SafeTick
  BY <1>4, <1>9, Zenon DEF IEWSquash, SafeTick
<1>10. CASE CommitPendingRedirect \/ CommitSignalledSquash \/ CommitNoSquash
  BY <1>4, <1>10, CommitEffect, Zenon DEF Resume, SquashStep, Squash, links
<1>11. CASE RetireSquashed \/ RetireHead \/ EndCommit \/ UNCHANGED vars
  BY <1>4, <1>11, Zenon DEF RetireSquashed, RetireHead, EndCommit, vars, links
<1> QED BY <1>4, <1>6, <1>7, <1>8, <1>9, <1>10, <1>11, StepCases, Zenon DEF FrontStep

\* An instruction younger than a covered one is covered.
LEMMA CoverMonotone ==
    ASSUME TypeOK, NEW v \in Insts, NEW i \in Insts, v <= i, Covered(v)
    PROVE  Covered(i)
<1>1. v \in Nat /\ i \in Nat /\ youngest \in Nat /\ \A r \in Coming : r \in Nat
  BY Numbers, Zenon DEF TypeOK, Coming
<1> QED BY <1>1 DEF Covered

\* The reasons for restrictions, between updateSafeStatus() and the end of the
\* cycle.
Reasons ==
    /\ \A i \in ctlRes \cap InROB : UnresolvedBranch(i)
    /\ \A i \in dataRes \cap InROB : stage[i] \in Executed \cup {"access"} => ydi[i] \in dataInd
    /\ \A i \in dataInd : \/ Conservative \/ Covered(i)
                          \/ UnresolvedBranch(i) \/ UnresolvedStore(i)

\* updateSafeStatus() leaves only restrictions and inducers with a reason.
LEMMA TickReasons ==
    ASSUME PipeInv, CoverInv, DataInducers, SafeTick, ~CacheBlocks
    PROVE  Reasons'
<1>0. TypeOK /\ TypeOK' /\ prog' = prog /\ [Next]_vars /\ dataInd \subseteq Insts
  <2>1. [Next]_vars
    BY Zenon DEF Next
  <2> QED BY <2>1, TypeStep, StageFactsStep, Zenon DEF PipeInv, StageFacts, TypeOK
<1>1. UNCHANGED <<config, stage, squashed, ctlInd, effValid, ydi, violSeq>>
  BY Zenon DEF SafeTick, fixed
<1>2. PICK kept \in SUBSET dataInd :
        /\ kept = {i \in dataInd : KeepDataInducer(i, kept)}
        /\ dataInd' = kept /\ ctlRes' = CtlResKept /\ dataRes' = DataResKept(kept)
        /\ pendMO' = pendMO \cup Violators(kept)
  BY Zenon DEF SafeTick, UpdateSafeStatus
<1>3. InROB' = InROB /\ \A k : IsStore(k)' = IsStore(k)
  BY <1>0, <1>1, Zenon DEF InROB, IsStore, Kind
<1>4. \A i : UnresolvedBranch(i)' = UnresolvedBranch(i) /\ UnresolvedStore(i)' = UnresolvedStore(i)
  BY <1>1, <1>3, Zenon DEF UnresolvedBranch, UnresolvedStore
<1>5. \A i \in ctlRes' \cap InROB' : UnresolvedBranch(i)'
  BY <1>2, <1>3, <1>4, Zenon DEF CtlResKept
<1>6. \A i \in dataRes' \cap InROB' : ydi'[i] \in dataInd'
  BY <1>1, <1>2, <1>3, Zenon DEF DataResKept
<1>7. ASSUME NEW i \in dataInd'
      PROVE  Conservative' \/ Covered(i)' \/ UnresolvedBranch(i)' \/ UnresolvedStore(i)'
  <2>1. i \in dataInd /\ i \in Insts /\ KeepDataInducer(i, kept) /\ i \in InROB /\ IsLoad(i)
    BY <1>0, <1>2, Zenon DEF DataInducers
  <2>2. CASE Conservative
    BY <1>1, <2>2, Zenon DEF Conservative
  <2>3. CASE i \in pendMO \cup Violators(kept)
    <3>1. i \in Coming' /\ i <= i
      <4>1. i \in pendMO' /\ i <= i
        BY <1>2, <2>1, <2>3, Numbers
      <4> QED BY <2>1, <4>1, Zenon DEF Coming
    <3> QED BY <3>1, Zenon DEF Covered
  <2>4. CASE UnresolvedBranch(i) \/ UnresolvedStore(i)
    BY <1>4, <2>4, Zenon
  <2>5. CASE AfterViolator(i)
    <3>1. PICK s \in InROB \ squashed : violSeq[s] \in InROB \ squashed /\ violSeq[s] <= i
      BY <2>5, Zenon DEF AfterViolator
    <3>2. Covered(violSeq[s]) /\ violSeq[s] \in Insts
      BY <3>1, Zenon DEF CoverInv, InROB
    <3>3. Covered(i)
      BY <1>0, <2>1, <3>1, <3>2, CoverMonotone, Zenon
    <3>4. i \notin squashed'
      BY <1>1, <2>1, Zenon DEF PipeInv, SquashedClean
    <3> QED BY <1>0, <2>1, <3>3, <3>4, CoverKept, Zenon
  <2> QED BY <2>1, <2>2, <2>3, <2>4, <2>5, Zenon DEF KeepDataInducer
<1> QED BY <1>5, <1>6, <1>7, Zenon DEF Reasons

\* The reasons stay to the end of the cycle.
LEMMA ReasonsStep ==
    ASSUME PipeInv, CoverInv, DataInducers, CtlResPlace, Updated => Reasons, [Next]_vars, ~CacheBlocks, Updated'
    PROVE  Reasons'
<1>0. /\ TypeOK /\ TypeOK' /\ prog' = prog /\ DataInducers' /\ SquashedClean'
      /\ squashed \subseteq squashed' /\ dataInd \subseteq Insts
  BY TypeStep, StageFactsStep, DataInducersStep, SquashedCleanStep, ReadyStays, Zenon
  DEF PipeInv, StageFacts, TypeOK
<1>1. \A k : IsLoad(k)' = IsLoad(k) /\ IsStore(k)' = IsStore(k)
  BY <1>0, Zenon DEF IsLoad, IsStore, Kind
<1>2. config' = config
  BY ZenonT(60) DEF Next, Rename, Dispatch, Execute, ExecuteSquashed, ExecuteInst, ExecuteTLBMiss,
         ExecuteLoad, ExecuteLoadMiss, ExecuteLoadBlocked, ExecuteStore, Writeback, Issue,
         IEWSquash, SafeTick, CommitPendingRedirect, CommitSignalledSquash, CommitNoSquash,
         RetireSquashed, RetireHead, EndCommit, vars, fixed
<1>3. ASSUME NEW i \in dataInd, i \in dataInd', Covered(i) PROVE Covered(i)'
  <2>1. i \in InROB /\ IsLoad(i) /\ i \notin squashed'
    BY <1>0, <1>3, Zenon DEF DataInducers, SquashedClean
  <2> QED BY <1>3, <2>1, CoverKept, Zenon
<1>4. ASSUME \A i \in ctlRes' \cap InROB' : (i \in ctlRes /\ i \in InROB) \/ UnresolvedBranch(i)',
             \A i \in dataInd' : i \in dataInd \/ Conservative \/ Covered(i)' \/ UnresolvedBranch(i)',
             \A i \in dataRes' \cap InROB' : stage'[i] \in Executed \cup {"access"} => ydi'[i] \in dataInd',
             \A i \in Insts : UnresolvedBranch(i) => UnresolvedBranch(i)',
             \A i \in Insts : UnresolvedStore(i) => UnresolvedStore(i)',
             Updated
      PROVE  Reasons'
  <2>1. ASSUME NEW i \in ctlRes' \cap InROB' PROVE UnresolvedBranch(i)'
    <3>1. i \in Insts
      BY <1>0, <2>1, Zenon DEF TypeOK
    <3> QED BY <1>4, <2>1, <3>1, Zenon DEF Reasons
  <2>2. ASSUME NEW i \in dataInd'
        PROVE  Conservative' \/ Covered(i)' \/ UnresolvedBranch(i)' \/ UnresolvedStore(i)'
    <3>1. i \in Insts /\ Conservative' = Conservative
      BY <1>0, <1>2, <2>2, Zenon DEF TypeOK, Conservative
    <3> QED BY <1>3, <1>4, <2>2, <3>1, Zenon DEF Reasons
  <2> QED BY <1>4, <2>1, <2>2, Zenon DEF Reasons
<1>5. CASE SafeTick
  BY <1>5, TickReasons, Zenon
<1>6. ASSUME NEW i \in Insts, Writeback(i) PROVE Reasons'
  <2>1. Updated
    BY <1>6, Zenon DEF Writeback, Updated
  <2>2. InROB' = InROB
    BY <1>0, <1>6, FrontStepROB, Zenon DEF FrontStep
  <2>3. UNCHANGED <<ctlInd, squashed, effValid, ctlRes, pendMO>>
    BY <1>6, Zenon DEF Writeback
  <2>4. \A k \in Insts : /\ UnresolvedBranch(k)' = UnresolvedBranch(k)
                         /\ UnresolvedStore(k) => UnresolvedStore(k)'
    BY <1>1, <2>2, <2>3, Zenon DEF UnresolvedBranch, UnresolvedStore
  <2>5. \A k \in dataInd' : k \in dataInd \/ Conservative \/ Covered(k)' \/ UnresolvedBranch(k)'
    <3>1. ASSUME i \in pendMO PROVE Covered(i)'
      <4>1. i \in Coming' /\ i <= i
        BY <2>3, <3>1, Numbers DEF Coming
      <4> QED BY <4>1, Zenon DEF Covered
    <3>2. dataInd' = dataInd \/ (InducesAtWriteback(i) /\ dataInd' = dataInd \cup {i})
      BY <1>6, Zenon DEF Writeback
    <3> QED BY <2>4, <3>1, <3>2, Zenon DEF InducesAtWriteback
  <2>6. ASSUME NEW k \in dataRes' \cap InROB', stage'[k] \in Executed \cup {"access"}
        PROVE  ydi'[k] \in dataInd'
    <3> DEFINE deps == {d \in Live : stage[d] = "queued" /\ i \in prog[d].srcs}
    <3>1. /\ stage' = [stage EXCEPT ![i] = "wb"] /\ stage[i] \in {"done", "access"}
          /\ dataInd \subseteq dataInd' /\ dataRes' \subseteq dataRes \cup deps
          /\ \A d \in Insts : d \notin deps => ydi'[d] = ydi[d]
      BY <1>6, Zenon DEF Writeback
    <3>2. k \in Insts /\ k \in InROB
      BY <2>2, <2>6, Zenon DEF InROB
    <3>3. stage[k] \in Executed \cup {"access"}
      BY <1>0, <2>6, <3>1, <3>2, Zenon DEF TypeOK, Executed
    <3>4. k \notin deps
      BY <3>3, Zenon DEF Executed
    <3> HIDE DEF deps
    <3>5. ydi[k] \in dataInd
      BY <2>1, <2>6, <3>1, <3>2, <3>3, <3>4, Zenon DEF Reasons
    <3> QED BY <3>1, <3>2, <3>4, <3>5, Zenon
  <2> QED BY <1>4, <2>1, <2>2, <2>3, <2>4, <2>5, <2>6, Zenon
<1>7. ASSUME NEW i \in Insts, Issue(i) PROVE Reasons'
  <2>1. Updated /\ UNCHANGED <<ctlInd, squashed, effValid, ctlRes, dataRes, dataInd, ydi>>
    BY <1>7, Zenon DEF Issue, Updated, CanIssue, links
  <2>2. InROB' = InROB
    BY <1>0, <1>7, FrontStepROB, Zenon DEF FrontStep
  <2>3. \A k \in Insts : /\ UnresolvedBranch(k)' = UnresolvedBranch(k)
                         /\ UnresolvedStore(k) => UnresolvedStore(k)'
    BY <1>1, <2>1, <2>2, Zenon DEF UnresolvedBranch, UnresolvedStore
  <2>4. \A k \in Insts : stage'[k] \in Executed \cup {"access"} => stage[k] \in Executed \cup {"access"}
    <3>1. UNCHANGED stage \/ stage' = [stage EXCEPT ![i] = "queued"] \/ stage' = [stage EXCEPT ![i] = "issued"]
      BY <1>7, Zenon DEF Issue, Stall
    <3>2. stage \in [Insts -> Stages]
      BY <1>0, Zenon DEF TypeOK
    <3> QED BY <3>1, <3>2, Zenon DEF Executed
  <2>5. \A k \in dataRes' \cap InROB' : stage'[k] \in Executed \cup {"access"} => ydi'[k] \in dataInd'
    BY <1>0, <2>1, <2>2, <2>4, Zenon DEF Reasons, TypeOK
  <2> QED BY <1>4, <2>1, <2>2, <2>3, <2>5, Zenon
<1>8. CASE CommitPendingRedirect \/ CommitSignalledSquash \/ CommitNoSquash
  <2>1. Updated /\ phase' = "retire"
    BY <1>8, CommitEffect, Zenon DEF Updated
  <2>2. CASE Resume
    <3> DEFINE new == {i \in Insts : stage[i] = "renamed"}
    <3>1. /\ stage' = [i \in Insts |-> IF i \in new THEN "rob" ELSE stage[i]]
          /\ ctlInd \subseteq ctlInd'
          /\ ctlRes' = ctlRes \/ (InROB \cap ctlInd # {} /\ ctlRes' = ctlRes \cup new)
          /\ UNCHANGED <<squashed, dataInd, dataRes, effValid, ydi>>
      BY <2>2, Zenon DEF Resume, links
    <3>2. InROB' = InROB \cup new /\ \A k \in InROB : stage'[k] = stage[k] /\ k \notin new
      BY <3>1, Zenon DEF InROB
    <3>3. \A k \in Insts : /\ UnresolvedBranch(k) => UnresolvedBranch(k)'
                           /\ UnresolvedStore(k) => UnresolvedStore(k)'
      BY <1>1, <3>1, <3>2, Zenon DEF UnresolvedBranch, UnresolvedStore
    <3>4. ASSUME NEW k \in new, NEW b \in InROB \cap ctlInd PROVE UnresolvedBranch(k)'
      <4>1. k \in Insts /\ b \in Insts /\ k # b /\ stage[b] \notin {"none", "renamed"}
        BY <3>2, <3>4, Zenon DEF InROB
      <4>2. ~(k < b)
        BY <3>4, <4>1, Zenon DEF PipeInv, InOrder
      <4>3. b < k
        BY <4>1, <4>2, Numbers
      <4> QED BY <3>1, <3>2, <3>4, <4>3, Zenon DEF UnresolvedBranch
    <3>5. ASSUME NEW k \in ctlRes' \cap InROB'
          PROVE  (k \in ctlRes /\ k \in InROB) \/ UnresolvedBranch(k)'
      <4>1. CASE k \in new
        <5>1. k \notin ctlRes
          BY <4>1, Zenon DEF CtlResPlace
        <5> QED BY <3>1, <3>4, <3>5, <4>1, <5>1, Zenon
      <4>2. CASE k \notin new
        BY <3>1, <3>2, <3>5, <4>2, Zenon
      <4> QED BY <4>1, <4>2, Zenon
    <3>6. \A k \in dataRes' \cap InROB' : stage'[k] \in Executed \cup {"access"} => ydi'[k] \in dataInd'
      BY <2>1, <3>1, <3>2, Zenon DEF Reasons, Executed, InROB
    <3> QED BY <1>4, <2>1, <3>1, <3>3, <3>5, <3>6, Zenon
  <2>3. ~\E S : \E q \in 0..N : SquashStep(S, q)
    BY <2>1, Zenon DEF SquashStep, Updated
  <2> QED BY <1>8, <2>2, <2>3, CommitEffect, Zenon
<1>9. CASE RetireSquashed \/ RetireHead
  <2>1. /\ HeadReady /\ stage' = [stage EXCEPT ![Head] = "retired"] /\ Updated
        /\ UNCHANGED <<squashed, ctlInd, effValid, ydi>>
    BY <1>9, Zenon DEF RetireSquashed, RetireHead, HeadReady, status, links, Updated
  <2>2. PICK h \in Insts : /\ h = Head /\ h \in InROB
                           /\ h \notin squashed => stage[h] \in Executed
    BY <2>1, RetireFacts, Zenon
  <2>3. \A k \in Insts : stage'[k] = IF k = h THEN "retired" ELSE stage[k]
    BY <1>0, <2>1, <2>2, Zenon DEF TypeOK
  <2>4. InROB' = InROB \ {h}
    BY <2>2, <2>3, Zenon DEF InROB
  <2>5. h \notin ctlInd
    <3>1. h \in squashed => h \notin ctlInd
      BY Zenon DEF PipeInv, SquashedClean
    <3>2. h \notin squashed => ~Unsettled(h)
      BY <2>1, <2>2, HeadNotCovered, Zenon DEF CoverInv
    <3> QED BY <3>1, <3>2, Zenon DEF Unsettled
  <2>6. h \notin squashed /\ IsStore(h) => h \in effValid
    BY <2>2, Zenon DEF PipeInv, StatusInv
  <2>7. \A k \in Insts : /\ UnresolvedBranch(k) => UnresolvedBranch(k)'
                         /\ UnresolvedStore(k) => UnresolvedStore(k)'
    BY <1>1, <2>1, <2>4, <2>5, <2>6, Zenon DEF UnresolvedBranch, UnresolvedStore
  <2>8. CASE UNCHANGED <<dataInd, ctlRes, dataRes>>
    <3>1. \A k \in dataRes' \cap InROB' : stage'[k] \in Executed \cup {"access"} => ydi'[k] \in dataInd'
      BY <1>0, <2>1, <2>3, <2>4, <2>8, Zenon DEF Reasons, TypeOK
    <3> QED BY <1>4, <2>1, <2>4, <2>7, <2>8, <3>1, Zenon
  <2>9. CASE UpdateSafeStatus(dataInd \ {Head})
    <3>1. PICK kept : /\ dataInd' = kept /\ ctlRes' = CtlResKept /\ dataRes' = DataResKept(kept)
                      /\ kept \subseteq dataInd
      BY <2>9, Zenon DEF UpdateSafeStatus
    <3>2. ctlRes' \subseteq ctlRes
      BY <3>1, Zenon DEF CtlResKept
    <3>3. \A k \in dataRes' \cap InROB' : ydi'[k] \in dataInd'
      BY <2>1, <2>4, <3>1, Zenon DEF DataResKept
    <3> QED BY <1>4, <2>1, <2>4, <2>7, <3>1, <3>2, <3>3, Zenon
  <2> QED BY <1>9, <2>8, <2>9, Zenon DEF RetireSquashed, RetireHead, status
<1>10. CASE UNCHANGED vars
  <2>1. UNCHANGED <<phase, commitStatus, config, stage, squashed, ctlInd, ctlRes, dataInd, dataRes,
                    effValid, ydi, prog>>
    BY <1>10, Zenon DEF vars, fixed, status, links, robState
  <2>2. Updated /\ InROB' = InROB
    BY <2>1, Zenon DEF Updated, InROB
  <2>3. \A k \in Insts : /\ UnresolvedBranch(k) => UnresolvedBranch(k)'
                         /\ UnresolvedStore(k) => UnresolvedStore(k)'
    BY <1>1, <2>1, <2>2, Zenon DEF UnresolvedBranch, UnresolvedStore
  <2> QED BY <1>4, <2>1, <2>2, <2>3, Zenon DEF Reasons
<1>11. ASSUME NEW i \in Insts, Rename(i) \/ Dispatch(i) \/ Execute(i) PROVE FALSE
  <2>1. phase' \in {"dispatch", "execute"}
    BY <1>11, ZenonT(60) DEF Rename, Dispatch, Execute, ExecuteSquashed, ExecuteInst, ExecuteTLBMiss,
         ExecuteLoad, ExecuteLoadMiss, ExecuteLoadBlocked, ExecuteStore, NextToExecute, Goto
  <2> QED BY <2>1, Zenon DEF Updated
<1>12. CASE IEWSquash \/ EndCommit
  <2>1. phase' \in {"rename", "execute"}
    BY <1>12, Zenon DEF IEWSquash, EndCommit, Goto
  <2> QED BY <2>1, Zenon DEF Updated
<1> QED BY <1>5, <1>6, <1>7, <1>8, <1>9, <1>10, <1>11, <1>12, StepCases, Zenon DEF FrontStep

\* An instruction that retires has executed, is no inducer (a data inducer only
\* in conservative mode), not restricted and not stalled: the assertions of
\* clearInROB(), retireHead() and commitHead() hold.
THEOREM RetiresSafe ==
    ASSUME ~CacheBlocks
    PROVE  Spec => []RetireAssertions
<1> DEFINE Extra == DataInducers /\ InducersOlder /\ CtlResPlace /\ (Updated => Reasons)
<1>1. Init => Extra
  <2> SUFFICES ASSUME Init PROVE Extra
    OBVIOUS
  <2>1. \A i \in Insts : ydi[i] = 0 /\ 0 < i
    <3>1. ydi = [i \in Insts |-> 0]
      BY Zenon DEF Init
    <3> QED BY <3>1, Numbers
  <2>2. dataInd = {} /\ ctlRes = {} /\ phase = "rename"
    BY Zenon DEF Init
  <2> QED BY <2>1, <2>2, Zenon DEF DataInducers, InducersOlder, CtlResPlace, Updated
<1>2. RetireInv /\ Extra /\ [Next]_vars => Extra'
  BY DataInducersStep, InducersOlderStep, CtlResPlaceStep, ReasonsStep, Zenon DEF RetireInv
<1>3. RetireInv /\ Extra => RetireAssertions
  <2> SUFFICES ASSUME RetireInv, Extra, HeadReady, Head \notin squashed
               PROVE  /\ stage[Head] \in {"done", "wb"}
                      /\ Head \notin ctlInd \cup ctlRes \cup dataRes \cup stalled
                      /\ Head \in dataInd => Conservative
    BY Zenon DEF RetireAssertions
  <2>1. PICK h \in Insts : /\ h = Head /\ h \in InROB /\ (\A j \in InROB : h <= j)
                           /\ stage[h] \in Executed /\ ~Covered(h)
                           /\ phase = "retire" /\ commitStatus = "Running"
    BY RetireFacts, HeadNotCovered, Zenon DEF RetireInv
  <2>2. Reasons
    BY <2>1, Zenon DEF Updated
  <2>3. stage[h] \in {"done", "wb"} /\ h \notin stalled
    BY <2>1, Zenon DEF InROB, Executed, RetireInv, PipeInv, StatusInv
  <2>4. h \notin ctlInd
    BY <2>1, Zenon DEF RetireInv, CoverInv, Unsettled
  <2>5. \A j \in InROB : j \in Nat /\ ~(j < h)
    <3>1. InROB \subseteq Insts
      BY Zenon DEF InROB
    <3> QED BY <2>1, <3>1, Numbers
  <2>6. ~UnresolvedBranch(h) /\ ~UnresolvedStore(h)
    BY <2>5, Zenon DEF UnresolvedBranch, UnresolvedStore
  <2>7. h \notin ctlRes /\ (h \in dataInd => Conservative)
    BY <2>1, <2>2, <2>6, Zenon DEF Reasons
  <2>8. h \notin dataRes
    <3>1. ASSUME h \in dataRes PROVE FALSE
      <4>1. ydi[h] \in InROB /\ ydi[h] < h
        BY <2>1, <2>2, <3>1, Zenon DEF Reasons, DataInducers, InducersOlder
      <4> QED BY <2>5, <4>1, Zenon
    <3> QED BY <3>1, Zenon
  <2> QED BY <2>1, <2>3, <2>4, <2>7, <2>8, Zenon
<1> HIDE DEF Extra
<1> QED BY <1>1, <1>2, <1>3, RetireInvHolds, PTL DEF Spec
=============================================================================
