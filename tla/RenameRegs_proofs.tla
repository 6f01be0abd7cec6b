------------------------- MODULE RenameRegs_proofs -------------------------
(***************************************************************************)
(* Proofs about the physical registers, for any number of threads,         *)
(* registers and instructions: they stay partitioned into free, mapped and *)
(* replaced ones; the maps follow program order, also after a squash; no   *)
(* instruction in flight uses a free register; the scoreboard is right.    *)
(***************************************************************************)
EXTENDS RenameRegs, OldestYoungest, TLAPS

\* Sequence numbers are compared both ways.
LEMMA NotGreater == \A m, n \in Nat : ~(m > n) <=> m <= n
OBVIOUS

\* The entry doSquash() reaches last is the one with the least sequence number.
LEMMA OldestProperty ==
    ASSUME NEW E \in SUBSET Entries, E # {}
    PROVE  Oldest(E) \in E /\ \A f \in E : Oldest(E).seq <= f.seq
<1> DEFINE S == {e.seq : e \in E}
<1>1. S \in SUBSET Nat /\ S # {}
  BY DEF Entries
<1>2. Min(S) \in S /\ \A y \in S : Min(S) <= y
  BY <1>1, MinProperty, Zenon
<1>3. PICK e \in E : e.seq = Min(S)
  BY <1>2, Zenon
<1>4. \A f \in E : e.seq <= f.seq
  BY <1>2, <1>3
<1> QED BY <1>4, Zenon DEF Oldest

\* A nonempty set of entries has one with the greatest sequence number.
LEMMA YoungestEntry ==
    ASSUME NEW E \in SUBSET Entries, E # {}
    PROVE  \E e \in E : \A f \in E : f.seq <= e.seq
<1> DEFINE S == {e.seq : e \in E}
<1>1. S \in SUBSET (0..MaxSeq) /\ S # {} /\ MaxSeq \in Nat
  BY RegsAssumption DEF Entries
<1>2. Max(S) \in S /\ \A y \in S : y <= Max(S)
  <2> HIDE DEF S
  <2> QED BY <1>1, MaxProperty, Zenon
<1>3. PICK e \in E : e.seq = Max(S)
  BY <1>2, Zenon
<1> QED BY <1>2, <1>3

\* The registers of an instruction's operands are physical registers.
LEMMA OperandRegs ==
    ASSUME NEW f \in Operands
    PROVE  Regs(f) \subseteq PhysRegs
<1>1. PICK A \in SUBSET ArchRegs : f \in [A -> PhysRegs]
  BY DEF Operands
<1> QED BY <1>1 DEF Regs

\* Type correctness: sequence numbers of messages and history entries are those
\* of instructions, and every operand is a physical register.
THEOREM TypeCorrect == Spec => []TypeOK
<1>1. Init => TypeOK
  BY RegsAssumption DEF Init, TypeOK, NoMsg
<1>2. TypeOK /\ [Next]_vars => TypeOK'
  <2> SUFFICES ASSUME TypeOK, [Next]_vars PROVE TypeOK'
    OBVIOUS
  <2> USE RegsAssumption
  <2>1. ASSUME NEW t \in Threads, NEW S \in SUBSET Renamed, NEW D \in SUBSET ArchRegs,
               RenameInst(t, S, D)
        PROVE  TypeOK'
    <3>1. PICK reg \in [D -> PhysRegs] : RenameInst(t, S, D)!3!(reg)
      BY <2>1, Zenon DEF RenameInst
    <3>2. /\ map' \in [Threads -> [ArchRegs -> PhysRegs]]
          /\ free' \subseteq PhysRegs /\ ready' \subseteq PhysRegs
          /\ nextSeq \in 1..MaxSeq /\ nextSeq' \in 1..(MaxSeq + 1)
          /\ todo' \subseteq Threads
          /\ UNCHANGED <<phase, commitMap, late, done, msg>>
      BY <2>1, <3>1 DEF TypeOK, RenameInst
    <3>3. history' \in [Threads -> SUBSET Entries]
      <4>1. {[seq |-> nextSeq, arch |-> a, new |-> reg[a], prev |-> map[t][a]] : a \in D}
               \subseteq Entries
        BY <3>1, <3>2 DEF TypeOK, Entries
      <4> QED BY <4>1, <3>1, Zenon DEF TypeOK
    <3>4. insts' \in [Threads -> SUBSET InstType]
      <4>1. [a \in S |-> map[t][a]] \in Operands /\ reg \in Operands
        BY <3>1 DEF TypeOK, Operands, Renamed
      <4>2. [seq |-> nextSeq, srcs |-> [a \in S |-> map[t][a]], dests |-> reg, wb |-> FALSE]
               \in InstType
        BY <4>1, <3>2, Zenon DEF InstType
      <4>3. PICK i \in InstType : insts' = [insts EXCEPT ![t] = @ \cup {i}]
        BY <4>2, <3>1, Zenon
      <4> QED BY <4>3 DEF TypeOK
    <3> QED BY <3>2, <3>3, <3>4, Zenon DEF TypeOK
  <2>2. ASSUME NEW t \in Threads, RenameNothing(t) PROVE TypeOK'
    BY <2>2, Zenon DEF TypeOK, RenameNothing
  <2>3. ASSUME NEW t \in Threads, DoSquash(t) PROVE TypeOK'
    <3> DEFINE U(a) == Undone(t, msg[t].done, a)
    <3>1. \A a \in ArchRegs : U(a) \subseteq Entries
      BY Zenon DEF TypeOK, Undone
    <3>2. \A a \in ArchRegs : U(a) # {} => Oldest(U(a)).prev \in PhysRegs
      <4> SUFFICES ASSUME NEW a \in ArchRegs, U(a) # {} PROVE Oldest(U(a)) \in Entries
        BY Zenon DEF Entries
      <4> QED BY <3>1, OldestProperty
    <3>3. \A a \in ArchRegs : {e.new : e \in U(a)} \subseteq PhysRegs
      BY <3>1 DEF Entries
    <3> HIDE DEF U
    <3>4. /\ map' = [map EXCEPT ![t] = [a \in ArchRegs |-> IF U(a) = {} THEN @[a]
                                                          ELSE Oldest(U(a)).prev]]
          /\ free' = free \cup UNION {{e.new : e \in U(a)} : a \in ArchRegs}
          /\ history' \in [Threads -> SUBSET Entries]
          /\ todo' \subseteq Threads
          /\ UNCHANGED <<phase, commitMap, ready, insts, late, done, msg, nextSeq>>
      BY <2>3, Zenon DEF DoSquash, TypeOK, U
    <3>5. map' \in [Threads -> [ArchRegs -> PhysRegs]]
      BY <3>2, <3>4 DEF TypeOK
    <3>6. free' \subseteq PhysRegs
      BY <3>3, <3>4 DEF TypeOK
    <3> QED BY <3>4, <3>5, <3>6, Zenon DEF TypeOK
  <2>4. CASE EndRename
    <3>1. \A t \in Threads : Committed(t) \subseteq history[t] /\ Committed(t) \subseteq Entries
      BY Zenon DEF Committed, TypeOK
    <3>2. \A t \in Threads : \A e \in Committed(t) : e.prev \in PhysRegs
      BY <3>1 DEF Entries
    <3>3. free' \subseteq PhysRegs
      BY <2>4, <3>2 DEF EndRename, TypeOK
    <3> QED BY <2>4, <3>1, <3>3 DEF EndRename, TypeOK, NoMsg
  <2>5. ASSUME NEW t \in Threads, NEW i \in insts[t], Writeback(t, i) PROVE TypeOK'
    <3>1. i \in InstType /\ [seq |-> i.seq, srcs |-> i.srcs, dests |-> i.dests, wb |-> TRUE] \in InstType
      BY DEF TypeOK, InstType
    <3>2. Regs(i.dests) \subseteq PhysRegs
      BY <3>1, OperandRegs, Zenon DEF InstType
    <3>3. PICK j \in InstType : insts' = [insts EXCEPT ![t] = (@ \ {i}) \cup {j}]
      BY <3>1, <2>5, Zenon DEF Writeback
    <3>4. insts' \in [Threads -> SUBSET InstType]
      BY <3>3 DEF TypeOK
    <3> QED BY <2>5, <3>2, <3>4, Zenon DEF TypeOK, Writeback, SetReady
  <2>6. ASSUME NEW p \in late, WritebackSquashed(p) PROVE TypeOK'
    BY <2>6, Zenon DEF TypeOK, WritebackSquashed, SetReady
  <2>7. CASE EndIEW \/ EndCommit
    BY <2>7 DEF TypeOK, EndIEW, EndCommit
  <2>8. ASSUME NEW t \in Threads, NEW num \in SquashTargets(t), CommitSquash(t, num)
        PROVE  TypeOK'
    <3>1. \A i \in insts[t] : i.seq \in 1..MaxSeq /\ Regs(i.dests) \subseteq PhysRegs
      BY OperandRegs DEF TypeOK, InstType
    <3>2. num \in 0..MaxSeq
      BY <3>1 DEF SquashTargets, TypeOK
    <3>3. late' \subseteq PhysRegs /\ insts' \in [Threads -> SUBSET InstType]
      BY <2>8, <3>1 DEF CommitSquash, TypeOK
    <3>4. msg' \in [Threads -> [done: 0..MaxSeq, squash: BOOLEAN]]
      BY <2>8, <3>2, Zenon DEF CommitSquash, TypeOK
    <3> QED BY <2>8, <3>3, <3>4, Zenon DEF CommitSquash, TypeOK
  <2>9. ASSUME NEW t \in Threads, CommitHead(t) PROVE TypeOK'
    <3>1. PICK i \in insts[t] : /\ commitMap' = [commitMap EXCEPT ![t] = WithDests(t, i)]
                                /\ insts' = [insts EXCEPT ![t] = @ \ {i}]
                                /\ done' = [done EXCEPT ![t] = i.seq]
                                /\ msg' = [msg EXCEPT ![t] = [done |-> i.seq, squash |-> FALSE]]
      BY <2>9, Zenon DEF CommitHead
    <3>2. i \in InstType
      BY DEF TypeOK
    <3>3. PICK A \in SUBSET ArchRegs : i.dests \in [A -> PhysRegs]
      BY <3>2 DEF InstType, Operands
    <3>4. WithDests(t, i) \in [ArchRegs -> PhysRegs]
      BY <3>3 DEF WithDests, TypeOK
    <3>5. i.seq \in 0..MaxSeq
      BY <3>2 DEF InstType
    <3>6. /\ commitMap' \in [Threads -> [ArchRegs -> PhysRegs]]
          /\ insts' \in [Threads -> SUBSET InstType]
          /\ done' \in [Threads -> 0..MaxSeq]
          /\ msg' \in [Threads -> [done: 0..MaxSeq, squash: BOOLEAN]]
      BY <3>1, <3>4, <3>5, Zenon DEF TypeOK
    <3> QED BY <2>9, <3>6, Zenon DEF CommitHead, TypeOK
  <2>10. CASE UNCHANGED vars
    BY <2>10, Zenon DEF TypeOK, vars
  <2> QED BY <2>1, <2>2, <2>3, <2>4, <2>5, <2>6, <2>7, <2>8, <2>9, <2>10, Zenon DEF Next
<1> QED BY <1>1, <1>2, PTL DEF Spec

-----------------------------------------------------------------------------
(***************************************************************************)
(* The partition of the registers is not inductive by itself: undoing a    *)
(* mapping frees the register the instruction allocated, so that register  *)
(* must be known to be the one that is mapped or that the next younger     *)
(* entry of the same architectural register replaced.                      *)
(***************************************************************************)

\* f is the next younger entry of the same register after e.
Follows(t, e, f) ==
    /\ e.arch = f.arch /\ e.seq < f.seq
    /\ \A g \in Kept(t) : g.arch = e.arch => g.seq <= e.seq \/ f.seq <= g.seq
Youngest(t, e) == \A f \in Kept(t) : f.arch = e.arch => f.seq <= e.seq

\* An entry belongs to an instruction that was renamed, and the zero register
\* is the one whose mapping never changes.
EntriesInv ==
    \A t \in Threads : \A e \in history[t] :
        /\ e.seq < nextSeq
        /\ e.new = e.prev <=> e.arch = ZeroReg
        /\ \A f \in history[t] : e.seq = f.seq /\ e.arch = f.arch => e = f

\* The register an entry allocated is mapped, or was replaced by the next entry.
ChainInv ==
    \A t \in Threads : \A e \in Kept(t) :
        \/ Youngest(t, e) /\ map[t][e.arch] = e.new
        \/ \E f \in Kept(t) : Follows(t, e, f) /\ f.prev = e.new

IInv == EntriesInv /\ ChainInv /\ RegsPartitioned

\* The four conjuncts of RegsPartitioned, to be cited one by one.
FreeUnheld == \A p \in PhysRegs : p \in free <=> ~Held(p)
MapsDistinct ==
    \A t, u \in Threads : \A a, b \in ArchRegs :
        map[t][a] = map[u][b] => a = b /\ (t = u \/ a = ZeroReg)
PrevsDistinct ==
    \A t, u \in Threads : \A e \in Kept(t), f \in Kept(u) : e.prev = f.prev => t = u /\ e = f
MapsNotPrevs ==
    \A t, u \in Threads : \A a \in ArchRegs, e \in Kept(u) : map[t][a] # e.prev

\* RegsPartitioned is the conjunction of the four.
LEMMA PartitionedParts ==
    RegsPartitioned <=> FreeUnheld /\ MapsDistinct /\ PrevsDistinct /\ MapsNotPrevs
BY DEF RegsPartitioned, FreeUnheld, MapsDistinct, PrevsDistinct, MapsNotPrevs

\* removeFromHistory() frees exactly the registers whose entries it removes.
LEMMA EndRenameKeeps ==
    ASSUME TypeOK, IInv, EndRename
    PROVE  IInv'
<1>1. FreeUnheld /\ MapsDistinct /\ PrevsDistinct /\ MapsNotPrevs /\ EntriesInv /\ ChainInv
  BY PartitionedParts DEF IInv
<1>2. \A t \in Threads : Kept(t)' = Kept(t) \ Committed(t)
  BY Zenon DEF EndRename, Kept
<1>3. \A t \in Threads : \A e \in Kept(t) :
         /\ e \in Entries /\ e.seq \in Nat /\ e.prev \in PhysRegs /\ e.arch \in ArchRegs
         /\ e \in history[t]
  BY DEF TypeOK, Kept, Entries
<1>4. map' = map /\ nextSeq' = nextSeq
  BY DEF EndRename
<1>5. \A p : p \in free' <=> p \in free \/ \E t \in Threads : \E e \in Kept(t) : e \in Committed(t) /\ e.prev = p
  BY DEF EndRename, Kept, Committed
<1>6. FreeUnheld'
  <2> SUFFICES ASSUME NEW p \in PhysRegs PROVE p \in free' <=> ~Held(p)'
    BY DEF FreeUnheld
  <2>1. ASSUME p \in free PROVE ~Held(p)'
    BY <1>1, <1>2, <1>4, <2>1, Zenon DEF FreeUnheld, Held
  <2>2. ASSUME NEW t \in Threads, NEW e \in Kept(t), e \in Committed(t), e.prev = p
        PROVE  ~Held(p)'
    BY <1>1, <1>2, <1>4, <2>2 DEF Held, PrevsDistinct, MapsNotPrevs
  <2>3. ASSUME ~Held(p)', p \notin free PROVE p \in free'
    <3>1. Held(p)
      BY <1>1, <2>3 DEF FreeUnheld
    <3>2. PICK t \in Threads : \E e \in Kept(t) : e.prev = p
      BY <3>1, <2>3, <1>4 DEF Held
    <3> QED BY <3>2, <2>3, <1>2, <1>5 DEF Held
  <2> QED BY <1>5, <2>1, <2>2, <2>3
<1>7. MapsDistinct' /\ PrevsDistinct' /\ MapsNotPrevs'
  BY <1>1, <1>2, <1>4 DEF MapsDistinct, PrevsDistinct, MapsNotPrevs
<1>8. EntriesInv'
  BY <1>1, <1>4 DEF EntriesInv, EndRename
<1>9. ChainInv'
  <2> SUFFICES ASSUME NEW t \in Threads, NEW e \in Kept(t)'
               PROVE  \/ Youngest(t, e)' /\ map[t][e.arch] = e.new
                      \/ \E f \in Kept(t)' : Follows(t, e, f)' /\ f.prev = e.new
    BY <1>4, Zenon DEF ChainInv
  <2>1. CASE Youngest(t, e) /\ map[t][e.arch] = e.new
    BY <2>1, <1>2, Zenon DEF Youngest
  <2>2. ASSUME NEW f \in Kept(t), Follows(t, e, f), f.prev = e.new
        PROVE  \E g \in Kept(t)' : Follows(t, e, g)' /\ g.prev = e.new
    <3>1. f \notin Committed(t)
      <4>1. e \in Kept(t) /\ e \notin Committed(t) /\ e.seq < f.seq
        BY <1>2, <2>2, Zenon DEF Follows
      <4>2. msg[t].done \in Int
        BY DEF TypeOK
      <4> QED BY <4>1, <4>2, <1>3 DEF Committed
    <3>2. Follows(t, e, f)'
      BY <1>2, <2>2, Zenon DEF Follows
    <3> QED BY <3>1, <3>2, <1>2, <2>2
  <2> QED BY <1>1, <1>2, <2>1, <2>2, Zenon DEF ChainInv
<1> QED BY <1>6, <1>7, <1>8, <1>9, PartitionedParts, PTL DEF IInv

\* Renaming moves registers from the free list to the map, and the ones they
\* replace to the history buffer.
LEMMA RenameKeeps ==
    ASSUME TypeOK, IInv, NEW t \in Threads, NEW S \in SUBSET Renamed,
           NEW D \in SUBSET ArchRegs, RenameInst(t, S, D)
    PROVE  IInv'
<1>1. FreeUnheld /\ MapsDistinct /\ PrevsDistinct /\ MapsNotPrevs /\ EntriesInv /\ ChainInv
  BY PartitionedParts DEF IInv
<1>2. PICK reg \in [D -> PhysRegs] : RenameInst(t, S, D)!3!(reg)
  BY Zenon DEF RenameInst
<1> DEFINE E(a) == [seq |-> nextSeq, arch |-> a, new |-> reg[a], prev |-> map[t][a]]
<1>3. \A a : E(a).seq = nextSeq /\ E(a).arch = a /\ E(a).new = reg[a] /\ E(a).prev = map[t][a]
  BY Zenon
<1>4. history' = [history EXCEPT ![t] = @ \cup {E(a) : a \in D}]
  BY <1>2, Zenon
<1> HIDE DEF E
<1>5. /\ nextSeq \in Nat /\ nextSeq' = nextSeq + 1
      /\ map \in [Threads -> [ArchRegs -> PhysRegs]]
      /\ history \in [Threads -> SUBSET Entries]
  BY DEF TypeOK, RenameInst
<1>6. /\ \A a \in ArchRegs : map'[t][a] = IF a \in D THEN reg[a] ELSE map[t][a]
      /\ \A u \in Threads \ {t} : map'[u] = map[u]
      /\ \A p : p \in free' <=> p \in free /\ \A a \in D : reg[a] # p
  BY <1>2, <1>5, Zenon
<1>7. \A u \in Threads, a \in ArchRegs : map[u][a] \notin free
  BY <1>1, <1>5 DEF FreeUnheld, Held
<1>8. \A u \in Threads : \A e \in Kept(u) : e.prev \notin free
  <2>1. \A u \in Threads : \A e \in Kept(u) : e.prev \in PhysRegs
    BY <1>5 DEF Kept, Entries
  <2> QED BY <2>1, <1>1, Zenon DEF FreeUnheld, Held
<1>9. /\ \A a \in D \ {ZeroReg} : reg[a] \in free
      /\ ZeroReg \in D => reg[ZeroReg] = map[t][ZeroReg]
      /\ \A a, b \in D : reg[a] = reg[b] => a = b
  BY <1>2, Zenon DEF Allocates
<1>10. \A a \in D : E(a).new = E(a).prev <=> a = ZeroReg
  BY <1>3, <1>7, <1>9
<1>11. /\ \A e : e \in Kept(t)' <=> e \in Kept(t) \/ \E a \in D \ {ZeroReg} : e = E(a)
       /\ \A u \in Threads \ {t} : Kept(u)' = Kept(u)
  <2>1. /\ \A e : e \in history'[t] <=> e \in history[t] \/ \E a \in D : e = E(a)
        /\ \A u \in Threads \ {t} : history'[u] = history[u]
    BY <1>4, <1>5
  <2> QED BY <2>1, <1>10, Zenon DEF Kept
<1>12. \A u \in Threads : \A e \in Kept(u) :
         /\ e.seq \in Nat /\ e.seq < nextSeq /\ e.arch \in ArchRegs /\ e.arch # ZeroReg
         /\ e.prev \in PhysRegs
  BY <1>1, <1>5 DEF Kept, Entries, EntriesInv
<1>13. FreeUnheld'
  <2> SUFFICES ASSUME NEW p \in PhysRegs PROVE p \in free' <=> ~Held(p)'
    BY DEF FreeUnheld
  <2>1. ASSUME p \in free', NEW u \in Threads, NEW a \in ArchRegs, map'[u][a] = p PROVE FALSE
    BY <2>1, <1>6, <1>7
  <2>2. ASSUME p \in free', NEW u \in Threads, NEW e \in Kept(u)', e.prev = p PROVE FALSE
    <3>1. CASE e \in Kept(u)
      BY <3>1, <2>2, <1>6, <1>8, Zenon
    <3>2. CASE u = t /\ \E a \in D : e = E(a)
      BY <3>2, <2>2, <1>3, <1>6, <1>7
    <3> QED BY <3>1, <3>2, <1>11
  <2>3. ASSUME p \notin free', p \in free PROVE Held(p)'
    <3>1. PICK a \in D : reg[a] = p
      BY <2>3, <1>6, Zenon
    <3> QED BY <3>1, <1>6, Zenon DEF Held
  <2>4. ASSUME p \notin free PROVE Held(p)'
    <3>1. Held(p)
      BY <2>4, <1>1 DEF FreeUnheld
    <3>2. ASSUME NEW u \in Threads, NEW a \in ArchRegs, map[u][a] = p PROVE Held(p)'
      <4>1. CASE u # t \/ a \notin D \/ a = ZeroReg
        BY <4>1, <3>2, <1>6, <1>9 DEF Held
      <4>2. CASE u = t /\ a \in D /\ a # ZeroReg
        <5>1. E(a) \in Kept(t)' /\ E(a).prev = p
          BY <4>2, <3>2, <1>3, <1>11, Zenon
        <5> QED BY <5>1, Zenon DEF Held
      <4> QED BY <4>1, <4>2
    <3>3. ASSUME NEW u \in Threads, NEW e \in Kept(u), e.prev = p PROVE Held(p)'
      <4>1. e \in Kept(u)'
        BY <1>11
      <4> QED BY <4>1, <3>3 DEF Held
    <3> QED BY <3>1, <3>2, <3>3, Zenon DEF Held
  <2> QED BY <2>1, <2>2, <2>3, <2>4, Zenon DEF Held
<1>14. MapsDistinct'
  <2> SUFFICES ASSUME NEW u \in Threads, NEW v \in Threads, NEW a \in ArchRegs, NEW b \in ArchRegs,
                      map'[u][a] = map'[v][b]
               PROVE  a = b /\ (u = v \/ a = ZeroReg)
    BY DEF MapsDistinct
  <2> DEFINE Fresh(w, c) == w = t /\ c \in D \ {ZeroReg}
  <2>1. \A w \in Threads, c \in ArchRegs :
           IF Fresh(w, c) THEN map'[w][c] = reg[c] /\ map'[w][c] \in free ELSE map'[w][c] = map[w][c]
    BY <1>6, <1>9
  <2>2. CASE Fresh(u, a) /\ Fresh(v, b)
    BY <2>2, <2>1, <1>9
  <2>3. CASE Fresh(u, a) # Fresh(v, b)
    BY <2>3, <2>1, <1>7
  <2>4. CASE ~Fresh(u, a) /\ ~Fresh(v, b)
    BY <2>4, <2>1, <1>1 DEF MapsDistinct
  <2> QED BY <2>2, <2>3, <2>4, Zenon
<1>15. PrevsDistinct'
  <2> SUFFICES ASSUME NEW u \in Threads, NEW v \in Threads, NEW e \in Kept(u)', NEW f \in Kept(v)',
                      e.prev = f.prev
               PROVE  u = v /\ e = f
    BY DEF PrevsDistinct
  <2> DEFINE New(w, g) == w = t /\ \E a \in D \ {ZeroReg} : g = E(a)
  <2>1. (New(u, e) \/ e \in Kept(u)) /\ (New(v, f) \/ f \in Kept(v))
    BY <1>11, Zenon
  <2>2. CASE New(u, e) /\ New(v, f)
    BY <2>2, <1>1, <1>3 DEF MapsDistinct
  <2>3. CASE New(u, e) /\ f \in Kept(v)
    BY <2>3, <1>1, <1>3 DEF MapsNotPrevs
  <2>4. CASE e \in Kept(u) /\ New(v, f)
    BY <2>4, <1>1, <1>3 DEF MapsNotPrevs
  <2>5. CASE e \in Kept(u) /\ f \in Kept(v)
    BY <2>5, <1>1, Zenon DEF PrevsDistinct
  <2> QED BY <2>1, <2>2, <2>3, <2>4, <2>5, Zenon
<1>16. MapsNotPrevs'
  <2> SUFFICES ASSUME NEW u \in Threads, NEW v \in Threads, NEW a \in ArchRegs, NEW e \in Kept(v)',
                      map'[u][a] = e.prev
               PROVE  FALSE
    BY Zenon DEF MapsNotPrevs
  <2>1. CASE e \in Kept(v)
    <3>1. CASE u = t /\ a \in D \ {ZeroReg}
      BY <3>1, <2>1, <1>6, <1>8, <1>9, SMTT(60)
    <3>2. CASE ~(u = t /\ a \in D \ {ZeroReg})
      <4>1. map'[u][a] = map[u][a]
        BY <3>2, <1>6, <1>9
      <4> QED BY <4>1, <2>1, <1>1, Zenon DEF MapsNotPrevs
    <3> QED BY <3>1, <3>2, Zenon
  <2>2. ASSUME v = t, NEW b \in D \ {ZeroReg}, e = E(b) PROVE FALSE
    <3>1. map'[u][a] = map[t][b] /\ b \in ArchRegs
      BY <2>2, <1>3, Zenon
    <3>2. CASE u = t /\ a \in D \ {ZeroReg}
      BY <3>1, <3>2, <1>6, <1>7, <1>9
    <3>3. CASE ~(u = t /\ a \in D \ {ZeroReg})
      <4>1. map'[u][a] = map[u][a]
        BY <3>3, <1>6, <1>9
      <4>2. map[u][a] = map[t][b]
        BY <4>1, <3>1, Zenon
      <4>3. a = b /\ (u = t \/ a = ZeroReg)
        BY <4>2, <3>1, <1>1 DEF MapsDistinct
      <4> QED BY <4>3, <3>3, Zenon
    <3> QED BY <3>2, <3>3, Zenon
  <2> QED BY <2>1, <2>2, <1>11, Zenon
<1>17. EntriesInv'
  <2> SUFFICES ASSUME NEW u \in Threads, NEW e \in history'[u]
               PROVE  /\ e.seq < nextSeq + 1
                      /\ e.new = e.prev <=> e.arch = ZeroReg
                      /\ \A f \in history'[u] : e.seq = f.seq /\ e.arch = f.arch => e = f
    BY <1>5, Zenon DEF EntriesInv
  <2>1. \A g \in history[u] : g.seq \in Nat /\ g.seq < nextSeq
    BY <1>1, <1>5 DEF EntriesInv, Entries
  <2>2. \A g \in history'[u] : g \in history[u] \/ (u = t /\ \E a \in D : g = E(a))
    BY <1>4, <1>5
  <2>3. CASE e \in history[u]
    <3>1. e.seq < nextSeq + 1
      BY <2>1, <2>3, <1>5
    <3>2. \A f \in history'[u] : e.seq = f.seq /\ e.arch = f.arch => e = f
      BY <1>1, <1>3, <1>5, <2>1, <2>2, <2>3 DEF EntriesInv
    <3> QED BY <3>1, <3>2, <2>3, <1>1, Zenon DEF EntriesInv
  <2>4. ASSUME NEW a \in D, e = E(a), u = t
        PROVE  /\ e.seq < nextSeq + 1
               /\ e.new = e.prev <=> e.arch = ZeroReg
               /\ \A f \in history'[u] : e.seq = f.seq /\ e.arch = f.arch => e = f
    <3>1. \A f \in history'[u] : e.seq = f.seq /\ e.arch = f.arch => e = f
      BY <1>3, <1>5, <2>1, <2>2, <2>4
    <3> QED BY <3>1, <2>4, <1>3, <1>5, <1>10
  <2> QED BY <2>2, <2>3, <2>4, Zenon
<1>18. ChainInv'
  <2> SUFFICES ASSUME NEW u \in Threads, NEW e \in Kept(u)'
               PROVE  \/ Youngest(u, e)' /\ map'[u][e.arch] = e.new
                      \/ \E f \in Kept(u)' : Follows(u, e, f)' /\ f.prev = e.new
    BY Zenon DEF ChainInv
  <2>1. CASE u # t
    <3>1. Kept(u)' = Kept(u) /\ map'[u] = map[u]
      BY <2>1, <1>6, <1>11, Zenon
    <3> QED BY <3>1, <1>1, SMTT(60) DEF ChainInv, Youngest, Follows
  <2>2. ASSUME u = t, e \in Kept(t), Youngest(t, e), map[t][e.arch] = e.new, e.arch \in D
        PROVE  \E f \in Kept(u)' : Follows(u, e, f)' /\ f.prev = e.new
    <3>1. PICK f \in Kept(t)' : f.seq = nextSeq /\ f.arch = e.arch /\ f.prev = e.new
      BY <2>2, <1>3, <1>11, <1>12, SMTT(60)
    <3>2. Follows(t, e, f)'
      BY <2>2, <3>1, <1>3, <1>11, <1>12, <1>5, SMTT(60) DEF Follows, Youngest
    <3> QED BY <3>1, <3>2, <2>2, Zenon
  <2>3. ASSUME u = t, e \in Kept(t), Youngest(t, e), map[t][e.arch] = e.new, e.arch \notin D
        PROVE  Youngest(u, e)' /\ map'[u][e.arch] = e.new
    BY <2>3, <1>3, <1>6, <1>11, <1>12, SMTT(60) DEF Youngest
  <2>4. ASSUME u = t, e \in Kept(t), NEW f \in Kept(t), Follows(t, e, f), f.prev = e.new
        PROVE  f \in Kept(u)' /\ Follows(u, e, f)'
    BY <2>4, <1>3, <1>5, <1>11, <1>12, SMTT(60) DEF Follows
  <2>5. ASSUME u = t, NEW a \in D \ {ZeroReg}, e = E(a)
        PROVE  Youngest(u, e)' /\ map'[u][e.arch] = e.new
    BY <2>5, <1>3, <1>5, <1>6, <1>11, <1>12, SMTT(60) DEF Youngest
  <2> QED BY <1>1, <1>11, <2>1, <2>2, <2>3, <2>4, <2>5, Zenon DEF ChainInv
<1> QED BY <1>13, <1>14, <1>15, <1>16, <1>17, <1>18, PartitionedParts, PTL DEF IInv

\* doSquash() gives back exactly the registers the undone instructions
\* allocated, and the map gets back the ones they replaced.
LEMMA SquashKeeps ==
    ASSUME TypeOK, IInv, NEW t \in Threads, DoSquash(t)
    PROVE  IInv'
<1>1. FreeUnheld /\ MapsDistinct /\ PrevsDistinct /\ MapsNotPrevs /\ EntriesInv /\ ChainInv
  BY PartitionedParts DEF IInv
<1> DEFINE num == msg[t].done
           U(a) == Undone(t, num, a)
<1>2. num \in Nat /\ history \in [Threads -> SUBSET Entries]
      /\ map \in [Threads -> [ArchRegs -> PhysRegs]] /\ nextSeq' = nextSeq
  BY SMTT(60) DEF TypeOK, DoSquash
<1>3. /\ map' = [map EXCEPT ![t] = [a \in ArchRegs |-> IF U(a) = {} THEN @[a]
                                                      ELSE Oldest(U(a)).prev]]
      /\ free' = free \cup UNION {{e.new : e \in U(a)} : a \in ArchRegs}
      /\ history' = [history EXCEPT ![t] = {e \in @ : e.seq <= num}]
  BY Zenon DEF DoSquash
<1>4. \A a : U(a) \in SUBSET Entries /\ \A e : e \in U(a) <=> e \in Kept(t) /\ e.seq > num /\ e.arch = a
  BY <1>2, Zenon DEF Undone, Kept
<1> HIDE DEF num, U
<1>5. \A u \in Threads : \A e \in Kept(u) :
         /\ e.seq \in Nat /\ e.arch \in ArchRegs /\ e.arch # ZeroReg
         /\ e.prev \in PhysRegs /\ e.new \in PhysRegs /\ e \in history[u]
         /\ \A f \in Kept(u) : e.seq = f.seq /\ e.arch = f.arch => e = f
  BY <1>1, <1>2 DEF Kept, Entries, EntriesInv
<1>6. /\ \A e : e \in Kept(t)' <=> e \in Kept(t) /\ e.seq <= num
      /\ \A u \in Threads \ {t} : Kept(u)' = Kept(u)
  BY <1>2, <1>3, Zenon DEF Kept
<1>7. /\ \A u \in Threads \ {t} : map'[u] = map[u]
      /\ \A a \in ArchRegs : U(a) = {} => map'[t][a] = map[t][a]
      /\ \A a \in ArchRegs : U(a) # {} => map'[t][a] = Oldest(U(a)).prev
  BY <1>2, <1>3, Zenon
<1>8. \A a \in ArchRegs : U(a) # {} =>
         \E m \in U(a) : map'[t][a] = m.prev /\ \A e \in U(a) : m.seq <= e.seq
  <2> SUFFICES ASSUME NEW a \in ArchRegs, U(a) # {}
               PROVE  \E m \in U(a) : map'[t][a] = m.prev /\ \A e \in U(a) : m.seq <= e.seq
    BY Zenon
  <2>1. Oldest(U(a)) \in U(a) /\ \A e \in U(a) : Oldest(U(a)).seq <= e.seq
    BY <1>4, OldestProperty, Zenon
  <2> QED BY <2>1, <1>7, Zenon
<1>9. \A p : p \in free' <=> p \in free \/ \E e \in Kept(t) : e.seq > num /\ e.new = p
  BY <1>3, <1>4, <1>5
\* A register mapped after the squash was mapped before, or replaced by the
\* oldest undone instruction.
<1>10. \A u \in Threads, a \in ArchRegs :
          \/ map'[u][a] = map[u][a] /\ (u = t => U(a) = {})
          \/ u = t /\ \E m \in U(a) : map'[u][a] = m.prev /\ \A e \in U(a) : m.seq <= e.seq
  BY <1>7, <1>8, Zenon
<1>11. MapsDistinct'
  <2> SUFFICES ASSUME NEW u \in Threads, NEW v \in Threads, NEW a \in ArchRegs, NEW b \in ArchRegs,
                      map'[u][a] = map'[v][b]
               PROVE  a = b /\ (u = v \/ a = ZeroReg)
    BY Zenon DEF MapsDistinct
  <2>1. CASE map'[u][a] = map[u][a] /\ map'[v][b] = map[v][b]
    <3>1. map[u][a] = map[v][b]
      BY <2>1, Zenon
    <3> QED BY <3>1, <1>1 DEF MapsDistinct
  <2>2. ASSUME map'[u][a] = map[u][a], NEW m \in U(b), map'[v][b] = m.prev PROVE FALSE
    <3>1. map[u][a] = m.prev /\ m \in Kept(t)
      BY <2>2, <1>4, Zenon
    <3> QED BY <3>1, <1>1, Zenon DEF MapsNotPrevs
  <2>3. ASSUME map'[v][b] = map[v][b], NEW m \in U(a), map'[u][a] = m.prev PROVE FALSE
    <3>1. map[v][b] = m.prev /\ m \in Kept(t)
      BY <2>3, <1>4, Zenon
    <3> QED BY <3>1, <1>1, Zenon DEF MapsNotPrevs
  <2>4. ASSUME u = t, v = t, NEW m \in U(a), map'[u][a] = m.prev, NEW n \in U(b), map'[v][b] = n.prev
        PROVE  a = b /\ u = v
    <3>1. m.prev = n.prev /\ m \in Kept(t) /\ n \in Kept(t) /\ m.arch = a /\ n.arch = b
      BY <2>4, <1>4, Zenon
    <3>2. m = n
      BY <3>1, <1>1, Zenon DEF PrevsDistinct
    <3> QED BY <3>1, <3>2, <2>4, Zenon
  <2> QED BY <2>1, <2>2, <2>3, <2>4, <1>10, Zenon
<1>12. PrevsDistinct'
  BY <1>1, <1>6 DEF PrevsDistinct
<1>13. MapsNotPrevs'
  <2> SUFFICES ASSUME NEW u \in Threads, NEW v \in Threads, NEW a \in ArchRegs, NEW e \in Kept(v)',
                      map'[u][a] = e.prev
               PROVE  FALSE
    BY Zenon DEF MapsNotPrevs
  <2>1. e \in Kept(v)
    BY <1>6, Zenon
  <2>2. CASE map'[u][a] = map[u][a]
    BY <2>1, <2>2, <1>1, Zenon DEF MapsNotPrevs
  <2>3. ASSUME u = t, NEW m \in U(a), map'[u][a] = m.prev PROVE FALSE
    <3>1. m \in Kept(t) /\ m.seq > num
      BY <1>4, Zenon
    <3>2. e = m /\ v = t
      BY <2>1, <2>3, <3>1, <1>1, Zenon DEF PrevsDistinct
    <3> QED BY <3>1, <3>2, <1>2, <1>5, <1>6 DEF num
  <2> QED BY <2>2, <2>3, <1>10, Zenon
<1>14. FreeUnheld'
  <2> SUFFICES ASSUME NEW p \in PhysRegs PROVE p \in free' <=> ~Held(p)'
    BY DEF FreeUnheld
  <2>1. ASSUME p \in free, Held(p)' PROVE FALSE
    <3>1. ~Held(p)
      BY <2>1, <1>1 DEF FreeUnheld
    <3>2. ASSUME NEW u \in Threads, NEW a \in ArchRegs, map'[u][a] = p PROVE FALSE
      BY <3>1, <3>2, <1>4, <1>10 DEF Held
    <3>3. ASSUME NEW u \in Threads, NEW e \in Kept(u)', e.prev = p PROVE FALSE
      BY <3>1, <3>3, <1>6, Zenon DEF Held
    <3> QED BY <2>1, <3>2, <3>3 DEF Held
  <2>2. ASSUME NEW e \in Kept(t), e.seq > num, e.new = p, Held(p)' PROVE FALSE
    <3>1. e \in U(e.arch) /\ e.arch \in ArchRegs /\ e.arch # ZeroReg
      BY <2>2, <1>4, <1>5, Zenon
    <3>2. CASE map[t][e.arch] = p
      <4>1. ASSUME NEW u \in Threads, NEW a \in ArchRegs, map'[u][a] = p PROVE FALSE
        <5>1. CASE map'[u][a] = map[u][a] /\ (u = t => U(a) = {})
          <6>1. map[u][a] = map[t][e.arch]
            BY <5>1, <4>1, <3>2, Zenon
          <6>2. a = e.arch /\ u = t
            BY <6>1, <3>1, <1>1 DEF MapsDistinct
          <6> QED BY <6>2, <5>1, <3>1, Zenon
        <5>2. ASSUME NEW m \in U(a), map'[u][a] = m.prev PROVE FALSE
          <6>1. map[t][e.arch] = m.prev /\ m \in Kept(t)
            BY <5>2, <4>1, <3>2, <1>4, Zenon
          <6> QED BY <6>1, <3>1, <1>1, Zenon DEF MapsNotPrevs
        <5> QED BY <5>1, <5>2, <1>10, Zenon
      <4>2. ASSUME NEW u \in Threads, NEW f \in Kept(u)', f.prev = p PROVE FALSE
        BY <4>2, <3>1, <3>2, <1>1, <1>6, Zenon DEF MapsNotPrevs
      <4> QED BY <2>2, <4>1, <4>2, Zenon DEF Held
    <3>3. ASSUME NEW f \in Kept(t), Follows(t, e, f), f.prev = p PROVE FALSE
      <4>1. f.seq > num /\ e.seq < f.seq /\ f.arch = e.arch /\ f.seq \in Nat /\ e.seq \in Nat /\ num \in Nat
        BY <3>3, <2>2, <1>2, <1>5, SMTT(60) DEF Follows
      <4>2. ASSUME NEW u \in Threads, NEW a \in ArchRegs, map'[u][a] = p PROVE FALSE
        <5>1. CASE map'[u][a] = map[u][a]
          BY <5>1, <4>2, <3>3, <1>1, Zenon DEF MapsNotPrevs
        <5>2. ASSUME NEW m \in U(a), m.prev = p, \A g \in U(a) : m.seq <= g.seq PROVE FALSE
          <6>1. m = f
            BY <5>2, <3>3, <1>1, <1>4, Zenon DEF PrevsDistinct
          <6>2. e \in U(a)
            BY <6>1, <5>2, <4>1, <3>1, <1>4, Zenon
          <6> QED BY <6>1, <6>2, <5>2, <4>1
        <5> QED BY <5>1, <5>2, <4>2, <1>10, Zenon
      <4>3. ASSUME NEW u \in Threads, NEW g \in Kept(u)', g.prev = p PROVE FALSE
        <5>1. g \in Kept(u)
          BY <1>6, Zenon
        <5>2. g = f /\ u = t
          BY <5>1, <4>3, <3>3, <1>1, Zenon DEF PrevsDistinct
        <5> QED BY <5>2, <4>1, <1>6
      <4> QED BY <2>2, <4>2, <4>3, Zenon DEF Held
    <3> QED BY <2>2, <3>2, <3>3, <1>1, Zenon DEF ChainInv
  <2>3. ASSUME p \notin free, ~Held(p)' PROVE p \in free'
    <3>1. Held(p)
      BY <2>3, <1>1 DEF FreeUnheld
    <3>2. ASSUME NEW u \in Threads, NEW a \in ArchRegs, map[u][a] = p PROVE p \in free'
      <4>1. u = t /\ U(a) # {}
        BY <2>3, <3>2, <1>7, Zenon DEF Held
      <4>2. PICK y \in U(a) : \A f \in U(a) : f.seq <= y.seq
        BY <4>1, <1>4, YoungestEntry, Zenon
      <4>3. y \in Kept(t) /\ y.seq > num /\ y.arch = a /\ y.seq \in Nat /\ num \in Nat
        BY <1>2, <1>4, <1>5, Zenon
      <4>4. Youngest(t, y)
        BY <4>2, <4>3, <1>4, <1>5, SMTT(60) DEF Youngest
      <4>5. ~\E f \in Kept(t) : Follows(t, y, f)
        BY <4>3, <4>4, <1>5, SMTT(60) DEF Youngest, Follows
      <4>6. y.new = p
        BY <4>1, <4>3, <4>5, <3>2, <1>1, Zenon DEF ChainInv
      <4> QED BY <4>3, <4>6, <1>9, Zenon
    <3>3. ASSUME NEW u \in Threads, NEW e \in Kept(u), e.prev = p PROVE p \in free'
      <4>1. u = t /\ e.seq > num /\ e \in U(e.arch) /\ e.arch \in ArchRegs /\ e.seq \in Nat
        BY <2>3, <3>3, <1>2, <1>4, <1>5, <1>6, SMTT(60) DEF Held, num
      <4>2. PICK m \in U(e.arch) : map'[t][e.arch] = m.prev /\ \A g \in U(e.arch) : m.seq <= g.seq
        BY <4>1, <1>8, Zenon
      <4>3. m # e
        BY <4>1, <4>2, <3>3, <2>3, Zenon DEF Held
      <4>4. m \in Kept(t) /\ m.arch = e.arch /\ m.seq \in Nat /\ m.seq > num
        BY <1>4, <1>5, Zenon
      <4>5. m.seq < e.seq
        BY <4>1, <4>2, <4>3, <4>4, <1>5, SMTT(60)
      <4> DEFINE G == {g \in U(e.arch) : g.seq < e.seq}
      <4>6. G \in SUBSET Entries /\ G # {}
        BY <4>5, <1>4, Zenon
      <4>7. PICK y \in G : \A f \in G : f.seq <= y.seq
        BY <4>6, YoungestEntry, Zenon
      <4>8. y \in Kept(t) /\ y.seq > num /\ y.arch = e.arch /\ y.seq \in Nat /\ y.seq < e.seq
        BY <4>7, <1>4, <1>5, Zenon
      <4>9. \A g \in Kept(t) : g.arch = e.arch => g.seq <= y.seq \/ e.seq <= g.seq
        <5> SUFFICES ASSUME NEW g \in Kept(t), g.arch = e.arch, ~(e.seq <= g.seq)
                     PROVE  g.seq <= y.seq
          BY Zenon
        <5>1. g.seq \in Nat /\ num \in Nat
          BY <1>2, <1>5, Zenon
        <5>2. CASE g.seq > num
          BY <5>1, <5>2, <4>1, <4>7, <1>4, SMTT(60)
        <5>3. CASE g.seq <= num
          BY <5>1, <5>3, <4>8
        <5> QED BY <5>1, <5>2, <5>3
      <4>10. ~Youngest(t, y)
        BY <4>1, <4>8, <3>3 DEF Youngest
      <4>11. PICK f \in Kept(t) : Follows(t, y, f) /\ f.prev = y.new
        BY <4>8, <4>10, <1>1, Zenon DEF ChainInv
      <4>12. f.seq = e.seq /\ f.arch = e.arch
        <5>1. f.seq \in Nat /\ f.arch = y.arch /\ y.seq < f.seq
          BY <4>11, <1>5, Zenon DEF Follows
        <5>2. e.seq <= f.seq
          BY <5>1, <4>1, <4>8, <4>9
        <5>3. e.seq <= y.seq \/ f.seq <= e.seq
          BY <4>1, <4>8, <4>11, <3>3, Zenon DEF Follows
        <5> QED BY <5>1, <5>2, <5>3, <4>1, <4>8
      <4>13. f = e
        BY <4>1, <4>12, <3>3, <1>5, Zenon
      <4> QED BY <4>8, <4>11, <4>13, <3>3, <1>9, Zenon
    <3> QED BY <3>1, <3>2, <3>3, Zenon DEF Held
  <2> QED BY <1>9, <2>1, <2>2, <2>3
<1>15. EntriesInv'
  BY <1>1, <1>2, <1>3, SMTT(60) DEF EntriesInv
<1>16. ChainInv'
  <2> SUFFICES ASSUME NEW u \in Threads, NEW e \in Kept(u)'
               PROVE  \/ Youngest(u, e)' /\ map'[u][e.arch] = e.new
                      \/ \E f \in Kept(u)' : Follows(u, e, f)' /\ f.prev = e.new
    BY Zenon DEF ChainInv
  <2>1. CASE u # t
    <3>1. Kept(u)' = Kept(u) /\ map'[u] = map[u]
      BY <2>1, <1>6, <1>7, Zenon
    <3> QED BY <3>1, <1>1, SMTT(60) DEF ChainInv, Youngest, Follows
  <2>2. CASE u = t
    <3>1. e \in Kept(t) /\ e.seq <= num /\ e.seq \in Nat /\ num \in Nat /\ e.arch \in ArchRegs
      BY <2>2, <1>2, <1>5, <1>6, Zenon
    <3>2. ASSUME Youngest(t, e), map[t][e.arch] = e.new
          PROVE  Youngest(t, e)' /\ map'[t][e.arch] = e.new
      <4>1. U(e.arch) = {}
        BY <3>1, <3>2, <1>4, <1>5, SMTT(60) DEF Youngest
      <4> QED BY <4>1, <3>1, <3>2, <1>6, <1>7, Zenon DEF Youngest
    <3>3. ASSUME NEW f \in Kept(t), Follows(t, e, f), f.prev = e.new, f.seq <= num
          PROVE  \E g \in Kept(t)' : Follows(t, e, g)' /\ g.prev = e.new
      <4>1. f \in Kept(t)' /\ Follows(t, e, f)'
        BY <3>3, <1>6, Zenon DEF Follows
      <4> QED BY <4>1, <3>3, Zenon
    <3>4. ASSUME NEW f \in Kept(t), Follows(t, e, f), f.prev = e.new, f.seq > num
          PROVE  Youngest(t, e)' /\ map'[t][e.arch] = e.new
      <4>1. f \in U(e.arch) /\ f.seq \in Nat /\ f.arch = e.arch
        BY <3>4, <1>4, <1>5, Zenon DEF Follows
      <4>2. PICK m \in U(e.arch) : map'[t][e.arch] = m.prev /\ \A g \in U(e.arch) : m.seq <= g.seq
        BY <4>1, <3>1, <1>8, Zenon
      <4>3. m \in Kept(t) /\ m.seq \in Nat /\ m.seq > num /\ m.arch = e.arch
        BY <1>4, <1>5, Zenon
      <4>4. f.seq <= m.seq
        BY <4>3, <3>1, <3>4 DEF Follows
      <4>5. m.seq <= f.seq
        BY <4>1, <4>2, Zenon
      <4>6. m = f
        BY <4>1, <4>3, <4>4, <4>5, <1>5
      <4>7. Youngest(t, e)'
        <5> SUFFICES ASSUME NEW g \in Kept(t), g.seq <= num, g.arch = e.arch PROVE g.seq <= e.seq
          BY <1>6, Zenon DEF Youngest
        <5>1. g.seq <= e.seq \/ f.seq <= g.seq
          BY <3>4, Zenon DEF Follows
        <5>2. g.seq \in Nat
          BY <1>5, Zenon
        <5> QED BY <5>1, <5>2, <4>1, <3>1, <3>4
      <4> QED BY <4>2, <4>6, <4>7, <3>4, Zenon
    <3>5. \A f \in Kept(t) : f.seq <= num \/ f.seq > num
      BY <3>1, <1>5
    <3> QED BY <2>2, <3>1, <3>2, <3>3, <3>4, <3>5, <1>1, Zenon DEF ChainInv
  <2> QED BY <2>1, <2>2, Zenon
<1> QED BY <1>11, <1>12, <1>13, <1>14, <1>15, <1>16, PartitionedParts, PTL DEF IInv

\* A step that leaves the map, the free list, the history buffers and the next
\* sequence number alone keeps the invariant.
LEMMA UnchangedKeeps ==
    ASSUME IInv, UNCHANGED <<map, free, history, nextSeq>>
    PROVE  IInv'
<1>1. \A t : Kept(t)' = Kept(t)
  BY DEF Kept
<1> QED BY <1>1, SMTT(60) DEF IInv, EntriesInv, ChainInv, Youngest, Follows, RegsPartitioned, Held

\* The invariant holds in every state.
LEMMA Invariance == Spec => []IInv
<1>1. Init => IInv
  <2> SUFFICES ASSUME Init PROVE IInv
    OBVIOUS
  <2>1. \A t \in Threads : Kept(t) = {} /\ history[t] = {}
    BY Zenon DEF Init, Kept
  <2>2. EntriesInv /\ ChainInv
    BY <2>1, Zenon DEF EntriesInv, ChainInv
  <2>3. \A p \in PhysRegs : p \in free <=> ~Held(p)
    <3> SUFFICES ASSUME NEW p \in PhysRegs PROVE p \in free <=> ~Held(p)
      OBVIOUS
    <3>1. Held(p) <=> \E t \in Threads, a \in ArchRegs : InitMap[t][a] = p
      BY <2>1, Zenon DEF Init, Held
    <3>2. p \in free <=> \A t \in Threads, a \in ArchRegs : InitMap[t][a] # p
      BY DEF Init
    <3> QED BY <3>1, <3>2
  <2>4. RegsPartitioned
    BY <2>1, <2>3, RegsAssumption DEF Init, RegsPartitioned
  <2> QED BY <2>2, <2>4 DEF IInv
<1>2. TypeOK /\ IInv /\ [Next]_vars => IInv'
  <2> SUFFICES ASSUME TypeOK, IInv, [Next]_vars PROVE IInv'
    OBVIOUS
  <2>1. ASSUME NEW t \in Threads, NEW S \in SUBSET Renamed, NEW D \in SUBSET ArchRegs,
               RenameInst(t, S, D)
        PROVE  IInv'
    BY <2>1, RenameKeeps, Zenon
  <2>2. ASSUME NEW t \in Threads, DoSquash(t) PROVE IInv'
    BY <2>2, SquashKeeps
  <2>3. CASE EndRename
    BY <2>3, EndRenameKeeps
  <2>4. ASSUME NEW t \in Threads, RenameNothing(t) \/ CommitHead(t) PROVE IInv'
    BY <2>4, UnchangedKeeps, Zenon DEF RenameNothing, CommitHead
  <2>5. ASSUME NEW t \in Threads, NEW i \in insts[t], Writeback(t, i) PROVE IInv'
    BY <2>5, UnchangedKeeps, Zenon DEF Writeback
  <2>6. ASSUME NEW t \in Threads, NEW num \in SquashTargets(t), CommitSquash(t, num) PROVE IInv'
    BY <2>6, UnchangedKeeps, Zenon DEF CommitSquash
  <2>7. ASSUME NEW p \in late, WritebackSquashed(p) PROVE IInv'
    BY <2>7, UnchangedKeeps, Zenon DEF WritebackSquashed
  <2>8. CASE EndIEW \/ EndCommit
    BY <2>8, UnchangedKeeps, Zenon DEF EndIEW, EndCommit
  <2>9. CASE UNCHANGED vars
    BY <2>9, UnchangedKeeps, Zenon DEF vars
  <2> QED BY <2>1, <2>2, <2>3, <2>4, <2>5, <2>6, <2>7, <2>8, <2>9, Zenon DEF Next
<1> QED BY <1>1, <1>2, TypeCorrect, PTL DEF Spec

\* The physical registers stay partitioned into free, mapped and replaced ones:
\* renaming, squashes and commits of any number of threads, in any order,
\* neither leak a register nor put one on the free list twice.
THEOREM Partitioned == Spec => []RegsPartitioned
<1>1. IInv => RegsPartitioned
  BY DEF IInv
<1> QED BY <1>1, Invariance, PTL

-----------------------------------------------------------------------------
(***************************************************************************)
(* What the instructions in flight see.  The history buffer keeps enough   *)
(* of the past to say what the rename map was after each instruction that  *)
(* has not committed; the map of commit, the operands of the instructions  *)
(* in flight and the map a squash restores are all such maps.              *)
(***************************************************************************)

\* After instruction n of thread t, register a was mapped to p: the next younger
\* instruction that writes a replaced p, or p is still mapped.
Maps(t, a, n, p) ==
    \/ map[t][a] = p /\ \A e \in Kept(t) : e.arch = a => e.seq <= n
    \/ \E e \in Kept(t) :
          /\ e.arch = a /\ e.seq > n /\ e.prev = p
          /\ \A f \in Kept(t) : f.arch = a => f.seq <= n \/ e.seq <= f.seq

\* Instructions in flight are younger than the committed ones and have numbers of
\* their own.
SeqInv ==
    \A t \in Threads :
        /\ done[t] < nextSeq
        /\ \A i \in insts[t] :
            /\ done[t] < i.seq /\ i.seq < nextSeq
            /\ \A j \in insts[t] : i.seq = j.seq => i = j

\* What commit tells rename, and when rename has acted on it.
MsgInv ==
    \A t \in Threads :
        IF msg[t].squash
        THEN /\ done[t] <= msg[t].done /\ phase # "iew"
             /\ \A i \in insts[t] : i.seq <= msg[t].done
             /\ phase = "rename" /\ t \notin todo => \A e \in Kept(t) : e.seq <= msg[t].done
        ELSE msg[t].done <= done[t]

\* An entry that is neither committed nor to be undone has its instruction.
WritersInv ==
    \A t \in Threads : \A e \in Kept(t) :
        done[t] < e.seq /\ (msg[t].squash => e.seq <= msg[t].done) =>
            \E i \in insts[t] : i.seq = e.seq /\ e.arch \in DOMAIN i.dests

\* The map of commit and the operands in flight are maps of the past.
CommitMapInv == \A t \in Threads : \A a \in ArchRegs : Maps(t, a, done[t], commitMap[t][a])
OperandsInv ==
    \A t \in Threads : \A i \in insts[t] :
        /\ \A a \in DOMAIN i.srcs : Maps(t, a, i.seq - 1, i.srcs[a])
        /\ \A a \in DOMAIN i.dests : Maps(t, a, i.seq, i.dests[a])

\* No two destinations in flight share a register, and none has the zero register.
DestsInv ==
    \A t, u \in Threads : \A i \in insts[t], j \in insts[u] :
        \A a \in DOMAIN i.dests \ {ZeroReg}, b \in DOMAIN j.dests :
            i.dests[a] = j.dests[b] => t = u /\ i.seq = j.seq /\ a = b

FlightInv ==
    SeqInv /\ MsgInv /\ WritersInv /\ CommitMapInv /\ OperandsInv /\ DestsInv /\ ScoreboardRight

\* What the types say of an entry and of an instruction in flight.
LEMMA FlightTypes ==
    ASSUME TypeOK, IInv
    PROVE  /\ nextSeq \in Nat
           /\ \A t \in Threads :
               /\ done[t] \in Nat /\ msg[t].done \in Nat /\ msg[t].squash \in BOOLEAN
               /\ \A e \in Kept(t) :
                   /\ e.seq \in Nat /\ e.seq < nextSeq /\ e.prev \in PhysRegs
                   /\ e.arch \in ArchRegs /\ e.arch # ZeroReg
                   /\ \A f \in Kept(t) : e.seq = f.seq /\ e.arch = f.arch => e = f
               /\ \A i \in insts[t] :
                   /\ i.seq \in Nat /\ DOMAIN i.srcs \subseteq ArchRegs /\ DOMAIN i.dests \subseteq ArchRegs
                   /\ \A a \in DOMAIN i.srcs : i.srcs[a] \in PhysRegs
                   /\ \A a \in DOMAIN i.dests : i.dests[a] \in PhysRegs
<1>1. nextSeq \in Nat
  BY RegsAssumption DEF TypeOK
<1> SUFFICES ASSUME NEW t \in Threads
             PROVE  /\ done[t] \in Nat /\ msg[t].done \in Nat /\ msg[t].squash \in BOOLEAN
                    /\ \A e \in Kept(t) :
                        /\ e.seq \in Nat /\ e.seq < nextSeq /\ e.prev \in PhysRegs
                        /\ e.arch \in ArchRegs /\ e.arch # ZeroReg
                        /\ \A f \in Kept(t) : e.seq = f.seq /\ e.arch = f.arch => e = f
                    /\ \A i \in insts[t] :
                        /\ i.seq \in Nat /\ DOMAIN i.srcs \subseteq ArchRegs /\ DOMAIN i.dests \subseteq ArchRegs
                        /\ \A a \in DOMAIN i.srcs : i.srcs[a] \in PhysRegs
                        /\ \A a \in DOMAIN i.dests : i.dests[a] \in PhysRegs
  BY <1>1, Zenon
<1>2. done[t] \in Nat /\ msg[t].done \in Nat /\ msg[t].squash \in BOOLEAN
  BY RegsAssumption DEF TypeOK
<1>3. ASSUME NEW e \in Kept(t)
      PROVE  /\ e.seq \in Nat /\ e.seq < nextSeq /\ e.prev \in PhysRegs
             /\ e.arch \in ArchRegs /\ e.arch # ZeroReg
             /\ \A f \in Kept(t) : e.seq = f.seq /\ e.arch = f.arch => e = f
  BY DEF TypeOK, IInv, EntriesInv, Kept, Entries
<1>4. ASSUME NEW i \in insts[t]
      PROVE  /\ i.seq \in Nat /\ DOMAIN i.srcs \subseteq ArchRegs /\ DOMAIN i.dests \subseteq ArchRegs
             /\ \A a \in DOMAIN i.srcs : i.srcs[a] \in PhysRegs
             /\ \A a \in DOMAIN i.dests : i.dests[a] \in PhysRegs
  <2>1. i \in InstType
    BY Zenon DEF TypeOK
  <2>2. i.seq \in Nat /\ i.srcs \in Operands /\ i.dests \in Operands
    BY <2>1 DEF InstType
  <2>3. PICK A \in SUBSET ArchRegs : i.srcs \in [A -> PhysRegs]
    BY <2>2, Zenon DEF Operands
  <2>4. PICK B \in SUBSET ArchRegs : i.dests \in [B -> PhysRegs]
    BY <2>2, Zenon DEF Operands
  <2> QED BY <2>2, <2>3, <2>4, Zenon
<1> QED BY <1>2, <1>3, <1>4, Zenon

\* A register of a map of the past is mapped or waits in the history buffer, so it
\* is not free, and it is the zero register only for the zero register.
LEMMA MapsNotFree ==
    ASSUME TypeOK, IInv, NEW t \in Threads, NEW a \in ArchRegs, NEW n, NEW p \in PhysRegs,
           Maps(t, a, n, p)
    PROVE  p \notin free /\ (a # ZeroReg => \A u \in Threads : ZeroReg \in ArchRegs => p # map[u][ZeroReg])
<1>1. FreeUnheld /\ MapsDistinct /\ MapsNotPrevs
  BY PartitionedParts DEF IInv
<1>2. Held(p)
  BY Zenon DEF Maps, Held
<1>3. ASSUME a # ZeroReg, NEW u \in Threads, ZeroReg \in ArchRegs, p = map[u][ZeroReg] PROVE FALSE
  BY <1>1, <1>3 DEF Maps, MapsDistinct, MapsNotPrevs
<1> QED BY <1>1, <1>2, <1>3, Zenon DEF FreeUnheld

\* Neither the past nor the present changes when rename does nothing.
LEMMA MapsStill ==
    ASSUME UNCHANGED <<map, history>>, NEW t, NEW a, NEW n, NEW p
    PROVE  Maps(t, a, n, p)' <=> Maps(t, a, n, p)
BY Zenon DEF Maps, Kept

\* What renaming an instruction with registers reg does, without the entries of the
\* zero register.
Renames(t, S, D, reg) ==
    /\ \A a \in D \ {ZeroReg} : reg[a] \in free
    /\ ZeroReg \in D => reg[ZeroReg] = map[t][ZeroReg]
    /\ \A a, b \in D : reg[a] = reg[b] => a = b
    /\ \A u \in Threads, a \in ArchRegs :
          map'[u][a] = IF u = t /\ a \in D THEN reg[a] ELSE map[u][a]
    /\ ready' = ready \ {reg[a] : a \in D \ {ZeroReg}}
    /\ insts' = [insts EXCEPT ![t] = @ \cup
          {[seq |-> nextSeq, srcs |-> [a \in S |-> map[t][a]], dests |-> reg, wb |-> FALSE]}]
    /\ \A u \in Threads : \A e : e \in Kept(u)' <=>
          \/ e \in Kept(u)
          \/ u = t /\ \E a \in D \ {ZeroReg} :
                e = [seq |-> nextSeq, arch |-> a, new |-> reg[a], prev |-> map[t][a]]
LEMMA RenameFacts ==
    ASSUME TypeOK, IInv, NEW t \in Threads, NEW S \in SUBSET Renamed,
           NEW D \in SUBSET ArchRegs, RenameInst(t, S, D)
    PROVE  \E reg \in [D -> PhysRegs] : Renames(t, S, D, reg)
<1>1. PICK reg \in [D -> PhysRegs] : RenameInst(t, S, D)!3!(reg)
  BY Zenon DEF RenameInst
<1> DEFINE E(a) == [seq |-> nextSeq, arch |-> a, new |-> reg[a], prev |-> map[t][a]]
<1>2. \A a : E(a).new = reg[a] /\ E(a).prev = map[t][a]
  BY Zenon
<1>3. history' = [history EXCEPT ![t] = @ \cup {E(a) : a \in D}]
  BY <1>1
<1> HIDE DEF E
<1>4. map \in [Threads -> [ArchRegs -> PhysRegs]] /\ history \in [Threads -> SUBSET Entries]
  BY Zenon DEF TypeOK
<1>5. \A u \in Threads, a \in ArchRegs : map[u][a] \notin free
  BY <1>4, PartitionedParts DEF IInv, FreeUnheld, Held
<1>6. /\ \A a \in D \ {ZeroReg} : reg[a] \in free
      /\ ZeroReg \in D => reg[ZeroReg] = map[t][ZeroReg]
      /\ \A a, b \in D : reg[a] = reg[b] => a = b
  BY <1>1 DEF Allocates
<1>7. \A a \in D : E(a).new = E(a).prev <=> a = ZeroReg
  BY <1>2, <1>5, <1>6
<1>8. \A u \in Threads : \A e : e \in Kept(u)' <=>
         e \in Kept(u) \/ (u = t /\ \E a \in D \ {ZeroReg} : e = E(a))
  <2>1. /\ \A e : e \in history'[t] <=> e \in history[t] \/ \E a \in D : e = E(a)
        /\ \A u \in Threads \ {t} : history'[u] = history[u]
    BY <1>3, <1>4, Zenon
  <2> QED BY <2>1, <1>7, Zenon DEF Kept
<1>9. \A u \in Threads, a \in ArchRegs :
         map'[u][a] = IF u = t /\ a \in D THEN reg[a] ELSE map[u][a]
  BY <1>1, <1>4, Zenon
<1>10. /\ ready' = ready \ {reg[a] : a \in D \ {ZeroReg}}
       /\ insts' = [insts EXCEPT ![t] = @ \cup
             {[seq |-> nextSeq, srcs |-> [a \in S |-> map[t][a]], dests |-> reg, wb |-> FALSE]}]
  BY <1>1, Zenon
<1> QED BY <1>6, <1>8, <1>9, <1>10, Zenon DEF E, Renames

\* Renaming an instruction adds a map and leaves the maps of the past alone.
LEMMA RenameFlight ==
    ASSUME TypeOK, IInv, FlightInv, NEW t \in Threads, NEW S \in SUBSET Renamed,
           NEW D \in SUBSET ArchRegs, RenameInst(t, S, D)
    PROVE  FlightInv'
<1>r. PICK reg \in [D -> PhysRegs] : Renames(t, S, D, reg)
  BY RenameFacts, Zenon
<1>1. /\ \A a \in D \ {ZeroReg} : reg[a] \in free
      /\ ZeroReg \in D => reg[ZeroReg] = map[t][ZeroReg]
      /\ \A a, b \in D : reg[a] = reg[b] => a = b
      /\ \A u \in Threads, a \in ArchRegs :
            map'[u][a] = IF u = t /\ a \in D THEN reg[a] ELSE map[u][a]
      /\ ready' = ready \ {reg[a] : a \in D \ {ZeroReg}}
  BY <1>r, Zenon DEF Renames
<1> DEFINE E(a) == [seq |-> nextSeq, arch |-> a, new |-> reg[a], prev |-> map[t][a]]
           k == [seq |-> nextSeq, srcs |-> [a \in S |-> map[t][a]], dests |-> reg, wb |-> FALSE]
<1>2. /\ \A a : E(a).seq = nextSeq /\ E(a).arch = a /\ E(a).prev = map[t][a]
      /\ k.seq = nextSeq /\ k.wb = FALSE /\ k.dests = reg /\ DOMAIN k.dests = D
      /\ DOMAIN k.srcs = S /\ \A a \in S : k.srcs[a] = map[t][a]
  BY <1>1, Zenon
<1>3. \A u \in Threads : \A e : e \in Kept(u)' <=>
         e \in Kept(u) \/ (u = t /\ \E a \in D \ {ZeroReg} : e = E(a))
  BY <1>r, Zenon DEF Renames
<1>4. insts' = [insts EXCEPT ![t] = @ \cup {k}]
  BY <1>r, Zenon DEF Renames
<1> HIDE DEF E, k
<1>5. \A u \in Threads : \A i : i \in insts'[u] <=> i \in insts[u] \/ (u = t /\ i = k)
  BY <1>4, Zenon DEF TypeOK
<1>6. /\ nextSeq' = nextSeq + 1 /\ done' = done /\ msg' = msg /\ commitMap' = commitMap
      /\ phase = "rename" /\ phase' = phase /\ todo' = todo \ {t} /\ ~msg[t].squash
  BY Zenon DEF RenameInst
<1>7. /\ nextSeq \in Nat
      /\ \A u \in Threads :
          /\ done[u] \in Nat /\ msg[u].done \in Nat
          /\ \A e \in Kept(u) : e.seq \in Nat /\ e.seq < nextSeq /\ e.arch \in ArchRegs
          /\ \A i \in insts[u] :
              /\ i.seq \in Nat /\ DOMAIN i.srcs \subseteq ArchRegs /\ DOMAIN i.dests \subseteq ArchRegs
              /\ \A a \in DOMAIN i.srcs : i.srcs[a] \in PhysRegs
              /\ \A a \in DOMAIN i.dests : i.dests[a] \in PhysRegs
  BY FlightTypes, Zenon
<1>8. SeqInv /\ MsgInv /\ WritersInv /\ CommitMapInv /\ OperandsInv /\ DestsInv /\ ScoreboardRight
  BY DEF FlightInv
<1>9. ASSUME NEW u \in Threads, NEW a \in ArchRegs, NEW n \in Int, n < nextSeq, NEW p, Maps(u, a, n, p)
      PROVE  Maps(u, a, n, p)'
  <2>1. CASE u # t \/ a \notin D \ {ZeroReg}
    <3>1. map'[u][a] = map[u][a]
      BY <1>1, <2>1, Zenon
    <3>2. \A e : e.arch = a => (e \in Kept(u)' <=> e \in Kept(u))
      BY <1>2, <1>3, <2>1
    <3> QED BY <1>9, <3>1, <3>2, Zenon DEF Maps
  <2>2. CASE u = t /\ a \in D \ {ZeroReg}
    <3>1. E(a) \in Kept(t)' /\ \A e : e.arch = a => (e \in Kept(t)' <=> e \in Kept(t) \/ e = E(a))
      BY <1>2, <1>3, <2>2
    <3>2. ASSUME map[t][a] = p, \A e \in Kept(t) : e.arch = a => e.seq <= n PROVE Maps(t, a, n, p)'
      <4>1. \A f \in Kept(t)' : f.arch = a => f.seq <= n \/ E(a).seq <= f.seq
        BY <1>2, <1>7, <3>1, <3>2
      <4> QED BY <1>2, <1>7, <1>9, <3>1, <3>2, <4>1, Zenon DEF Maps
    <3>3. ASSUME NEW e \in Kept(t), e.arch = a, e.seq > n, e.prev = p,
                 \A f \in Kept(t) : f.arch = a => f.seq <= n \/ e.seq <= f.seq
          PROVE  Maps(t, a, n, p)'
      <4>1. e \in Kept(t)' /\ \A f \in Kept(t)' : f.arch = a => f.seq <= n \/ e.seq <= f.seq
        BY <1>2, <1>7, <3>1, <3>3
      <4> QED BY <3>3, <4>1, Zenon DEF Maps
    <3> QED BY <1>9, <2>2, <3>2, <3>3, Zenon DEF Maps
  <2> QED BY <2>1, <2>2, Zenon
<1>12. SeqInv'
  BY <1>2, <1>5, <1>6, <1>7, <1>8 DEF SeqInv
<1>13. MsgInv'
  <2> SUFFICES ASSUME NEW u \in Threads
               PROVE  IF msg[u].squash
                      THEN /\ done[u] <= msg[u].done /\ phase # "iew"
                           /\ \A i \in insts'[u] : i.seq <= msg[u].done
                           /\ u \notin todo \ {t} => \A e \in Kept(u)' : e.seq <= msg[u].done
                      ELSE msg[u].done <= done[u]
    BY <1>6, Zenon DEF MsgInv
  <2>1. CASE u = t
    BY <1>6, <1>8, <2>1, Zenon DEF MsgInv
  <2>2. CASE u # t
    BY <1>3, <1>5, <1>6, <1>8, <2>2, Zenon DEF MsgInv
  <2> QED BY <2>1, <2>2, Zenon
<1>14. WritersInv'
  <2> SUFFICES ASSUME NEW u \in Threads, NEW e \in Kept(u)',
                      done[u] < e.seq /\ (msg[u].squash => e.seq <= msg[u].done)
               PROVE  \E i \in insts'[u] : i.seq = e.seq /\ e.arch \in DOMAIN i.dests
    BY <1>6, Zenon DEF WritersInv
  <2>1. CASE e \in Kept(u)
    BY <1>5, <1>8, <2>1, Zenon DEF WritersInv
  <2>2. ASSUME u = t, NEW a \in D, e = E(a) PROVE k \in insts'[u] /\ k.seq = e.seq /\ e.arch \in DOMAIN k.dests
    BY <1>2, <1>5, <2>2, Zenon
  <2> QED BY <1>3, <2>1, <2>2, Zenon
<1>15. CommitMapInv'
  <2> SUFFICES ASSUME NEW u \in Threads, NEW a \in ArchRegs PROVE Maps(u, a, done[u], commitMap[u][a])'
    BY Zenon DEF CommitMapInv
  <2>1. Maps(u, a, done[u], commitMap[u][a]) /\ done[u] < nextSeq /\ done[u] \in Int
    BY <1>7, <1>8 DEF CommitMapInv, SeqInv
  <2> QED BY <1>6, <1>9, <2>1, Zenon
<1>16. OperandsInv'
  <2> SUFFICES ASSUME NEW u \in Threads, NEW i \in insts'[u]
               PROVE  /\ \A a \in DOMAIN i.srcs : Maps(u, a, i.seq - 1, i.srcs[a])'
                      /\ \A a \in DOMAIN i.dests : Maps(u, a, i.seq, i.dests[a])'
    BY Zenon DEF OperandsInv
  <2>1. CASE i \in insts[u]
    <3>1. i.seq \in Int /\ i.seq < nextSeq /\ i.seq - 1 \in Int /\ i.seq - 1 < nextSeq
      BY <1>7, <1>8, <2>1 DEF SeqInv
    <3> QED BY <1>7, <1>8, <1>9, <2>1, <3>1, Zenon DEF OperandsInv
  <2>2. CASE u = t /\ i = k
    <3>1. i.seq = nextSeq /\ DOMAIN i.dests = D /\ i.dests = reg
          /\ DOMAIN i.srcs = S /\ \A a \in S : i.srcs[a] = map[t][a]
      BY <1>2, <2>2, Zenon
    <3>2. ASSUME NEW a \in S PROVE Maps(t, a, i.seq - 1, i.srcs[a])'
      <4>1. Maps(t, a, i.seq - 1, i.srcs[a])
        BY <1>7, <3>1 DEF Maps
      <4> QED BY <1>7, <1>9, <3>1, <4>1 DEF Renamed
    <3>3. ASSUME NEW a \in D PROVE Maps(t, a, i.seq, i.dests[a])'
      <4>1. map'[t][a] = i.dests[a]
        BY <1>1, <3>1, Zenon
      <4>2. \A e \in Kept(t)' : e.seq <= i.seq
        BY <1>2, <1>3, <1>7, <3>1
      <4> QED BY <4>1, <4>2, Zenon DEF Maps
    <3> QED BY <2>2, <3>1, <3>2, <3>3, Zenon
  <2> QED BY <1>5, <2>1, <2>2, Zenon
<1>17. ASSUME NEW u \in Threads, NEW i \in insts[u], NEW a \in DOMAIN i.dests
       PROVE  i.dests[a] \notin free /\ (a # ZeroReg => (ZeroReg \in D => i.dests[a] # reg[ZeroReg]))
  <2>1. a \in ArchRegs /\ i.dests[a] \in PhysRegs /\ Maps(u, a, i.seq, i.dests[a])
    BY <1>7, <1>8, Zenon DEF OperandsInv
  <2> QED BY <1>1, <2>1, MapsNotFree
<1>18. DestsInv'
  <2> SUFFICES ASSUME NEW u \in Threads, NEW v \in Threads, NEW i \in insts'[u], NEW j \in insts'[v],
                      NEW a \in DOMAIN i.dests \ {ZeroReg}, NEW b \in DOMAIN j.dests, i.dests[a] = j.dests[b]
               PROVE  u = v /\ i.seq = j.seq /\ a = b
    BY Zenon DEF DestsInv
  <2>1. CASE i \in insts[u] /\ j \in insts[v]
    BY <1>8, <2>1 DEF DestsInv
  <2>2. CASE i \in insts[u] /\ v = t /\ j = k
    BY <1>1, <1>2, <1>17, <2>2
  <2>3. CASE u = t /\ i = k /\ j \in insts[v]
    BY <1>1, <1>2, <1>17, <2>3
  <2>4. CASE u = t /\ i = k /\ v = t /\ j = k
    BY <1>1, <1>2, <2>4, Zenon
  <2> QED BY <1>5, <2>1, <2>2, <2>3, <2>4, Zenon
<1>19. ScoreboardRight'
  <2> SUFFICES ASSUME NEW u \in Threads, NEW i \in insts'[u], NEW a \in DOMAIN i.dests \ {ZeroReg}
               PROVE  i.dests[a] \in ready' <=> i.wb
    BY Zenon DEF ScoreboardRight
  <2>1. CASE i \in insts[u]
    <3>1. i.dests[a] \in ready <=> i.wb
      BY <1>8, <2>1, Zenon DEF ScoreboardRight
    <3>2. i.dests[a] \notin {reg[b] : b \in D \ {ZeroReg}}
      BY <1>1, <1>17, <2>1
    <3> QED BY <1>1, <3>1, <3>2, Zenon
  <2>2. CASE u = t /\ i = k
    BY <1>1, <1>2, <2>2, Zenon
  <2> QED BY <1>5, <2>1, <2>2, Zenon
<1> QED BY <1>12, <1>13, <1>14, <1>15, <1>16, <1>18, <1>19, Zenon DEF FlightInv

\* doSquash() restores the map after the instruction it squashes to: the maps up to
\* that instruction stay as they were.
LEMMA SquashFlight ==
    ASSUME TypeOK, IInv, FlightInv, NEW t \in Threads, DoSquash(t)
    PROVE  FlightInv'
<1> DEFINE num == msg[t].done
           U(a) == Undone(t, num, a)
<1>1. SeqInv /\ MsgInv /\ WritersInv /\ CommitMapInv /\ OperandsInv /\ DestsInv /\ ScoreboardRight
  BY DEF FlightInv
<1>2. /\ nextSeq \in Nat
      /\ \A u \in Threads :
          /\ done[u] \in Nat /\ msg[u].done \in Nat
          /\ \A e \in Kept(u) : e.seq \in Nat /\ e.arch \in ArchRegs
          /\ \A i \in insts[u] :
              i.seq \in Nat /\ DOMAIN i.srcs \subseteq ArchRegs /\ DOMAIN i.dests \subseteq ArchRegs
  BY FlightTypes, Zenon
<1>3. /\ phase' = phase /\ commitMap' = commitMap /\ ready' = ready /\ insts' = insts
      /\ done' = done /\ msg' = msg /\ nextSeq' = nextSeq
      /\ todo' = todo \ {t} /\ msg[t].squash /\ phase = "rename"
  BY Zenon DEF DoSquash
<1>4. /\ map \in [Threads -> [ArchRegs -> PhysRegs]] /\ history \in [Threads -> SUBSET Entries]
      /\ map' = [map EXCEPT ![t] = [a \in ArchRegs |-> IF U(a) = {} THEN @[a]
                                                      ELSE Oldest(U(a)).prev]]
      /\ history' = [history EXCEPT ![t] = {e \in @ : e.seq <= num}]
  BY Zenon DEF DoSquash, TypeOK
<1>5. \A a : U(a) \in SUBSET Entries /\ \A e : e \in U(a) <=> e \in Kept(t) /\ e.seq > num /\ e.arch = a
  BY <1>4, Zenon DEF Undone, Kept
<1>6. num \in Nat
  BY <1>2, Zenon
<1> HIDE DEF num, U
<1>7. /\ \A e : e \in Kept(t)' <=> e \in Kept(t) /\ e.seq <= num
      /\ \A u \in Threads \ {t} : Kept(u)' = Kept(u) /\ map'[u] = map[u]
      /\ \A a \in ArchRegs : U(a) = {} => map'[t][a] = map[t][a]
      /\ \A a \in ArchRegs : U(a) # {} => map'[t][a] = Oldest(U(a)).prev
  BY <1>4, Zenon DEF Kept
<1>8. \A a \in ArchRegs : U(a) # {} =>
         \E m \in U(a) : map'[t][a] = m.prev /\ \A e \in U(a) : m.seq <= e.seq
  <2> SUFFICES ASSUME NEW a \in ArchRegs, U(a) # {}
               PROVE  \E m \in U(a) : map'[t][a] = m.prev /\ \A e \in U(a) : m.seq <= e.seq
    BY Zenon
  <2>1. Oldest(U(a)) \in U(a) /\ \A e \in U(a) : Oldest(U(a)).seq <= e.seq
    BY <1>5, OldestProperty, Zenon
  <2> QED BY <2>1, <1>7, Zenon
<1>9. ASSUME NEW u \in Threads, NEW a \in ArchRegs, NEW n \in Int, u = t => n <= num, NEW p, Maps(u, a, n, p)
      PROVE  Maps(u, a, n, p)'
  <2>1. CASE u # t
    BY <1>7, <1>9, <2>1, Zenon DEF Maps
  <2>2. CASE u = t /\ map[t][a] = p /\ \A e \in Kept(t) : e.arch = a => e.seq <= n
    <3>1. U(a) = {}
      BY <1>2, <1>5, <1>6, <1>9, <2>2
    <3> QED BY <1>7, <2>2, <3>1, Zenon DEF Maps
  <2>3. ASSUME u = t, NEW e \in Kept(t), e.arch = a, e.seq > n, e.prev = p,
               \A f \in Kept(t) : f.arch = a => f.seq <= n \/ e.seq <= f.seq
        PROVE  Maps(t, a, n, p)'
    <3>1. CASE e.seq <= num
      <4>1. e \in Kept(t)' /\ \A f \in Kept(t)' : f.arch = a => f.seq <= n \/ e.seq <= f.seq
        BY <1>7, <2>3, <3>1, Zenon
      <4> QED BY <2>3, <4>1, Zenon DEF Maps
    <3>2. CASE e.seq > num
      <4>1. e \in U(a)
        BY <1>5, <2>3, <3>2, Zenon
      <4>2. PICK m \in U(a) : map'[t][a] = m.prev /\ \A f \in U(a) : m.seq <= f.seq
        BY <1>8, <4>1, Zenon
      <4>3. m \in Kept(t) /\ m.arch = a /\ m.seq > num /\ m.seq \in Nat
        BY <1>2, <1>5, Zenon
      <4>4. m.seq <= e.seq /\ e.seq <= m.seq
        BY <1>6, <1>9, <2>3, <4>1, <4>2, <4>3
      <4>5. m = e
        BY <2>3, <4>3, <4>4, <1>2, FlightTypes
      <4>6. \A f \in Kept(t)' : f.arch = a => f.seq <= n
        BY <1>2, <1>6, <1>7, <2>3, <3>2
      <4> QED BY <2>3, <4>2, <4>5, <4>6, Zenon DEF Maps
    <3> QED BY <1>2, <1>6, <3>1, <3>2
  <2> QED BY <1>9, <2>1, <2>2, <2>3, Zenon DEF Maps
<1>10. done[t] <= num /\ \A i \in insts[t] : i.seq <= num
  BY <1>1, <1>3, Zenon DEF MsgInv, num
<1>11. SeqInv' /\ DestsInv' /\ ScoreboardRight'
  <2>1. SeqInv'
    BY <1>1, <1>3, Zenon DEF SeqInv
  <2>2. DestsInv'
    BY <1>1, <1>3 DEF DestsInv
  <2>3. ScoreboardRight'
    BY <1>1, <1>3 DEF ScoreboardRight
  <2> QED BY <2>1, <2>2, <2>3, Zenon
<1>12. MsgInv'
  <2> SUFFICES ASSUME NEW u \in Threads
               PROVE  IF msg[u].squash
                      THEN /\ done[u] <= msg[u].done /\ phase # "iew"
                           /\ \A i \in insts[u] : i.seq <= msg[u].done
                           /\ u \notin todo \ {t} => \A e \in Kept(u)' : e.seq <= msg[u].done
                      ELSE msg[u].done <= done[u]
    BY <1>3, Zenon DEF MsgInv
  <2> QED BY <1>1, <1>3, <1>7, Zenon DEF MsgInv, num
<1>13. WritersInv'
  BY <1>1, <1>3, <1>7 DEF WritersInv
<1>14. CommitMapInv'
  <2> SUFFICES ASSUME NEW u \in Threads, NEW a \in ArchRegs PROVE Maps(u, a, done[u], commitMap[u][a])'
    BY Zenon DEF CommitMapInv
  <2>1. Maps(u, a, done[u], commitMap[u][a]) /\ done[u] \in Int
    BY <1>1, <1>2 DEF CommitMapInv
  <2> QED BY <1>3, <1>9, <1>10, <2>1, Zenon
<1>15. OperandsInv'
  <2> SUFFICES ASSUME NEW u \in Threads, NEW i \in insts[u]
               PROVE  /\ \A a \in DOMAIN i.srcs : Maps(u, a, i.seq - 1, i.srcs[a])'
                      /\ \A a \in DOMAIN i.dests : Maps(u, a, i.seq, i.dests[a])'
    BY <1>3, Zenon DEF OperandsInv
  <2>1. i.seq \in Int /\ i.seq - 1 \in Int /\ (u = t => i.seq <= num /\ i.seq - 1 <= num)
    BY <1>2, <1>6, <1>10
  <2> QED BY <1>1, <1>2, <1>9, <2>1, Zenon DEF OperandsInv
<1> QED BY <1>11, <1>12, <1>13, <1>14, <1>15, Zenon DEF FlightInv

\* removeFromHistory() forgets maps that no instruction in flight depends on.
LEMMA EndRenameFlight ==
    ASSUME TypeOK, IInv, FlightInv, EndRename
    PROVE  FlightInv'
<1>1. SeqInv /\ MsgInv /\ WritersInv /\ CommitMapInv /\ OperandsInv /\ DestsInv /\ ScoreboardRight
  BY DEF FlightInv
<1>2. /\ nextSeq \in Nat
      /\ \A u \in Threads :
          /\ done[u] \in Nat /\ msg[u].done \in Nat
          /\ \A e \in Kept(u) : e.seq \in Nat /\ e.arch \in ArchRegs
          /\ \A i \in insts[u] :
              i.seq \in Nat /\ DOMAIN i.srcs \subseteq ArchRegs /\ DOMAIN i.dests \subseteq ArchRegs
  BY FlightTypes, Zenon
<1>3. /\ map' = map /\ commitMap' = commitMap /\ ready' = ready /\ insts' = insts /\ done' = done
      /\ nextSeq' = nextSeq /\ phase = "rename" /\ todo = {}
      /\ \A u \in Threads : msg'[u].done = 0 /\ msg'[u].squash = FALSE
  BY Zenon DEF EndRename, NoMsg
<1>4. \A u \in Threads : \A e \in Kept(u) : e.seq > done[u] => e \notin Committed(u)
  <2> SUFFICES ASSUME NEW u \in Threads, NEW e \in Kept(u), e.seq > done[u], e \in Committed(u)
               PROVE  FALSE
    BY Zenon
  <2>1. ~msg[u].squash /\ e.seq <= msg[u].done
    BY Zenon DEF Committed
  <2>2. msg[u].done <= done[u]
    BY <1>1, <2>1, Zenon DEF MsgInv
  <2> QED BY <1>2, <2>1, <2>2
<1>5. \A u \in Threads : \A e : e \in Kept(u)' <=> e \in Kept(u) /\ e \notin Committed(u)
  BY Zenon DEF EndRename, Kept
<1>6. ASSUME NEW u \in Threads, NEW a \in ArchRegs, NEW n \in Int, n >= done[u], NEW p, Maps(u, a, n, p)
      PROVE  Maps(u, a, n, p)'
  <2>1. CASE map[u][a] = p /\ \A e \in Kept(u) : e.arch = a => e.seq <= n
    BY <1>3, <1>5, <2>1, Zenon DEF Maps
  <2>2. ASSUME NEW e \in Kept(u), e.arch = a, e.seq > n, e.prev = p,
               \A f \in Kept(u) : f.arch = a => f.seq <= n \/ e.seq <= f.seq
        PROVE  Maps(u, a, n, p)'
    <3>1. e.seq > done[u]
      BY <1>2, <1>6, <2>2
    <3> QED BY <1>4, <1>5, <2>2, <3>1, Zenon DEF Maps
  <2> QED BY <1>6, <2>1, <2>2, Zenon DEF Maps
<1>7. SeqInv' /\ DestsInv' /\ ScoreboardRight'
  BY <1>1, <1>3 DEF SeqInv, DestsInv, ScoreboardRight
<1>8. MsgInv'
  BY <1>2, <1>3 DEF MsgInv
<1>9. WritersInv'
  <2> SUFFICES ASSUME NEW u \in Threads, NEW e \in Kept(u), done[u] < e.seq
               PROVE  \E i \in insts[u] : i.seq = e.seq /\ e.arch \in DOMAIN i.dests
    BY <1>3, <1>5, Zenon DEF WritersInv
  <2>1. msg[u].squash => e.seq <= msg[u].done
    BY <1>1, <1>3, Zenon DEF MsgInv
  <2> QED BY <1>1, <2>1, Zenon DEF WritersInv
<1>10. CommitMapInv'
  <2> SUFFICES ASSUME NEW u \in Threads, NEW a \in ArchRegs PROVE Maps(u, a, done[u], commitMap[u][a])'
    BY Zenon DEF CommitMapInv
  <2>1. Maps(u, a, done[u], commitMap[u][a]) /\ done[u] \in Int /\ done[u] >= done[u]
    BY <1>1, <1>2 DEF CommitMapInv
  <2> QED BY <1>3, <1>6, <2>1, Zenon
<1>11. OperandsInv'
  <2> SUFFICES ASSUME NEW u \in Threads, NEW i \in insts[u]
               PROVE  /\ \A a \in DOMAIN i.srcs : Maps(u, a, i.seq - 1, i.srcs[a])'
                      /\ \A a \in DOMAIN i.dests : Maps(u, a, i.seq, i.dests[a])'
    BY <1>3, Zenon DEF OperandsInv
  <2>1. i.seq \in Int /\ i.seq - 1 \in Int /\ i.seq >= done[u] /\ i.seq - 1 >= done[u]
    BY <1>1, <1>2 DEF SeqInv
  <2> QED BY <1>1, <1>2, <1>6, <2>1, Zenon DEF OperandsInv
<1> QED BY <1>7, <1>8, <1>9, <1>10, <1>11, Zenon DEF FlightInv

\* Committing the head moves the map of commit to the map after the head: no other
\* instruction between it and the one committed before writes a register.
LEMMA CommitHeadFlight ==
    ASSUME TypeOK, IInv, FlightInv, NEW t \in Threads, CommitHead(t)
    PROVE  FlightInv'
<1>1. SeqInv /\ MsgInv /\ WritersInv /\ CommitMapInv /\ OperandsInv /\ DestsInv /\ ScoreboardRight
  BY DEF FlightInv
<1>2. /\ nextSeq \in Nat
      /\ \A u \in Threads :
          /\ done[u] \in Nat /\ msg[u].done \in Nat
          /\ \A e \in Kept(u) : e.seq \in Nat /\ e.arch \in ArchRegs
          /\ \A i \in insts[u] :
              i.seq \in Nat /\ DOMAIN i.srcs \subseteq ArchRegs /\ DOMAIN i.dests \subseteq ArchRegs
  BY FlightTypes
<1>3. PICK k \in insts[t] :
          /\ \A j \in insts[t] : k.seq <= j.seq
          /\ commitMap' = [commitMap EXCEPT ![t] = WithDests(t, k)]
          /\ insts' = [insts EXCEPT ![t] = @ \ {k}]
          /\ done' = [done EXCEPT ![t] = k.seq]
          /\ msg' = [msg EXCEPT ![t] = [done |-> k.seq, squash |-> FALSE]]
  BY Zenon DEF CommitHead
<1>4. /\ phase' = phase /\ todo' = todo /\ map' = map /\ history' = history /\ ready' = ready
      /\ nextSeq' = nextSeq /\ phase = "commit" /\ ~msg[t].squash
  BY Zenon DEF CommitHead
<1>5. /\ \A u \in Threads : \A i : i \in insts'[u] <=> i \in insts[u] /\ ~(u = t /\ i = k)
      /\ done'[t] = k.seq /\ msg'[t].done = k.seq /\ ~msg'[t].squash
      /\ \A a \in ArchRegs : commitMap'[t][a] = IF a \in DOMAIN k.dests THEN k.dests[a] ELSE commitMap[t][a]
      /\ \A u \in Threads \ {t} : done'[u] = done[u] /\ msg'[u] = msg[u] /\ commitMap'[u] = commitMap[u]
  BY <1>3, Zenon DEF TypeOK, WithDests
<1>6. \A u : Kept(u)' = Kept(u)
  BY <1>4, Zenon DEF Kept
<1>7. \A u, a, n, p : Maps(u, a, n, p)' <=> Maps(u, a, n, p)
  BY <1>4, MapsStill, Zenon
<1>8. SeqInv'
  <2> SUFFICES ASSUME NEW u \in Threads
               PROVE  /\ done'[u] < nextSeq
                      /\ \A i \in insts'[u] :
                          /\ done'[u] < i.seq /\ i.seq < nextSeq
                          /\ \A j \in insts'[u] : i.seq = j.seq => i = j
    BY <1>4, Zenon DEF SeqInv
  <2>1. CASE u = t
    <3>1. \A i \in insts[t] : i # k => k.seq < i.seq
      BY <1>1, <1>2, <1>3 DEF SeqInv
    <3> QED BY <1>1, <1>5, <2>1, <3>1, Zenon DEF SeqInv
  <2>2. CASE u # t
    BY <1>1, <1>5, <2>2, Zenon DEF SeqInv
  <2> QED BY <2>1, <2>2, Zenon
<1>9. MsgInv'
  <2> SUFFICES ASSUME NEW u \in Threads
               PROVE  IF msg'[u].squash
                      THEN /\ done'[u] <= msg'[u].done /\ phase # "iew"
                           /\ \A i \in insts'[u] : i.seq <= msg'[u].done
                           /\ phase = "rename" /\ u \notin todo => \A e \in Kept(u) : e.seq <= msg'[u].done
                      ELSE msg'[u].done <= done'[u]
    BY <1>4, <1>6, Zenon DEF MsgInv
  <2>1. CASE u = t
    <3>1. k.seq <= k.seq
      BY <1>2
    <3> QED BY <1>5, <2>1, <3>1, Zenon
  <2>2. CASE u # t
    BY <1>1, <1>5, <2>2, Zenon DEF MsgInv
  <2> QED BY <2>1, <2>2, Zenon
<1>10. \A e \in Kept(t) : done[t] < e.seq /\ e.seq <= k.seq => e.arch \in DOMAIN k.dests
  <2> SUFFICES ASSUME NEW e \in Kept(t), done[t] < e.seq, e.seq <= k.seq PROVE e.arch \in DOMAIN k.dests
    BY Zenon
  <2>1. PICK i \in insts[t] : i.seq = e.seq /\ e.arch \in DOMAIN i.dests
    BY <1>1, <1>4, Zenon DEF WritersInv
  <2>2. i = k
    BY <1>1, <1>2, <1>3, <2>1 DEF SeqInv
  <2> QED BY <2>1, <2>2, Zenon
<1>11. WritersInv'
  <2> SUFFICES ASSUME NEW u \in Threads, NEW e \in Kept(u), done'[u] < e.seq,
                      msg'[u].squash => e.seq <= msg'[u].done
               PROVE  \E i \in insts'[u] : i.seq = e.seq /\ e.arch \in DOMAIN i.dests
    BY <1>6, Zenon DEF WritersInv
  <2>1. CASE u = t
    <3>1. done[t] < k.seq
      BY <1>1, Zenon DEF SeqInv
    <3>2. done[t] < e.seq /\ k.seq < e.seq
      BY <1>2, <1>5, <2>1, <3>1
    <3>3. PICK i \in insts[t] : i.seq = e.seq /\ e.arch \in DOMAIN i.dests
      BY <1>1, <1>4, <2>1, <3>2, Zenon DEF WritersInv
    <3> QED BY <1>2, <1>5, <2>1, <3>2, <3>3
  <2>2. CASE u # t
    BY <1>1, <1>5, <2>2, Zenon DEF WritersInv
  <2> QED BY <2>1, <2>2, Zenon
<1>12. CommitMapInv'
  <2> SUFFICES ASSUME NEW u \in Threads, NEW a \in ArchRegs PROVE Maps(u, a, done[u], commitMap[u][a])'
    BY Zenon DEF CommitMapInv
  <2>1. Maps(u, a, done[u], commitMap[u][a])
    BY <1>1, Zenon DEF CommitMapInv
  <2>2. CASE u # t
    BY <1>5, <1>7, <2>1, <2>2, Zenon
  <2>3. CASE u = t /\ a \in DOMAIN k.dests
    <3>1. Maps(t, a, k.seq, k.dests[a])
      BY <1>1, <2>3, Zenon DEF OperandsInv
    <3> QED BY <1>5, <1>7, <2>3, <3>1, Zenon
  <2>4. CASE u = t /\ a \notin DOMAIN k.dests
    <3>1. done[t] < k.seq
      BY <1>1, Zenon DEF SeqInv
    <3>2. Maps(t, a, k.seq, commitMap[t][a])
      <4>1. CASE map[t][a] = commitMap[t][a] /\ \A e \in Kept(t) : e.arch = a => e.seq <= done[t]
        BY <1>2, <3>1, <4>1 DEF Maps
      <4>2. ASSUME NEW e \in Kept(t), e.arch = a, e.seq > done[t], e.prev = commitMap[t][a],
                   \A f \in Kept(t) : f.arch = a => f.seq <= done[t] \/ e.seq <= f.seq
            PROVE  Maps(t, a, k.seq, commitMap[t][a])
        <5>1. e.seq > k.seq
          BY <1>2, <1>10, <2>4, <4>2
        <5>2. \A f \in Kept(t) : f.arch = a => f.seq <= k.seq \/ e.seq <= f.seq
          BY <1>2, <3>1, <4>2
        <5> QED BY <4>2, <5>1, <5>2, Zenon DEF Maps
      <4> QED BY <2>1, <2>4, <4>1, <4>2, Zenon DEF Maps
    <3> QED BY <1>5, <1>7, <2>4, <3>2, Zenon
  <2> QED BY <2>2, <2>3, <2>4, Zenon
<1>13. OperandsInv'
  BY <1>1, <1>5, <1>7, Zenon DEF OperandsInv
<1>14. DestsInv' /\ ScoreboardRight'
  BY <1>1, <1>4, <1>5 DEF DestsInv, ScoreboardRight
<1> QED BY <1>8, <1>9, <1>11, <1>12, <1>13, <1>14, Zenon DEF FlightInv

\* A squash takes away the instructions whose entries rename is told to undo.
LEMMA CommitSquashFlight ==
    ASSUME TypeOK, IInv, FlightInv, NEW t \in Threads, NEW num \in SquashTargets(t),
           CommitSquash(t, num)
    PROVE  FlightInv'
<1>1. SeqInv /\ MsgInv /\ WritersInv /\ CommitMapInv /\ OperandsInv /\ DestsInv /\ ScoreboardRight
  BY Zenon DEF FlightInv
<1>2. /\ nextSeq \in Nat
      /\ \A u \in Threads :
          /\ done[u] \in Nat /\ msg[u].done \in Nat
          /\ \A e \in Kept(u) : e.seq \in Nat
          /\ \A i \in insts[u] : i.seq \in Nat
  BY FlightTypes, Zenon
<1>3. /\ phase' = phase /\ todo' = todo /\ map' = map /\ history' = history /\ ready' = ready
      /\ nextSeq' = nextSeq /\ done' = done /\ commitMap' = commitMap /\ phase = "commit" /\ ~msg[t].squash
  BY DEF CommitSquash, NoMsg
<1>4. /\ \A u \in Threads : \A i : i \in insts'[u] <=> i \in insts[u] /\ ~(u = t /\ i.seq > num)
      /\ msg'[t].done = num /\ msg'[t].squash
      /\ \A u \in Threads \ {t} : msg'[u] = msg[u]
  BY Zenon DEF CommitSquash, TypeOK
<1>5. num \in Nat /\ done[t] <= num
  BY <1>1, <1>2 DEF SeqInv, SquashTargets
<1>6. \A u : Kept(u)' = Kept(u)
  BY <1>3, Zenon DEF Kept
<1>7. \A u, a, n, p : Maps(u, a, n, p)' <=> Maps(u, a, n, p)
  BY <1>3, MapsStill, Zenon
<1>8. SeqInv' /\ OperandsInv' /\ DestsInv' /\ ScoreboardRight'
  <2>1. SeqInv'
    BY <1>1, <1>3, <1>4, Zenon DEF SeqInv
  <2>2. OperandsInv'
    BY <1>1, <1>4, <1>7, Zenon DEF OperandsInv
  <2>3. DestsInv'
    BY <1>1, <1>4 DEF DestsInv
  <2>4. ScoreboardRight'
    BY <1>1, <1>3, <1>4, Zenon DEF ScoreboardRight
  <2> QED BY <2>1, <2>2, <2>3, <2>4, Zenon
<1>9. MsgInv'
  <2> SUFFICES ASSUME NEW u \in Threads
               PROVE  IF msg'[u].squash
                      THEN /\ done[u] <= msg'[u].done /\ phase # "iew"
                           /\ \A i \in insts'[u] : i.seq <= msg'[u].done
                      ELSE msg'[u].done <= done[u]
    BY <1>3, Zenon DEF MsgInv
  <2>1. CASE u = t
    <3>1. \A i \in insts'[t] : i.seq \in Nat /\ ~(i.seq > num)
      BY <1>2, <1>4, Zenon
    <3> QED BY <3>1, NotGreater, <1>3, <1>4, <1>5, <2>1, Zenon
  <2>2. CASE u # t
    BY <1>1, <1>3, <1>4, <2>2 DEF MsgInv
  <2> QED BY <2>1, <2>2, Zenon
<1>10. WritersInv'
  <2> SUFFICES ASSUME NEW u \in Threads, NEW e \in Kept(u), done[u] < e.seq,
                      msg'[u].squash => e.seq <= msg'[u].done
               PROVE  \E i \in insts'[u] : i.seq = e.seq /\ e.arch \in DOMAIN i.dests
    BY <1>3, <1>6, Zenon DEF WritersInv
  <2>2. u = t => ~(e.seq > num)
    BY <1>2, <1>4, <1>5, NotGreater, Zenon
  <2>3. PICK i \in insts[u] : i.seq = e.seq /\ e.arch \in DOMAIN i.dests
    BY <1>1, <1>3, <1>4, Zenon DEF WritersInv
  <2> QED BY <1>4, <2>2, <2>3, Zenon
<1>11. CommitMapInv'
  <2> SUFFICES ASSUME NEW u \in Threads, NEW a \in ArchRegs PROVE Maps(u, a, done[u], commitMap[u][a])'
    BY Zenon DEF CommitMapInv
  <2>1. Maps(u, a, done[u], commitMap[u][a])
    BY <1>1, Zenon DEF CommitMapInv
  <2> QED BY <1>3, <1>7, <2>1, Zenon
<1> QED BY <1>8, <1>9, <1>10, <1>11, Zenon DEF FlightInv

\* Writeback makes ready the destinations of one instruction and no others.
LEMMA WritebackFlight ==
    ASSUME TypeOK, IInv, FlightInv, NEW t \in Threads, NEW k \in insts[t], Writeback(t, k)
    PROVE  FlightInv'
<1>1. SeqInv /\ MsgInv /\ WritersInv /\ CommitMapInv /\ OperandsInv /\ DestsInv /\ ScoreboardRight
  BY Zenon DEF FlightInv
<1> DEFINE w == [seq |-> k.seq, srcs |-> k.srcs, dests |-> k.dests, wb |-> TRUE]
<1>2. w.seq = k.seq /\ w.srcs = k.srcs /\ w.dests = k.dests /\ w.wb = TRUE
  BY Zenon
<1>3. insts' = [insts EXCEPT ![t] = (@ \ {k}) \cup {w}]
  BY Zenon DEF Writeback
<1> HIDE DEF w
<1>4. /\ phase' = phase /\ todo' = todo /\ map' = map /\ history' = history /\ msg' = msg
      /\ nextSeq' = nextSeq /\ done' = done /\ commitMap' = commitMap
      /\ ready' = ready \cup Regs(k.dests) /\ phase = "iew"
  BY Zenon DEF Writeback, SetReady
<1>5. \A u \in Threads : \A i : i \in insts'[u] <=>
         (i \in insts[u] /\ ~(u = t /\ i = k)) \/ (u = t /\ i = w)
  BY <1>3, Zenon DEF TypeOK
<1>6. \A u : Kept(u)' = Kept(u)
  BY <1>4, Zenon DEF Kept
<1>7. \A u, a, n, p : Maps(u, a, n, p)' <=> Maps(u, a, n, p)
  BY <1>4, MapsStill, Zenon
<1>8. SeqInv' /\ MsgInv'
  <2>1. SeqInv'
    <3> SUFFICES ASSUME NEW u \in Threads
                 PROVE  /\ done[u] < nextSeq
                        /\ \A i \in insts'[u] :
                            /\ done[u] < i.seq /\ i.seq < nextSeq
                            /\ \A j \in insts'[u] : i.seq = j.seq => i = j
      BY <1>4, Zenon DEF SeqInv
    <3>1. /\ done[u] < nextSeq
          /\ \A i \in insts[u] : /\ done[u] < i.seq /\ i.seq < nextSeq
                               /\ \A j \in insts[u] : i.seq = j.seq => i = j
      BY <1>1, Zenon DEF SeqInv
    <3> QED BY <1>2, <1>5, <3>1
  <2>2. MsgInv'
    BY <1>1, <1>2, <1>4, <1>5, <1>6 DEF MsgInv
  <2> QED BY <2>1, <2>2, Zenon
<1>9. WritersInv'
  <2> SUFFICES ASSUME NEW u \in Threads, NEW e \in Kept(u), done[u] < e.seq,
                      msg[u].squash => e.seq <= msg[u].done
               PROVE  \E i \in insts'[u] : i.seq = e.seq /\ e.arch \in DOMAIN i.dests
    BY <1>4, <1>6, Zenon DEF WritersInv
  <2>1. PICK i \in insts[u] : i.seq = e.seq /\ e.arch \in DOMAIN i.dests
    BY <1>1, Zenon DEF WritersInv
  <2> QED BY <1>2, <1>5, <2>1, Zenon
<1>10. CommitMapInv'
  <2> SUFFICES ASSUME NEW u \in Threads, NEW a \in ArchRegs PROVE Maps(u, a, done[u], commitMap[u][a])'
    BY Zenon DEF CommitMapInv
  <2>1. Maps(u, a, done[u], commitMap[u][a])
    BY <1>1, Zenon DEF CommitMapInv
  <2> QED BY <1>4, <1>7, <2>1, Zenon
<1>11. OperandsInv'
  <2> SUFFICES ASSUME NEW u \in Threads, NEW i \in insts'[u]
               PROVE  /\ \A a \in DOMAIN i.srcs : Maps(u, a, i.seq - 1, i.srcs[a])'
                      /\ \A a \in DOMAIN i.dests : Maps(u, a, i.seq, i.dests[a])'
    BY Zenon DEF OperandsInv
  <2>1. PICK j \in insts[u] : i.seq = j.seq /\ i.srcs = j.srcs /\ i.dests = j.dests
    BY <1>2, <1>5, Zenon
  <2> QED BY <1>1, <1>7, <2>1, Zenon DEF OperandsInv
<1>12. DestsInv'
  <2> SUFFICES ASSUME NEW u \in Threads, NEW v \in Threads, NEW i \in insts'[u], NEW j \in insts'[v],
                      NEW a \in DOMAIN i.dests \ {ZeroReg}, NEW b \in DOMAIN j.dests, i.dests[a] = j.dests[b]
               PROVE  u = v /\ i.seq = j.seq /\ a = b
    BY Zenon DEF DestsInv
  <2>1. PICK x \in insts[u] : i.seq = x.seq /\ i.dests = x.dests
    BY <1>2, <1>5, Zenon
  <2>2. PICK y \in insts[v] : j.seq = y.seq /\ j.dests = y.dests
    BY <1>2, <1>5, Zenon
  <2> QED BY <1>1, <2>1, <2>2 DEF DestsInv
<1>13. ScoreboardRight'
  <2> SUFFICES ASSUME NEW u \in Threads, NEW i \in insts'[u], NEW a \in DOMAIN i.dests \ {ZeroReg}
               PROVE  i.dests[a] \in ready' <=> i.wb
    BY Zenon DEF ScoreboardRight
  <2>1. CASE u = t /\ i = w
    BY <1>2, <1>4, <2>1, Zenon DEF Regs
  <2>2. CASE i \in insts[u] /\ ~(u = t /\ i = k)
    <3>1. i.dests[a] \in ready <=> i.wb
      BY <1>1, <2>2, Zenon DEF ScoreboardRight
    <3>2. \A b \in DOMAIN k.dests : i.dests[a] # k.dests[b]
      BY <1>1, <2>2 DEF DestsInv, SeqInv
    <3> QED BY <1>4, <3>1, <3>2, Zenon DEF Regs
  <2> QED BY <1>5, <2>1, <2>2
<1> QED BY <1>8, <1>9, <1>10, <1>11, <1>12, <1>13, Zenon DEF FlightInv

\* The other steps: a thread that has nothing to rename, a squashed instruction that
\* reaches writeback, and the ends of the stages.
LEMMA OtherFlight ==
    ASSUME TypeOK, IInv, FlightInv,
           UNCHANGED <<map, history, insts, done, msg, nextSeq, commitMap, ready>>,
           \/ UNCHANGED <<phase, todo>>
           \/ \E t \in todo : phase' = phase /\ todo' = todo \ {t} /\ ~msg[t].squash
           \/ phase = "iew" /\ phase' = "commit" /\ todo' = todo
           \/ phase = "commit" /\ phase' = "rename" /\ todo' = Threads
    PROVE  FlightInv'
<1>1. SeqInv /\ MsgInv /\ WritersInv /\ CommitMapInv /\ OperandsInv /\ DestsInv /\ ScoreboardRight
  BY Zenon DEF FlightInv
<1>2. \A u : Kept(u)' = Kept(u)
  BY Zenon DEF Kept
<1>3. \A u, a, n, p : Maps(u, a, n, p)' <=> Maps(u, a, n, p)
  BY MapsStill, Zenon
<1>4. MsgInv'
  BY <1>1, <1>2, Zenon DEF MsgInv
<1>5. SeqInv' /\ WritersInv' /\ DestsInv' /\ ScoreboardRight'
  BY <1>1, <1>2 DEF SeqInv, WritersInv, DestsInv, ScoreboardRight
<1>6. CommitMapInv' /\ OperandsInv'
  BY <1>1, <1>3, Zenon DEF CommitMapInv, OperandsInv
<1> QED BY <1>4, <1>5, <1>6, Zenon DEF FlightInv

\* Nothing is in flight at first.
LEMMA InitFlight == Init => FlightInv
<1> SUFFICES ASSUME Init PROVE FlightInv
  OBVIOUS
<1>1. \A t \in Threads : /\ Kept(t) = {} /\ insts[t] = {} /\ done[t] = 0
                         /\ msg[t].done = 0 /\ msg[t].squash = FALSE
  BY Zenon DEF Init, Kept, NoMsg
<1>2. nextSeq = 1 /\ map = commitMap
  BY Zenon DEF Init
<1>3. SeqInv /\ MsgInv /\ WritersInv /\ OperandsInv /\ DestsInv /\ ScoreboardRight
  <2>1. SeqInv /\ MsgInv
    BY <1>1, <1>2 DEF SeqInv, MsgInv
  <2>2. WritersInv /\ OperandsInv /\ DestsInv /\ ScoreboardRight
    BY <1>1, Zenon DEF WritersInv, OperandsInv, DestsInv, ScoreboardRight
  <2> QED BY <2>1, <2>2, Zenon
<1>4. CommitMapInv
  BY <1>1, <1>2, Zenon DEF CommitMapInv, Maps
<1> QED BY <1>3, <1>4 DEF FlightInv

\* Every step of rename, writeback and commit keeps FlightInv.
LEMMA NextFlight == TypeOK /\ IInv /\ FlightInv /\ [Next]_vars => FlightInv'
<1> SUFFICES ASSUME TypeOK, IInv, FlightInv, [Next]_vars PROVE FlightInv'
  BY Zenon
<1>1. ASSUME NEW t \in Threads, NEW S \in SUBSET Renamed, NEW D \in SUBSET ArchRegs,
             RenameInst(t, S, D)
      PROVE  FlightInv'
  BY <1>1, RenameFlight, Zenon
<1>2. ASSUME NEW t \in Threads, DoSquash(t) PROVE FlightInv'
  BY <1>2, SquashFlight, Zenon
<1>3. CASE EndRename
  BY <1>3, EndRenameFlight
<1>4. ASSUME NEW t \in Threads, RenameNothing(t) PROVE FlightInv'
  BY <1>4, OtherFlight, Zenon DEF RenameNothing
<1>5. ASSUME NEW t \in Threads, CommitHead(t) PROVE FlightInv'
  BY <1>5, CommitHeadFlight
<1>6. ASSUME NEW t \in Threads, NEW i \in insts[t], Writeback(t, i) PROVE FlightInv'
  BY <1>6, WritebackFlight, Zenon
<1>7. ASSUME NEW t \in Threads, NEW num \in SquashTargets(t), CommitSquash(t, num) PROVE FlightInv'
  BY <1>7, CommitSquashFlight, Zenon
<1>8. ASSUME NEW p \in late, WritebackSquashed(p) PROVE FlightInv'
  BY <1>8, OtherFlight, Zenon DEF WritebackSquashed, SetReady
<1>9. CASE EndIEW \/ EndCommit
  BY <1>9, OtherFlight, Zenon DEF EndIEW, EndCommit
<1>10. CASE UNCHANGED vars
  BY <1>10, OtherFlight, Zenon DEF vars
<1> QED BY <1>1, <1>2, <1>3, <1>4, <1>5, <1>6, <1>7, <1>8, <1>9, <1>10, Zenon DEF Next

\* The invariant about the instructions in flight holds in every state.
LEMMA Flight == Spec => []FlightInv
BY InitFlight, NextFlight, TypeCorrect, Invariance, PTL DEF Spec

\* The rename map follows program order: between squashes, an operand is renamed to
\* the register of its youngest producer in flight, or to the committed one.
THEOREM MapFollowsOrder == Spec => []MapMatchesInsts
<1>1. TypeOK /\ IInv /\ FlightInv => MapMatchesInsts
  <2> SUFFICES ASSUME TypeOK, IInv, FlightInv, NEW t \in Threads, ~msg[t].squash, NEW a \in ArchRegs
               PROVE  map[t][a] = Expected(t, a)
    BY Zenon DEF MapMatchesInsts
  <2> DEFINE W == {i \in insts[t] : a \in DOMAIN i.dests}
  <2>1. /\ done[t] \in Nat /\ \A i \in insts[t] : i.seq \in Nat /\ done[t] < i.seq
        /\ \A e \in Kept(t) : e.seq \in Nat
    BY FlightTypes, Zenon DEF FlightInv, SeqInv
  <2>2. \A e \in Kept(t) : e.arch = a /\ done[t] < e.seq => \E i \in W : i.seq = e.seq
    BY DEF FlightInv, WritersInv
  <2>3. CASE W = {}
    <3>1. Expected(t, a) = commitMap[t][a]
      BY <2>3, Zenon DEF Expected
    <3>2. Maps(t, a, done[t], commitMap[t][a])
      BY Zenon DEF FlightInv, CommitMapInv
    <3> QED BY <2>1, <2>2, <2>3, <3>1, <3>2, Zenon DEF Maps
  <2>4. CASE W # {}
    <3> DEFINE Q == {i.seq : i \in W}
    <3>1. Q \in SUBSET (0..MaxSeq) /\ Q # {} /\ MaxSeq \in Nat
      <4>1. \A i \in W : i.seq \in 0..MaxSeq
        BY RegsAssumption DEF TypeOK, InstType
      <4> QED BY <2>4, <4>1, RegsAssumption
    <3>2. Max(Q) \in Q /\ \A q \in Q : q <= Max(Q)
      <4> HIDE DEF Q
      <4> QED BY <3>1, MaxProperty, Zenon
    <3>3. \E i \in W : \A j \in W : j.seq <= i.seq
      BY <3>2, Zenon
    <3> DEFINE y == CHOOSE i \in W : \A j \in W : j.seq <= i.seq
    <3>4. y \in W /\ \A j \in W : j.seq <= y.seq
      <4> HIDE DEF W
      <4> QED BY <3>3, Zenon
    <3>5. Expected(t, a) = y.dests[a]
      BY <2>4, Zenon DEF Expected
    <3> HIDE DEF y
    <3>6. Maps(t, a, y.seq, y.dests[a])
      BY <3>4, Zenon DEF FlightInv, OperandsInv
    <3>7. \A e \in Kept(t) : e.arch = a => e.seq <= y.seq
      <4> SUFFICES ASSUME NEW e \in Kept(t), e.arch = a, e.seq > y.seq PROVE FALSE
        BY <2>1, <3>4
      <4>1. done[t] < e.seq
        BY <2>1, <3>4
      <4>2. PICK i \in W : i.seq = e.seq
        BY <2>2, <4>1, Zenon
      <4>3. i.seq <= y.seq /\ y.seq \in Nat
        BY <2>1, <3>4, Zenon
      <4> QED BY <2>1, <4>2, <4>3
    <3>8. y.seq \in Nat
      BY <2>1, <3>4, Zenon
    <3> QED BY <2>1, <3>5, <3>6, <3>7, <3>8 DEF Maps
  <2> QED BY <2>3, <2>4
<1> QED BY <1>1, TypeCorrect, Invariance, Flight, PTL

\* No register is freed while it holds committed state or an instruction in flight
\* reads or writes it, though rename learns of a commit one cycle late.
THEOREM UsedNotFree == Spec => []NoUseAfterFree
<1>1. TypeOK /\ IInv /\ FlightInv => NoUseAfterFree
  <2> SUFFICES ASSUME TypeOK, IInv, FlightInv, NEW t \in Threads
               PROVE  /\ \A a \in ArchRegs : commitMap[t][a] \notin free
                      /\ \A i \in insts[t] : (Regs(i.srcs) \cup Regs(i.dests)) \cap free = {}
    BY DEF NoUseAfterFree
  <2>1. ASSUME NEW a \in ArchRegs PROVE commitMap[t][a] \notin free
    <3>1. Maps(t, a, done[t], commitMap[t][a])
      BY DEF FlightInv, CommitMapInv
    <3>2. commitMap[t][a] \in PhysRegs
      BY DEF TypeOK
    <3> QED BY <3>1, <3>2, MapsNotFree
  <2>2. ASSUME NEW i \in insts[t] PROVE (Regs(i.srcs) \cup Regs(i.dests)) \cap free = {}
    <3>1. /\ DOMAIN i.srcs \subseteq ArchRegs /\ DOMAIN i.dests \subseteq ArchRegs
          /\ \A a \in DOMAIN i.srcs : i.srcs[a] \in PhysRegs
          /\ \A a \in DOMAIN i.dests : i.dests[a] \in PhysRegs
      BY FlightTypes
    <3>2. ASSUME NEW a \in DOMAIN i.srcs PROVE i.srcs[a] \notin free
      <4>1. Maps(t, a, i.seq - 1, i.srcs[a]) /\ a \in ArchRegs /\ i.srcs[a] \in PhysRegs
        BY <3>1 DEF FlightInv, OperandsInv
      <4> QED BY <4>1, MapsNotFree
    <3>3. ASSUME NEW a \in DOMAIN i.dests PROVE i.dests[a] \notin free
      <4>1. Maps(t, a, i.seq, i.dests[a]) /\ a \in ArchRegs /\ i.dests[a] \in PhysRegs
        BY <3>1 DEF FlightInv, OperandsInv
      <4> QED BY <4>1, MapsNotFree
    <3> QED BY <3>2, <3>3 DEF Regs
  <2> QED BY <2>1, <2>2
<1> QED BY <1>1, TypeCorrect, Invariance, Flight, PTL

\* The scoreboard says of every destination in flight whether its producer was
\* written back, also when a register was given to a new owner after a squash.
THEOREM ScoreboardCorrect == Spec => []ScoreboardRight
<1>1. FlightInv => ScoreboardRight
  BY DEF FlightInv
<1> QED BY <1>1, Flight, PTL
=============================================================================
