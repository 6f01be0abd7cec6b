----------------------- MODULE WritebackPorts_proofs -----------------------
(***************************************************************************)
(* Proofs about the writeback ports, for every width, number of rows, set  *)
(* of instructions and assignment of threads: no search of instToCommit()  *)
(* loses or duplicates an instruction, it always ends at a free slot, and  *)
(* no row has a gap.                                                       *)
(***************************************************************************)
EXTENDS WritebackPorts, OldestYoungest, FiniteSetTheorems, TLAPS

\* The instructions in the slots f.
Held(f) == {f[q] : q \in Slots} \ {0}
\* No instruction is in two slots.
OneSlot(f) == \A q, r \in Slots : f[q] = f[r] /\ f[q] # 0 => q = r
WasSent == {i \in Insts : sent[i] = 1}
\* The occupied slots from b on.
Taken(b) == {p \in Slots : p >= b /\ slots[p] # 0}

\* What the variables hold.
PortsTypes ==
    /\ slots \in [Slots -> Insts \cup {0}]
    /\ wbCycle \in Nat /\ wbNumInst \in 0..(Width - 1)
    /\ finished \subseteq Insts /\ sent \in [Insts -> {0, 1}]

\* An instruction that finished is in one slot or was sent.
OnceInv ==
    /\ OneSlot(slots)
    /\ Held(slots) \cap WasSent = {} /\ Held(slots) \cup WasSent = finished

\* No row has an empty slot before an occupied one, and the slots of row wbCycle
\* which the search skips are occupied.
GapInv ==
    /\ \A p, q \in Slots : p < q /\ p \div Width = q \div Width /\ slots[q] # 0 => slots[p] # 0
    /\ \A p \in Slots : p \div Width = wbCycle /\ p < Begin => slots[p] # 0
    /\ woken = sent

\* The search begins no later than the number of instructions that finished allows:
\* there is a free slot behind its beginning.
RoomInv == Begin + Cardinality(Taken(Begin)) <= Cardinality(finished)

PortsInv == PortsTypes /\ OnceInv /\ GapInv /\ RoomInv

-----------------------------------------------------------------------------
(***************************************************************************)
(* Rows and columns.                                                       *)
(***************************************************************************)

\* Slot p is column p % Width of row p \div Width.
LEMMA DivMod ==
    ASSUME NEW p \in Nat
    PROVE  /\ p \div Width \in Nat /\ p % Width \in 0..(Width - 1)
           /\ p - Width * (p \div Width) = p % Width
<1>1. Width \in Nat /\ Width > 0
  BY PortsAssumption
<1>2. p \div Width \in Nat /\ p % Width \in 0..(Width - 1)
  BY <1>1
<1>3. p - Width * (p \div Width) = p % Width
  BY <1>1
<1> QED BY <1>1, <1>2, <1>3, Zenon

\* A later row begins after the end of an earlier one.
LEMMA RowsApart ==
    ASSUME NEW a \in Nat, NEW b \in Nat, a < b
    PROVE  a * Width + Width <= b * Width
  BY PortsAssumption

\* Row and column determine a slot.
LEMMA RowUnique ==
    ASSUME NEW p \in Nat, NEW r \in Nat, NEW k \in 0..(Width - 1), p = r * Width + k
    PROVE  p \div Width = r /\ p % Width = k
<1> DEFINE q == p \div Width
           l == p % Width
<1>0. q \in Nat /\ l \in 0..(Width - 1) /\ p - Width * q = l
  BY PortsAssumption, DivMod, Zenon
<1> HIDE DEF q, l
<1>1. q \in Nat /\ l \in 0..(Width - 1) /\ q * Width + l = p
  BY <1>0, PortsAssumption
<1>2. ~(q < r)
  <2> SUFFICES ASSUME q < r PROVE FALSE
    OBVIOUS
  <2>1. q * Width + Width <= r * Width
    BY <1>1, RowsApart
  <2> QED BY <1>1, <2>1, PortsAssumption
<1>3. ~(r < q)
  <2> SUFFICES ASSUME r < q PROVE FALSE
    OBVIOUS
  <2>1. r * Width + Width <= q * Width
    BY <1>1, RowsApart
  <2> QED BY <1>1, <2>1, PortsAssumption
<1>4. q = r /\ l = k
  <2>1. q = r
    BY <1>1, <1>2, <1>3
  <2>2. q * Width \in Int
    BY <1>1, PortsAssumption
  <2> QED BY <1>1, <2>1, <2>2, PortsAssumption
<1> QED BY <1>4 DEF q, l

\* The slots are numbered from 0.
LEMMA SlotsFacts ==
    /\ Slots \subseteq Nat /\ Width * Rows \in Nat /\ Width \in Nat \ {0} /\ IsFiniteSet(Slots)
    /\ \A p \in Nat : p \in Slots <=> p < Width * Rows
<1>1. Width * Rows \in Nat /\ Width \in Nat \ {0}
  BY PortsAssumption
<1>2. Slots \subseteq Nat /\ \A p \in Nat : p \in Slots <=> p < Width * Rows
  BY <1>1 DEF Slots
<1>3. IsFiniteSet(Slots)
  BY <1>1, FS_Interval DEF Slots
<1> QED BY <1>1, <1>2, <1>3

-----------------------------------------------------------------------------
(***************************************************************************)
(* The search.                                                             *)
(***************************************************************************)

\* h[p] is the state of the search for i when it comes to slot p, from a to b.
IsSearch(h, i, a, b) ==
    /\ h = [p \in a..b |-> h[p]]
    /\ h[a] = Search(i)
    /\ \A p \in (a + 1)..b : h[p] = Step(h[p - 1], p - 1)

\* The search is defined for every number of slots.
LEMMA SearchDefined ==
    ASSUME NEW i, NEW a \in Nat, NEW n \in Nat
    PROVE  \E h : IsSearch(h, i, a, a + n)
<1> DEFINE Bad == {m \in Nat : ~ \E h : IsSearch(h, i, a, a + m)}
<1> SUFFICES ASSUME Bad # {}
             PROVE  FALSE
  BY Zenon
<1>1. PICK m \in Bad : \A k \in Bad : m <= k
  <2>1. Bad \in SUBSET Nat
    OBVIOUS
  <2> HIDE DEF Bad
  <2> QED BY <2>1, MinProperty, Zenon
<1>2. CASE m = 0
  <2> DEFINE h == [p \in a..a |-> Search(i)]
  <2>1. IsSearch(h, i, a, a)
    BY DEF IsSearch
  <2>2. a + 0 = a
    OBVIOUS
  <2> QED BY <1>1, <1>2, <2>1, <2>2
<1>3. CASE m # 0
  <2>1. m - 1 \in Nat /\ m - 1 \notin Bad
    BY <1>1, <1>3
  <2>2. PICK h : IsSearch(h, i, a, a + (m - 1))
    BY <2>1
  <2> DEFINE g == [p \in a..(a + m) |-> IF p = a + m THEN Step(h[p - 1], p - 1) ELSE h[p]]
  <2>3. g = [p \in a..(a + m) |-> g[p]]
    OBVIOUS
  <2>4. g[a] = Search(i)
    BY <1>3, <2>2 DEF IsSearch
  <2>5. ASSUME NEW p \in (a + 1)..(a + m)
        PROVE  g[p] = Step(g[p - 1], p - 1)
    <3>1. p - 1 \in a..(a + m) /\ p - 1 # a + m /\ p \in a..(a + m)
      BY <2>1
    <3>2. g[p - 1] = h[p - 1]
      BY <3>1
    <3>3. CASE p = a + m
      BY <3>1, <3>2, <3>3
    <3>4. CASE p # a + m
      <4>1. p \in (a + 1)..(a + (m - 1))
        BY <2>1, <3>4
      <4>2. h[p] = Step(h[p - 1], p - 1)
        BY <2>2, <4>1, Zenon DEF IsSearch
      <4>3. g[p] = h[p]
        BY <3>1, <3>4
      <4> QED BY <3>2, <4>2, <4>3, Zenon
    <3> QED BY <3>3, <3>4, Zenon
  <2> HIDE DEF g
  <2>6. IsSearch(g, i, a, a + m)
    BY <2>3, <2>4, <2>5, Zenon DEF IsSearch
  <2> QED BY <1>1, <2>6
<1> QED BY <1>2, <1>3

\* SearchEnd is the last state of a search.
LEMMA SearchEndDef ==
    ASSUME NEW i, Begin \in Nat, FreeSlot \in Nat, Begin <= FreeSlot
    PROVE  \E h : IsSearch(h, i, Begin, FreeSlot) /\ SearchEnd(i) = h[FreeSlot]
<1> DEFINE IsAt(h) == h = [p \in Begin..FreeSlot |->
                              IF p = Begin THEN Search(i) ELSE Step(h[p - 1], p - 1)]
<1>1. \E h : IsAt(h)
  <2>1. FreeSlot - Begin \in Nat /\ Begin + (FreeSlot - Begin) = FreeSlot
    OBVIOUS
  <2>2. PICK h : IsSearch(h, i, Begin, FreeSlot)
    BY <2>1, SearchDefined, Zenon
  <2>3. \A p \in Begin..FreeSlot :
           h[p] = IF p = Begin THEN Search(i) ELSE Step(h[p - 1], p - 1)
    <3>1. \A p \in Begin..FreeSlot : p # Begin => p \in (Begin + 1)..FreeSlot
      OBVIOUS
    <3>2. h[Begin] = Search(i) /\ \A p \in (Begin + 1)..FreeSlot : h[p] = Step(h[p - 1], p - 1)
      BY <2>2, Zenon DEF IsSearch
    <3> QED BY <3>1, <3>2
  <2>4. h = [p \in Begin..FreeSlot |-> h[p]]
    BY <2>2 DEF IsSearch
  <2>5. IsAt(h)
    BY <2>3, <2>4, Zenon
  <2> QED BY <2>5
<1> DEFINE at == CHOOSE h : IsAt(h)
<1>2. IsAt(at)
  <2> HIDE DEF IsAt
  <2> QED BY <1>1
<1>3. SearchEnd(i) = at[FreeSlot]
  BY DEF SearchEnd
<1> HIDE DEF at
<1>4. IsSearch(at, i, Begin, FreeSlot)
  <2>1. \A p \in Begin..FreeSlot :
           at[p] = IF p = Begin THEN Search(i) ELSE Step(at[p - 1], p - 1)
    BY <1>2
  <2>2. at = [p \in Begin..FreeSlot |-> at[p]]
    BY <1>2, <2>1
  <2>3. \A p \in (Begin + 1)..FreeSlot : at[p] = Step(at[p - 1], p - 1)
    BY <2>1
  <2>4. at[Begin] = Search(i)
    <3>1. Begin \in Begin..FreeSlot
      OBVIOUS
    <3> QED BY <2>1, <3>1
  <2> QED BY <2>2, <2>3, <2>4, Zenon DEF IsSearch
<1> QED BY <1>3, <1>4

-----------------------------------------------------------------------------
States == [slots: [Slots -> Insts \cup {0}], inst: Insts, idx: -1..(Width - 1), contention: BOOLEAN]

\* State s of the search for i at slot p: what the slots and the instruction to insert
\* hold together has not changed, nor which slots are occupied; the index of a
\* contender comes from a slot that was visited.
Holds(s, i) ==
    /\ s \in States
    /\ \A q \in Slots : s.slots[q] = 0 <=> slots[q] = 0
    /\ OneSlot(s.slots)
    /\ s.inst \notin Held(s.slots)
    /\ Held(s.slots) \cup {s.inst} = Held(slots) \cup {i}
Visits(s, p) ==
    /\ s.idx # -1 => \E q \in Begin..(p - 1) : q % Width = s.idx
    /\ s.contention => s.idx # -1 /\ p % Width = 0
Good(s, i, p) == Holds(s, i) /\ Visits(s, p)

\* The contender that is replaced at slot p is in a slot that was visited.
LEMMA ContenderVisited ==
    ASSUME Begin \in Nat, NEW p \in Nat, NEW idx \in 0..(Width - 1), p % Width = 0,
           NEW q \in Begin..(p - 1), q % Width = idx
    PROVE  (p \div Width - 1) * Width + idx \in Begin..(p - 1)
<1> DEFINE r == p \div Width
           a == q \div Width
<1>0. Width \in Nat \ {0} /\ q \in Nat
  BY PortsAssumption
<1>1. r \in Nat /\ p - Width * r = 0
  BY <1>0, DivMod
<1>2. a \in Nat /\ q - Width * a = idx
  BY <1>0, DivMod
<1> HIDE DEF r, a
<1>3. a < r
  <2> SUFFICES ASSUME ~(a < r) PROVE FALSE
    OBVIOUS
  <2>1. r * Width <= a * Width
    <3>1. r <= a
      BY <1>1, <1>2
    <3> QED BY <1>0, <1>1, <1>2, <3>1
  <2> QED BY <1>0, <1>1, <1>2, <2>1
<1>4. a * Width + Width <= r * Width
  BY <1>1, <1>2, <1>3, RowsApart
<1>5. (r - 1) * Width = r * Width - Width
  BY <1>0, <1>1
<1>6. (r - 1) * Width + idx \in Begin..(p - 1)
  BY <1>0, <1>1, <1>2, <1>4, <1>5
<1> QED BY <1>6 DEF r

\* The swap exchanges the instruction to insert and an occupied slot.
LEMMA SwapHolds ==
    ASSUME NEW s \in States, NEW c \in Slots, NEW i, slots[c] # 0, Holds(s, i)
    PROVE  Holds([s EXCEPT !.slots[c] = s.inst, !.inst = s.slots[c], !.contention = FALSE], i)
<1> DEFINE t == [s EXCEPT !.slots[c] = s.inst, !.inst = s.slots[c], !.contention = FALSE]
<1>1. s.inst \in Insts /\ s.inst # 0 /\ s.slots[c] \in Insts /\ s.slots[c] # 0
  BY PortsAssumption DEF Holds, States
<1>2. t.slots = [s.slots EXCEPT ![c] = s.inst] /\ t.inst = s.slots[c] /\ t.idx = s.idx
      /\ t.contention = FALSE
  BY DEF States
<1>3. t \in States
  BY <1>1, Zenon DEF States
<1> HIDE DEF t
<1>4. \A q \in Slots : t.slots[q] = IF q = c THEN s.inst ELSE s.slots[q]
  BY <1>2 DEF States
<1>5. \A q \in Slots : t.slots[q] = 0 <=> slots[q] = 0
  BY <1>1, <1>4 DEF Holds
<1>6. OneSlot(t.slots)
  BY <1>1, <1>4 DEF Holds, OneSlot, Held
<1>7. t.inst \notin Held(t.slots)
  BY <1>1, <1>2, <1>4 DEF Holds, OneSlot, Held
<1>8. Held(t.slots) \cup {t.inst} = Held(s.slots) \cup {s.inst}
  BY <1>1, <1>2, <1>4 DEF Held
<1> QED BY <1>3, <1>5, <1>6, <1>7, <1>8 DEF Holds, t

\* The loop body at an occupied slot keeps the state good.
LEMMA StepGood ==
    ASSUME PortsTypes, NEW i, NEW p \in Slots, Begin \in Nat, Begin <= p,
           \A q \in Begin..p : q \in Slots /\ slots[q] # 0,
           NEW s, Good(s, i, p)
    PROVE  Good(Step(s, p), i, p + 1)
<1> DEFINE t == Swap(s, p)
           idx == IF Contends(t.slots[p], t.inst) THEN p % Width ELSE t.idx
           u == Step(s, p)
<1>0. p \in Nat /\ Width \in Nat \ {0} /\ p % Width \in 0..(Width - 1) /\ s \in States
  BY SlotsFacts, DivMod DEF Good, Holds
<1>1. Holds(t, i) /\ t.idx = s.idx /\ t.contention = FALSE
  <2>1. CASE ~s.contention
    BY <2>1, <1>0 DEF Swap, Good, States
  <2>2. CASE s.contention
    <3> DEFINE c == (p \div Width - 1) * Width + s.idx
    <3>1. c \in Begin..(p - 1)
      <4>1. PICK q \in Begin..(p - 1) : q % Width = s.idx
        BY <2>2 DEF Good, Visits
      <4>2. p % Width = 0 /\ s.idx # -1
        BY <2>2 DEF Good, Visits
      <4>3. s.idx \in 0..(Width - 1)
        BY <1>0, <4>2 DEF States
      <4> QED BY <1>0, <4>1, <4>2, <4>3, ContenderVisited, Zenon
    <3>2. c \in Slots /\ slots[c] # 0
      BY <1>0, <3>1
    <3>3. t = [s EXCEPT !.slots[c] = s.inst, !.inst = s.slots[c], !.contention = FALSE]
      BY <2>2 DEF Swap
    <3> HIDE DEF c, t
    <3>4. Holds(t, i)
      BY <1>0, <3>2, <3>3, SwapHolds, Zenon DEF Good
    <3> QED BY <1>0, <3>3, <3>4 DEF States
  <2> QED BY <2>1, <2>2, Zenon
<1>2. u = [t EXCEPT !.idx = idx,
                    !.contention = t.contention \/ ((p + 1) % Width = 0 /\ idx # -1)]
  BY DEF Step
<1> HIDE DEF t, u
<1>3. t \in States /\ idx \in -1..(Width - 1)
  BY <1>0, <1>1 DEF Holds, States
<1> HIDE DEF idx
<1>4. /\ u \in States /\ u.slots = t.slots /\ u.inst = t.inst /\ u.idx = idx
      /\ u.contention = ((p + 1) % Width = 0 /\ idx # -1)
  BY <1>1, <1>2, <1>3, Zenon DEF States
<1>5. Holds(u, i)
  BY <1>1, <1>4 DEF Holds
<1>6. idx # -1 => \E q \in Begin..p : q % Width = idx
  <2>1. CASE idx = p % Width
    BY <1>0, <2>1
  <2>2. CASE idx = s.idx
    <3> SUFFICES ASSUME idx # -1
                 PROVE  \E q \in Begin..p : q % Width = idx
      OBVIOUS
    <3>1. PICK q \in Begin..(p - 1) : q % Width = s.idx
      BY <2>2 DEF Good, Visits
    <3>2. q \in Begin..p
      BY <1>0
    <3> QED BY <2>2, <3>1, <3>2
  <2> QED BY <1>1, <2>1, <2>2, Zenon DEF idx
<1>7. (p + 1) - 1 = p
  BY <1>0
<1>8. Visits(u, p + 1)
  BY <1>4, <1>6, <1>7, Zenon DEF Visits
<1> QED BY <1>5, <1>8 DEF Good, u

\* The search for i ends with what the slots held and i, one instruction to insert.
LEMMA SearchGood ==
    ASSUME PortsTypes, OnceInv, NEW i \in Insts, i \notin finished,
           FreeSlot \in Slots, Begin \in Nat, Begin <= FreeSlot,
           \A q \in Begin..(FreeSlot - 1) : q \in Slots /\ slots[q] # 0
    PROVE  Holds(SearchEnd(i), i)
<1>0. FreeSlot \in Nat
  BY SlotsFacts
<1>1. PICK h : IsSearch(h, i, Begin, FreeSlot) /\ SearchEnd(i) = h[FreeSlot]
  BY <1>0, SearchEndDef
<1> DEFINE Bad == {n \in Nat : Begin + n <= FreeSlot /\ ~Good(h[Begin + n], i, Begin + n)}
<1>2. Bad = {}
  <2> SUFFICES ASSUME Bad # {}
               PROVE  FALSE
    OBVIOUS
  <2>1. PICK m \in Bad : \A k \in Bad : m <= k
    <3>1. Bad \in SUBSET Nat
      OBVIOUS
    <3> HIDE DEF Bad
    <3> QED BY <3>1, MinProperty, Zenon
  <2>2. CASE m = 0
    <3>1. h[Begin] = Search(i) /\ Begin + 0 = Begin
      BY <1>1 DEF IsSearch
    <3>2. Search(i) \in States
      BY PortsAssumption DEF PortsTypes, Search, States
    <3>3. i # 0 /\ i \notin Held(slots)
      BY PortsAssumption DEF OnceInv
    <3>4. Holds(Search(i), i)
      BY <3>2, <3>3 DEF Search, Holds, OnceInv
    <3>5. Visits(Search(i), Begin)
      BY DEF Search, Visits
    <3> QED BY <2>1, <2>2, <3>1, <3>4, <3>5 DEF Good
  <2>3. CASE m # 0
    <3> DEFINE p == Begin + (m - 1)
    <3>1. m - 1 \in Nat /\ p \in Nat /\ Begin <= p /\ p < FreeSlot /\ p + 1 = Begin + m
          /\ p + 1 \in (Begin + 1)..FreeSlot /\ (p + 1) - 1 = p /\ ~(m <= m - 1)
      BY <1>0, <2>1, <2>3
    <3>2. Good(h[p], i, p)
      <4>1. m - 1 \notin Bad /\ Begin + (m - 1) <= FreeSlot
        <5> HIDE DEF Bad
        <5> QED BY <1>0, <2>1, <3>1
      <4> QED BY <3>1, <4>1, Zenon
    <3>3. h[p + 1] = Step(h[p], p)
      BY <1>1, <3>1, Zenon DEF IsSearch
    <3>4. p \in Slots /\ \A q \in Begin..p : q \in Slots /\ slots[q] # 0
      BY <1>0, <3>1
    <3> HIDE DEF p
    <3>5. Good(h[p + 1], i, p + 1)
      BY <3>1, <3>2, <3>3, <3>4, StepGood
    <3> QED BY <2>1, <3>1, <3>5
  <2> QED BY <2>2, <2>3
<1>3. FreeSlot - Begin \in Nat /\ Begin + (FreeSlot - Begin) = FreeSlot
  BY <1>0
<1>4. Good(h[FreeSlot], i, FreeSlot)
  <2> DEFINE k == FreeSlot - Begin
  <2>1. k \in Nat /\ Begin + k = FreeSlot /\ Begin + k <= FreeSlot
    BY <1>0, <1>3
  <2> HIDE DEF k
  <2>2. Good(h[Begin + k], i, Begin + k)
    BY <1>2, <2>1, Zenon
  <2> QED BY <2>1, <2>2, Zenon
<1> QED BY <1>1, <1>4 DEF Good

-----------------------------------------------------------------------------
(***************************************************************************)
(* The free slot.                                                          *)
(***************************************************************************)

\* Finite sets of slots and instructions.
LEMMA Finite ==
    ASSUME PortsTypes
    PROVE  /\ IsFiniteSet(finished) /\ Cardinality(finished) \in Nat
           /\ \A b : IsFiniteSet(Taken(b)) /\ Cardinality(Taken(b)) \in Nat
           /\ Begin \in Nat
<1>1. IsFiniteSet(finished) /\ Cardinality(finished) \in Nat
  BY PortsAssumption, FS_Subset, FS_CardinalityType, Zenon DEF PortsTypes
<1>2. ASSUME NEW b
      PROVE  IsFiniteSet(Taken(b)) /\ Cardinality(Taken(b)) \in Nat
  <2>1. Taken(b) \in SUBSET Slots
    BY DEF Taken
  <2> QED BY <2>1, SlotsFacts, FS_Subset, FS_CardinalityType
<1>3. Begin \in Nat
  BY PortsAssumption DEF PortsTypes, Begin
<1> QED BY <1>1, <1>2, <1>3

\* While an instruction has still to finish, the search finds a free slot, behind
\* occupied ones, and as many as lie between are counted.
LEMMA FreeSlotFound ==
    ASSUME PortsTypes, RoomInv, NEW i \in Insts, i \notin finished
    PROVE  /\ FreeSlot \in Slots /\ Begin <= FreeSlot /\ slots[FreeSlot] = 0
           /\ \A q \in Begin..(FreeSlot - 1) : q \in Slots /\ slots[q] # 0
           /\ FreeSlot + Cardinality(Taken(FreeSlot)) = Begin + Cardinality(Taken(Begin))
<1> DEFINE F == {p \in Slots : p >= Begin /\ slots[p] = 0}
           Last == Width * Rows - 1
<1>0. Begin \in Nat /\ Width * Rows \in Nat /\ Width \in Nat \ {0} /\ Rows \in Nat \ {0}
  BY Finite, PortsAssumption
<1>1. Cardinality(finished) < Width * Rows - Width
  <2>1. finished \in SUBSET Insts /\ finished # Insts
    BY DEF PortsTypes
  <2>2. Cardinality(Insts) \in Nat /\ Cardinality(finished) <= Cardinality(Insts)
        /\ Cardinality(finished) # Cardinality(Insts)
    BY <2>1, PortsAssumption, FS_Subset, FS_CardinalityType, Zenon
  <2>3. Width * (Rows - 1) = Width * Rows - Width
    BY <1>0
  <2> QED BY <1>0, <2>2, <2>3, Finite, PortsAssumption
<1>2. ASSUME NEW f \in Nat, Begin <= f, f <= Width * Rows,
             \A q \in Begin..(f - 1) : slots[q] # 0
      PROVE  f + Cardinality(Taken(f)) = Begin + Cardinality(Taken(Begin))
  <2> DEFINE I == Begin..(f - 1)
  <2>1. Taken(Begin) = I \cup Taken(f) /\ I \cap Taken(f) = {}
    <3>1. \A q \in I : q \in Slots /\ q >= Begin /\ slots[q] # 0 /\ ~(q >= f)
      BY <1>0, <1>2, SlotsFacts
    <3>2. \A q \in Slots : q >= Begin /\ q \notin I => q >= f
      BY <1>0, <1>2, SlotsFacts
    <3>3. \A q \in Slots : q >= f => q >= Begin
      BY <1>0, <1>2, SlotsFacts
    <3> HIDE DEF I
    <3> QED BY <3>1, <3>2, <3>3 DEF Taken
  <2>2. IsFiniteSet(I) /\ Cardinality(I) = f - Begin
    BY <1>0, <1>2, FS_Interval
  <2> HIDE DEF I
  <2>3. Cardinality(I \cup Taken(f)) = Cardinality(I) + Cardinality(Taken(f)) - Cardinality(I \cap Taken(f))
    BY <2>2, Finite, FS_Union
  <2>4. Cardinality(I \cap Taken(f)) = 0
    BY <2>1, FS_EmptySet
  <2>5. Cardinality(Taken(f)) \in Nat
    BY Finite
  <2> QED BY <1>0, <2>1, <2>2, <2>3, <2>4, <2>5
<1>3. F # {}
  <2> SUFFICES ASSUME F = {}
               PROVE  FALSE
    OBVIOUS
  <2>1. Begin <= Width * Rows
    BY <1>0, <1>1, Finite DEF RoomInv
  <2>2. \A q \in Begin..(Width * Rows - 1) : slots[q] # 0
    BY <1>0, SlotsFacts
  <2>3. Width * Rows + Cardinality(Taken(Width * Rows)) = Begin + Cardinality(Taken(Begin))
    BY <1>0, <1>2, <2>1, <2>2
  <2> QED BY <1>0, <1>1, <2>3, Finite DEF RoomInv
<1>4. FreeSlot \in F /\ \A q \in F : FreeSlot <= q
  <2>1. F \in SUBSET Nat
    BY SlotsFacts, Zenon
  <2> QED BY <1>3, <2>1, MinProperty DEF FreeSlot
<1>5. FreeSlot \in Nat /\ FreeSlot < Width * Rows
  BY <1>4, SlotsFacts
<1>6. \A q \in Begin..(FreeSlot - 1) : q \in Slots /\ slots[q] # 0
  BY <1>0, <1>4, <1>5, SlotsFacts
<1>7. FreeSlot + Cardinality(Taken(FreeSlot)) = Begin + Cardinality(Taken(Begin))
  <2>1. Begin <= FreeSlot /\ FreeSlot <= Width * Rows
    BY <1>0, <1>4, <1>5
  <2> QED BY <1>2, <1>5, <1>6, <2>1
<1> QED BY <1>4, <1>6, <1>7

-----------------------------------------------------------------------------
(***************************************************************************)
(* The steps.                                                              *)
(***************************************************************************)

\* A slot is in no earlier row than the slots before it.
LEMMA RowsInOrder ==
    ASSUME NEW p \in Nat, NEW q \in Nat, p <= q
    PROVE  p \div Width <= q \div Width
<1> DEFINE a == p \div Width
           b == q \div Width
<1>0. Width \in Nat \ {0}
  BY PortsAssumption
<1>1. a \in Nat /\ p - Width * a \in 0..(Width - 1)
  BY <1>0, DivMod, Zenon
<1>2. b \in Nat /\ q - Width * b \in 0..(Width - 1)
  BY <1>0, DivMod, Zenon
<1> HIDE DEF a, b
<1>3. ~(b < a)
  <2> SUFFICES ASSUME b < a PROVE FALSE
    OBVIOUS
  <2>1. b * Width + Width <= a * Width
    BY <1>1, <1>2, RowsApart
  <2> QED BY <1>0, <1>1, <1>2, <2>1
<1>4. a <= b
  BY <1>1, <1>2, <1>3
<1> QED BY <1>4 DEF a, b

\* The slots of the row of the free slot that precede it are occupied.
LEMMA RowFilled ==
    ASSUME PortsTypes, GapInv, RoomInv, NEW i \in Insts, i \notin finished,
           NEW p \in Slots, p < FreeSlot, p \div Width = FreeSlot \div Width
    PROVE  slots[p] # 0
<1>1. /\ FreeSlot \in Nat /\ p \in Nat /\ Begin \in Nat /\ Begin <= FreeSlot
      /\ \A q \in Begin..(FreeSlot - 1) : slots[q] # 0
  BY FreeSlotFound, Finite, SlotsFacts, Zenon
<1>2. CASE p >= Begin
  <2>1. p \in Begin..(FreeSlot - 1)
    BY <1>1, <1>2
  <2> QED BY <1>1, <2>1
<1>3. CASE ~(p >= Begin)
  <2>1. Begin \div Width = wbCycle
    BY <1>1, RowUnique DEF Begin, PortsTypes
  <2>2. p \div Width <= Begin \div Width /\ Begin \div Width <= FreeSlot \div Width
    BY <1>1, <1>3, RowsInOrder
  <2>3. p \div Width \in Nat
    BY <1>1, DivMod
  <2>4. p \div Width = wbCycle /\ p < Begin
    BY <1>1, <1>3, <2>1, <2>2, <2>3 DEF PortsTypes
  <2> QED BY <2>4 DEF GapInv
<1> QED BY <1>2, <1>3

\* instToCommit() keeps the invariant.
LEMMA InstToCommitStep ==
    ASSUME PortsInv, NEW i \in Insts, InstToCommit(i)
    PROVE  PortsInv'
<1> DEFINE s == SearchEnd(i)
           f == FreeSlot
<1>0. i \notin finished /\ PortsTypes /\ OnceInv /\ GapInv /\ RoomInv
  BY DEF InstToCommit, PortsInv
<1>1. /\ f \in Slots /\ Begin <= f /\ slots[f] = 0
      /\ \A q \in Begin..(f - 1) : q \in Slots /\ slots[q] # 0
      /\ f + Cardinality(Taken(f)) = Begin + Cardinality(Taken(Begin))
      /\ f \in Nat /\ Begin \in Nat
  BY <1>0, FreeSlotFound, Finite, SlotsFacts, Zenon
<1>2. Holds(s, i)
  BY <1>0, <1>1, SearchGood
<1>3. s \in States /\ s.inst \in Insts /\ s.inst # 0
  BY <1>2, PortsAssumption DEF Holds, States
<1>4. /\ slots' = [s.slots EXCEPT ![f] = s.inst] /\ finished' = finished \cup {i}
      /\ wbCycle' = f \div Width /\ wbNumInst' = f % Width
      /\ UNCHANGED <<phase, restricted, woken, sent>>
  BY DEF InstToCommit
<1> HIDE DEF s, f
<1>5. \A q \in Slots : slots'[q] = IF q = f THEN s.inst ELSE s.slots[q]
  BY <1>3, <1>4 DEF States
<1>6. \A q \in Slots : slots'[q] # 0 <=> (slots[q] # 0 \/ q = f)
  BY <1>2, <1>3, <1>5 DEF Holds
<1>7. PortsTypes'
  <2>1. slots' \in [Slots -> Insts \cup {0}]
    BY <1>3, <1>4, Zenon DEF States
  <2>2. wbCycle' \in Nat /\ wbNumInst' \in 0..(Width - 1)
    BY <1>1, <1>4, DivMod
  <2> QED BY <1>0, <1>4, <2>1, <2>2, Zenon DEF PortsTypes
<1>8. Begin' = f
  <2> DEFINE d == f \div Width
             m == f % Width
  <2>0. Width \in Nat
    BY PortsAssumption
  <2>1. d \in Nat /\ m \in 0..(Width - 1) /\ f - Width * d = m
    BY <1>1, <2>0, DivMod
  <2>2. wbCycle' = d /\ wbNumInst' = m
    BY <1>4
  <2> HIDE DEF d, m
  <2>3. Begin' = d * Width + m
    BY <2>2 DEF Begin
  <2> QED BY <1>1, <2>0, <2>1, <2>3
<1>9. OnceInv'
  <2>1. s.slots[f] = 0
    BY <1>1, <1>2 DEF Holds
  <2>2. OneSlot(slots')
    BY <1>1, <1>2, <1>5, <2>1 DEF Holds, OneSlot, Held
  <2>3. Held(slots') = Held(slots) \cup {i}
    <3>1. Held(slots') = Held(s.slots) \cup {s.inst}
      BY <1>1, <1>3, <1>5, <2>1 DEF Held
    <3> QED BY <1>2, <3>1 DEF Holds
  <2>4. WasSent' = WasSent
    BY <1>4 DEF WasSent
  <2>5. i \notin WasSent
    BY <1>0 DEF OnceInv
  <2> QED BY <1>0, <1>4, <2>2, <2>3, <2>4, <2>5, Zenon DEF OnceInv
<1>10. GapInv'
  <2>1. ASSUME NEW p \in Slots, p < f, p \div Width = f \div Width
        PROVE  slots'[p] # 0
    BY <1>0, <1>6, <2>1, RowFilled DEF f
  <2>2. \A p, q \in Slots : p < q /\ p \div Width = q \div Width /\ slots'[q] # 0 => slots'[p] # 0
    BY <1>0, <1>6, <2>1 DEF GapInv
  <2>3. \A p \in Slots : p \div Width = wbCycle' /\ p < Begin' => slots'[p] # 0
    BY <1>4, <1>8, <2>1
  <2>4. woken' = sent'
    BY <1>0, <1>4 DEF GapInv
  <2> QED BY <2>2, <2>3, <2>4 DEF GapInv
<1>11. RoomInv'
  <2>1. Taken(Begin)' = Taken(f) \cup {f} /\ f \notin Taken(f)
    <3>1. Taken(Begin)' = {p \in Slots : p >= f /\ slots'[p] # 0}
      BY <1>8 DEF Taken
    <3>2. f >= f
      BY <1>1
    <3> QED BY <1>1, <1>6, <3>1, <3>2, Zenon DEF Taken
  <2>2. IsFiniteSet(Taken(f)) /\ Cardinality(Taken(f)) \in Nat /\ Cardinality(finished) \in Nat
        /\ IsFiniteSet(finished)
    BY <1>0, Finite
  <2>3. Cardinality(Taken(f) \cup {f}) = Cardinality(Taken(f)) + 1
    BY <2>1, <2>2, FS_AddElement, Zenon
  <2>4. Cardinality(finished') = Cardinality(finished) + 1
    BY <1>0, <1>4, <2>2, FS_AddElement, Zenon
  <2>5. Begin + Cardinality(Taken(Begin)) <= Cardinality(finished)
    BY <1>0 DEF RoomInv
  <2>6. Begin' + Cardinality(Taken(Begin)') <= Cardinality(finished')
    BY <1>1, <1>8, <2>1, <2>2, <2>3, <2>4, <2>5
  <2> QED BY <2>6 DEF RoomInv
<1> QED BY <1>7, <1>9, <1>10, <1>11 DEF PortsInv

\* The tick begins: the search begins at the first slot again.
LEMMA StartTickStep ==
    ASSUME PortsInv, StartTick
    PROVE  PortsInv'
<1>0. PortsTypes /\ OnceInv /\ GapInv /\ RoomInv
  BY DEF PortsInv
<1>1. /\ wbCycle' = 0 /\ wbNumInst' = 0
      /\ UNCHANGED <<slots, restricted, finished, woken, sent>>
  BY DEF StartTick
<1>2. Begin' = 0
  BY <1>1, PortsAssumption DEF Begin
<1>3. PortsTypes' /\ OnceInv'
  BY <1>0, <1>1, PortsAssumption DEF PortsTypes, OnceInv, OneSlot, Held, WasSent
<1>4. GapInv'
  BY <1>0, <1>1, <1>2, SlotsFacts DEF GapInv
<1>5. RoomInv'
  <2> DEFINE T == Taken(0)
             g == [p \in T |-> slots[p]]
  <2>1. Taken(Begin)' = T
    BY <1>1, <1>2 DEF Taken
  <2>2. \A p \in T : p \in Slots /\ slots[p] # 0
    BY DEF Taken
  <2>3. \A p \in T : slots[p] \in finished
    BY <1>0, <2>2 DEF OnceInv, Held
  <2>4. g \in Injection(T, finished)
    BY <1>0, <2>2, <2>3 DEF Injection, IsInjective, OnceInv, OneSlot
  <2>5. Cardinality(T) <= Cardinality(finished)
    BY <1>0, <2>4, Finite, FS_Injection
  <2>6. Cardinality(T) \in Nat /\ Cardinality(finished) \in Nat
    BY <1>0, Finite
  <2> HIDE DEF T
  <2> QED BY <1>1, <1>2, <2>1, <2>5, <2>6 DEF RoomInv
<1> QED BY <1>3, <1>4, <1>5 DEF PortsInv

\* The tick ends: the first row is sent, and the others come one row nearer.
LEMMA EndTickStep ==
    ASSUME PortsInv, EndTick
    PROVE  PortsInv'
<1>0. PortsTypes /\ OnceInv /\ GapInv /\ RoomInv /\ Width \in Nat \ {0} /\ Slots \subseteq Nat
  BY PortsAssumption, SlotsFacts DEF PortsInv
<1>1. /\ wbCycle' = wbCycle /\ wbNumInst' = 0 /\ finished' = finished
      /\ woken' = CountIn(woken, WrittenBack) /\ sent' = CountIn(sent, Sent)
      /\ slots' = [p \in Slots |-> IF p + Width \in Slots THEN slots[p + Width] ELSE 0]
  BY DEF EndTick, ResetWbNumInst
<1>2. \A p \in Slots : /\ p \in Row(0) <=> p < Width
                       /\ p \div Width = 0 <=> p < Width
                       /\ (p + Width) \div Width = p \div Width + 1
                       /\ p \div Width \in Nat /\ (p \div Width) * Width <= p
  <2> TAKE p \in Slots
  <2> DEFINE r == p \div Width
  <2>0. p \in Nat
    BY <1>0
  <2>1. r \in Nat /\ p - Width * r \in 0..(Width - 1)
    BY <1>0, <2>0, DivMod, Zenon
  <2> HIDE DEF r
  <2>2. p + Width = (r + 1) * Width + (p - Width * r)
    BY <1>0, <2>0, <2>1
  <2>3. (p + Width) \div Width = r + 1
    BY <1>0, <2>0, <2>1, <2>2, RowUnique
  <2>4. r * Width <= p
    BY <1>0, <2>0, <2>1
  <2>5. r = 0 => p < Width
    BY <1>0, <2>0, <2>1
  <2>6. p < Width => r = 0
    <3> SUFFICES ASSUME p < Width, 0 < r
                 PROVE  FALSE
      BY <2>1
    <3>1. Width <= r * Width
      BY <1>0, <2>1
    <3> QED BY <1>0, <2>0, <2>1, <2>4, <3>1
  <2> QED BY <2>1, <2>3, <2>4, <2>5, <2>6 DEF r, Row
<1>3. \A p \in Slots : p + Width \in Slots => slots'[p] = slots[p + Width]
  BY <1>1
<1>4. \A p \in Slots : p + Width \notin Slots => slots'[p] = 0
  BY <1>1
<1>5. \A q \in Slots : ~(q < Width) => q - Width \in Slots /\ (q - Width) + Width = q
  BY <1>0, SlotsFacts
<1>6. Held(slots') = {slots[q] : q \in {p \in Slots : ~(p < Width)}} \ {0}
  <2>1. \A p \in Slots : p + Width \in Slots => ~(p + Width < Width)
    BY <1>0
  <2> QED BY <1>3, <1>4, <1>5, <2>1 DEF Held
<1>7. Sent = {slots[q] : q \in {p \in Slots : p < Width}} \ {0}
  BY <1>2 DEF Sent, Row
<1>8. Sent \subseteq Insts /\ Sent \cap WasSent = {} /\ Sent \cap Held(slots') = {}
      /\ Held(slots') \cup Sent = Held(slots)
  BY <1>0, <1>6, <1>7, PortsAssumption DEF OnceInv, OneSlot, Held, PortsTypes
<1>9. \A i \in Insts : sent'[i] = sent[i] + (IF i \in Sent THEN 1 ELSE 0)
  BY <1>1 DEF CountIn
<1>10. \A i \in Insts : sent'[i] = IF i \in Sent THEN 1 ELSE sent[i]
  BY <1>0, <1>8, <1>9 DEF PortsTypes, WasSent
<1>11. PortsTypes'
  <2>1. sent' \in [Insts -> {0, 1}]
    BY <1>0, <1>1, <1>10 DEF CountIn, PortsTypes
  <2>2. slots' \in [Slots -> Insts \cup {0}]
    BY <1>0, <1>1 DEF PortsTypes
  <2> QED BY <1>0, <1>1, <2>1, <2>2 DEF PortsTypes
<1>12. OnceInv'
  <2>1. WasSent' = WasSent \cup Sent
    BY <1>0, <1>8, <1>10 DEF WasSent, PortsTypes
  <2>2. OneSlot(slots')
    <3>1. \A p, q \in Slots : p + Width = q + Width => p = q
      BY <1>0
    <3> QED BY <1>0, <1>3, <1>4, <3>1 DEF OnceInv, OneSlot
  <2> QED BY <1>0, <1>1, <1>8, <2>1, <2>2, Zenon DEF OnceInv
<1>13. GapInv'
  <2>1. ASSUME NEW p \in Slots, NEW q \in Slots, p < q, p \div Width = q \div Width, slots'[q] # 0
        PROVE  slots'[p] # 0
    <3>1. q + Width \in Slots /\ slots[q + Width] # 0
      BY <1>3, <1>4, <2>1
    <3>2. p + Width \in Slots /\ p + Width < q + Width
      BY <1>0, <2>1, <3>1, SlotsFacts
    <3>3. (p + Width) \div Width = (q + Width) \div Width
      BY <1>2, <2>1
    <3> QED BY <1>0, <1>3, <3>1, <3>2, <3>3, Zenon DEF GapInv
  <2>2. ASSUME NEW p \in Slots, p \div Width = wbCycle', p < Begin'
        PROVE  FALSE
    <3>1. Begin' = wbCycle * Width
      BY <1>0, <1>1 DEF Begin, PortsTypes
    <3> QED BY <1>0, <1>1, <1>2, <2>2, <3>1 DEF PortsTypes
  <2>3. \A i \in Insts : i \in WrittenBack <=> i \in Sent
    <3>1. ASSUME NEW i \in Insts, i \in WrittenBack
          PROVE  i \in Sent
      BY <3>1, PortsAssumption DEF WrittenBack, Sent
    <3>2. ASSUME NEW i \in Insts, i \in Sent
          PROVE  i \in WrittenBack
      <4>1. PICK p \in Row(0) : slots[p] = i /\ i # 0
        BY <3>2 DEF Sent
      <4>2. p \in Slots /\ p < Width /\ p \in Nat
        BY <1>0, <1>2, <4>1 DEF Row
      <4>3. ASSUME NEW o \in 0..p
            PROVE  slots[o] # 0
        <5>1. o \in Slots /\ o < Width /\ o <= p
          BY <1>0, <4>2, SlotsFacts
        <5>2. o \div Width = p \div Width
          BY <1>2, <4>2, <5>1, Zenon
        <5>3. o = p \/ o < p
          BY <4>2, <5>1
        <5> QED BY <1>0, <4>1, <4>2, <5>1, <5>2, <5>3, Zenon DEF GapInv
      <4> QED BY <4>1, <4>3 DEF WrittenBack
    <3> QED BY <3>1, <3>2
  <2>4. woken' = sent'
    BY <1>0, <1>1, <2>3 DEF CountIn, GapInv
  <2> QED BY <2>1, <2>2, <2>4 DEF GapInv
<1>14. RoomInv'
  <2> DEFINE b == wbCycle * Width
             U == {p \in Slots : p >= b /\ slots'[p] # 0}
             g == [p \in U |-> p + Width]
  <2>1. b \in Nat /\ Begin \in Nat /\ b <= Begin /\ Begin < b + Width
    BY <1>0 DEF Begin, PortsTypes
  <2>2. Begin' = b
    BY <1>0, <1>1 DEF Begin, PortsTypes
  <2>3. Taken(Begin)' = U
    BY <2>2 DEF Taken
  <2> HIDE DEF b
  <2>4. \A p \in U : p + Width \in Taken(Begin)
    <3> TAKE p \in U
    <3>1. p + Width \in Slots /\ slots[p + Width] # 0 /\ p \in Nat /\ p >= b
      BY <1>0, <1>3, <1>4
    <3> QED BY <1>0, <2>1, <3>1 DEF Taken
  <2>5. \A p, q \in U : p + Width = q + Width => p = q
    BY <1>0
  <2>6. g \in Injection(U, Taken(Begin))
    BY <2>4, <2>5 DEF Injection, IsInjective
  <2>7. Cardinality(U) <= Cardinality(Taken(Begin)) /\ IsFiniteSet(U)
    BY <1>0, <2>6, Finite, FS_Injection
  <2>8. Cardinality(U) \in Nat /\ Cardinality(Taken(Begin)) \in Nat /\ Cardinality(finished) \in Nat
    BY <1>0, <2>7, Finite, FS_CardinalityType
  <2> HIDE DEF U
  <2> QED BY <1>0, <1>1, <2>1, <2>2, <2>3, <2>7, <2>8 DEF RoomInv
<1> QED BY <1>11, <1>12, <1>13, <1>14 DEF PortsInv

-----------------------------------------------------------------------------
\* PortsInv holds in every reachable state.
LEMMA Invariance == Spec => []PortsInv
<1>1. Init => PortsInv
  <2> SUFFICES ASSUME Init
               PROVE  PortsInv
    OBVIOUS
  <2>0. Width \in Nat \ {0} /\ Begin = 0
    BY PortsAssumption DEF Init, Begin
  <2>1. PortsTypes
    BY <2>0 DEF Init, PortsTypes
  <2>2. OnceInv
    BY DEF Init, OnceInv, OneSlot, Held, WasSent
  <2>3. GapInv
    BY <2>0, SlotsFacts DEF Init, GapInv
  <2>4. RoomInv
    <3>1. Taken(Begin) = {} /\ finished = {}
      BY DEF Init, Taken
    <3> QED BY <2>0, <3>1, FS_EmptySet DEF RoomInv
  <2> QED BY <2>1, <2>2, <2>3, <2>4 DEF PortsInv
<1>2. PortsInv /\ UNCHANGED vars => PortsInv'
  BY DEF vars, PortsInv, PortsTypes, OnceInv, OneSlot, Held, WasSent, GapInv, RoomInv, Taken, Begin
<1>3. PortsInv /\ [Next]_vars => PortsInv'
  BY <1>2, InstToCommitStep, StartTickStep, EndTickStep DEF Next
<1> QED BY <1>1, <1>3, PTL DEF Spec

\* For every width, number of rows and order in which instructions finish, the swaps of
\* instToCommit() lose and duplicate none: each that finished is in one slot of iewQueue
\* or was sent to commit once.
THEOREM PortsKeepEach == Spec => []EachOnce
<1>1. PortsInv => EachOnce
  <2> SUFFICES ASSUME PortsInv, NEW i \in Insts
               PROVE  sent[i] + Cardinality({p \in Slots : slots[p] = i})
                        = IF i \in finished THEN 1 ELSE 0
    BY Zenon DEF EachOnce
  <2> DEFINE P == {p \in Slots : slots[p] = i}
  <2>1. i # 0 /\ sent[i] \in {0, 1}
    BY PortsAssumption, Zenon DEF PortsInv, PortsTypes
  <2>2. i \in finished <=> i \in Held(slots) \/ sent[i] = 1
    BY DEF PortsInv, OnceInv, WasSent
  <2>3. ~(i \in Held(slots) /\ sent[i] = 1)
    BY DEF PortsInv, OnceInv, WasSent
  <2>4. CASE i \in Held(slots)
    <3>1. PICK p \in Slots : slots[p] = i
      BY <2>4 DEF Held
    <3>2. P = {p}
      BY <2>1, <3>1 DEF PortsInv, OnceInv, OneSlot
    <3>3. Cardinality(P) = 1
      BY <3>2, FS_Singleton, Zenon
    <3> QED BY <2>1, <2>2, <2>3, <2>4, <3>3
  <2>5. CASE i \notin Held(slots)
    <3>1. P = {}
      BY <2>1, <2>5, Zenon DEF Held
    <3>2. Cardinality(P) = 0
      BY <3>1, FS_EmptySet
    <3> QED BY <2>1, <2>2, <2>5, <3>2
  <2> QED BY <2>4, <2>5
<1> QED BY <1>1, Invariance, PTL

\* Whatever is sent to commit has been written back: writebackInsts(), which stops at the
\* first empty slot, passes over no instruction.
THEOREM PortsWakeAll == Spec => []SentWereWoken
<1>1. PortsInv => SentWereWoken
  BY DEF PortsInv, GapInv, SentWereWoken
<1> QED BY <1>1, Invariance, PTL
=============================================================================
