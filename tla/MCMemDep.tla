------------------------------ MODULE MCMemDep ------------------------------
(* Small instances of MemDep for TLC. *)
EXTENDS MemDep

Inst(k, pc) == [kind |-> k, nonSpec |-> FALSE, mayRestrict |-> FALSE, pc |-> pc]
NonSpec(t) == [t EXCEPT !.nonSpec = TRUE]
MayRestrict(t) == [t EXCEPT !.mayRestrict = TRUE]
Load == Inst("load", 0)
Store == Inst("store", 4)
OtherLoad == Inst("load", 13)
OtherStore == Inst("store", 8)
MemBarrier == Inst("memBarrier", 12)
WriteBarrier == Inst("writeBarrier", 16)

\* Stores and loads of a set and a load of another; barriers of both kinds; and
\* instructions that are not speculative.
MCPrograms ==
  { <<Store, Load, Store, OtherLoad>>,
    <<MayRestrict(OtherStore), Load, Load, MemBarrier>>,
    <<Store, Store, Load, MayRestrict(Store)>>,
    <<MemBarrier, MayRestrict(WriteBarrier), Load, Store>>,
    <<MemBarrier, MemBarrier, Load, MayRestrict(Load)>>,
    <<NonSpec(Store), WriteBarrier, MayRestrict(Load), NonSpec(Load)>> }

\* Two barriers and a load; nothing is restricted.
MCBarriers == {<<MemBarrier, MemBarrier, Load>>}
=============================================================================
