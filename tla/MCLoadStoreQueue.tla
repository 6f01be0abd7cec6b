------------------------- MODULE MCLoadStoreQueue -------------------------
EXTENDS LoadStoreQueue

MCBytes == 0..2
MCMaxEvents == <<2, 2, 2, 1>>

Load(B) == [kind |-> "load", bytes |-> B, mayRestrict |-> FALSE]
Store(B) == [kind |-> "store", bytes |-> B, mayRestrict |-> FALSE]
MayRestrict(a) == [a EXCEPT !.mayRestrict = TRUE]

\* Lines are {0, 1} and {2}: {1, 2} is a split access, {0, 1} one that {0} covers in part.
MCPrograms == {
    <<MayRestrict(Store({0})), Load({0})>>,
    <<MayRestrict(Store({0})), MayRestrict(Load({0, 1}))>>,
    <<Store({1, 2}), Load({0, 1})>>,
    <<Store({0}), Store({2}), Store({0})>>,
    <<Load({0}), MayRestrict(Load({2})), Load({0})>>,
    <<Load({2}), MayRestrict(Load({1, 2}))>>,
    <<Store({0}), Store({0}), Load({0})>>,
    <<Store({0}), Load({0, 1}), Store({1}), Load({0, 1})>>
}
=============================================================================
