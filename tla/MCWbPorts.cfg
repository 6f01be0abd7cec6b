SPECIFICATION Spec
CONSTANTS
    Width = 2
    Rows = 4
    Insts = {1, 2, 3, 4, 5}
    Thread <- ThirdApart
    STT = FALSE
INVARIANTS EachOnce SentWereWoken
