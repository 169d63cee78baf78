SPECIFICATION Spec
CONSTANTS
    d1 = d1
    d2 = d2
    d3 = d3
    A00 = A00
    A53 = A53
    A54 = A54
    Displays <- MCDisplays
    HeaderFid = A70
    ValueFids <- MCValueFids
    Rows <- MCRows
    Otma = {d1, d2}
    Blank = Blank
    Null = Null
INVARIANTS
    TypeOK
    AloneSucceeds
CHECK_DEADLOCK FALSE
