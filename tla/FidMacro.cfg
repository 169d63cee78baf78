SPECIFICATION Spec
CONSTANTS
    MaxItems = 4
    Widths <- OneOrTwo
INVARIANTS
    TypeOK
    OneColumnPerValue
    ColumnsCoverTheLine
    KeysGetTheirValues
