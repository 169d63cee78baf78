SPECIFICATION Spec
CONSTANTS
    MaxItems = 4
    Widths <- OneOrTwo
INVARIANT
    BlanksAreSkipped
