CONSTANTS
    Unknown = Unknown
    Unconfirmed = Unconfirmed
    NoFile = NoFile
    MaxHeight = 4
    MaxStarts = 3
SPECIFICATION Spec
INVARIANTS NeverUnexpected
CHECK_DEADLOCK FALSE
