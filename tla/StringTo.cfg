CONSTANTS
    Digits = {0, 1, 2, 5, 6, 7, 8}
    MaxDigits = 3
    Powers = {0, 3, 6}
    Bits = 10
    NarrowBits = 8
SPECIFICATION Conversion
INVARIANTS
    AcceptedIsMeant
    MeantIsAccepted
\* One conversion.
CHECK_DEADLOCK FALSE
