CONSTANTS
    Key = {k1, k2, k3}
    MaxSize = 2
    MaxReports = 4
    Contended = TRUE
SPECIFICATION Spec
INVARIANTS
    TypeOK
    IndexIsExact
    StreamIsWellFormed
    RowsLeadToTheirMessage
