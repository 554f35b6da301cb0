SPECIFICATION Spec
CONSTANTS
    Whole = 8
    Recipients = {1, 2, 3, 4, 5, 6}
    NotStated = notStated
    Periods = {1, 2}
    Requests = {q1, q2, q3}
    Receipts = {2, 4, 13, 16}
    Stated = {7}
    Settings <- AllSettings
    MaxReports = 2
SYMMETRY Symmetric
CHECK_DEADLOCK FALSE
INVARIANTS
    TypeOK
    
    NoCategoryBelowZero
    FloorsAreMet
    
