SPECIFICATION Spec
CONSTANTS
    Whole = 8
    Recipients = {1, 2, 3, 4, 5, 6}
    NotStated = notStated
    Periods = {1, 2}
    Requests = {q1}
    Receipts = {0, 2, 3, 4, 13, 16}
    Stated = {7}
    Settings <- AllSettings
    MaxReports = 2
CHECK_DEADLOCK FALSE
INVARIANTS
    NoShareBelowZero
