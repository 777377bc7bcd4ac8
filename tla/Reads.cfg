SPECIFICATION ReadsSpec
CONSTANTS
    RowId = {1, 2, 3, 4}
    Env = {1, 2, 3}
    Scope = {1, 3}
    Limit = 2
    MaxChanges = 2
CHECK_DEADLOCK FALSE
INVARIANTS
    ReadsTypeOK
    ReadsStayInScope
    WalksMissNothing
