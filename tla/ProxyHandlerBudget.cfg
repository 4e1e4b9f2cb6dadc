CONSTANTS
    Requests = {r1, r2, r3}
    Models = {"small", "large"}
    NoModel = NoModel
    NoShape = NoShape
    Shapes <- BudgetShapes
    MaxSize = 2
    MaxBodyBytes = 0
    MaxBufferedBytes = 2
    MaxConcurrent <- MCMaxConcurrent
    MaxAttempts = 1
SPECIFICATION Spec
SYMMETRY Symmetry
INVARIANTS TypeOK BudgetConserved StreamReservesNothing
PROPERTIES BudgetRefusalJustified
