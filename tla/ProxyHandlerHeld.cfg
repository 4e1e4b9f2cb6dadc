CONSTANTS
    Requests = {r1, r2}
    Models = {"small", "large"}
    NoModel = NoModel
    NoShape = NoShape
    Shapes <- LivenessShapes
    MaxSize = 2
    MaxBodyBytes = 0
    MaxBufferedBytes = 2
    MaxConcurrent <- MCMaxConcurrent
    MaxAttempts = 1
SPECIFICATION Spec
INVARIANTS HeldWithinBudget
