CONSTANTS
    Requests = {r1, r2, r3}
    Models = {"small", "large"}
    NoModel = NoModel
    NoShape = NoShape
    Shapes <- SlotShapes
    MaxSize = 1
    MaxBodyBytes = 0
    MaxBufferedBytes = 0
    MaxConcurrent <- TwoSlots
    MaxAttempts = 1
SPECIFICATION Spec
SYMMETRY Symmetry
INVARIANTS SlotsConserved
PROPERTIES SlotRefusalJustified
