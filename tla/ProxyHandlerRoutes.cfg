CONSTANTS
    Requests = {r1, r2}
    Models = {"small", "large"}
    NoModel = NoModel
    NoShape = NoShape
    Shapes <- RouteShapes
    MaxSize = 3
    MaxBodyBytes = 2
    MaxBufferedBytes = 3
    MaxConcurrent <- MCMaxConcurrent
    MaxAttempts = 2
SPECIFICATION FairSpec
INVARIANTS ReplayableIsReserved
PROPERTIES NeverResentOnceAnswered ImplementsAdmission NeverWaitsForOthers EverythingGivenBack
