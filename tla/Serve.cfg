CONSTANTS
    Unix = {"unix"}
    Tcp = {"tcp"}
    Configs <- AllConfigs
    Conns = {c1, c2}
    MaxEntries = 2
    MaxRuns = 2
SPECIFICATION FairSpec
INVARIANTS TypeOK ReadyMeansReachable
PROPERTIES StaleNeverFails FailedStartCleansUp SignalEnds SecondSignalEnds FailureEnds
