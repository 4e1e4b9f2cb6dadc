CONSTANTS
    Unix = {"unix"}
    Tcp = {"tcp"}
    Configs <- OneConfig
    Conns = {c1}
    MaxEntries = 2
    MaxRuns = 1
SPECIFICATION Spec
PROPERTIES DrainsInFlight
