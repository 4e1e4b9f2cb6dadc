CONSTANTS
    Callers = {c1, c2, c3}
    Backends = {b1, b2}
    NoCaller = NoCaller
    TTL = 1
    ProbeTimeout = 2
SPECIFICATION FairSpec
INVARIANTS TypeOK OkIsRecent WaitIsOneRound
PROPERTIES RoundsSpaced EveryCallerAnswered
