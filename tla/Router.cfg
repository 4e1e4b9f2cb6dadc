CONSTANTS
    Secrets = {"env", "cred", "file", "odd"}
    Scheme <- MCScheme
    Unprintable = {"odd"}
    Absent = Absent
    Nobody = Nobody
    Instances <- MCInstances
    Written = {"", ".", "..", "route", "v1", "models", "health", "a", "b", "R", "A"}
    Text <- MCText
    Requests <- MCRequests
SPECIFICATION Spec
INVARIANTS TypeOK ServedWasChecked CheckedIsServed OnlyTokensAuthenticate HeadersReachBackend NamesReachable SentAsWritten CatalogAgrees
CHECK_DEADLOCK FALSE
