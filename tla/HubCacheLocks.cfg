CONSTANTS
    A = A
    B = B
    main = main
    pr = pr
    c1 = c1
    c2 = c2
    b1 = b1
    b2 = b2
    Repos = {A, B}
    Refs = {main, pr}
    Commits = {c1, c2}
    Blobs = {b1, b2}
    Hub = Hub
    Every = Every
    Default = main
    Content <- MCContent
    Specs <- MCSpecs
    Upstreams <- MCUpstreams
    Linkeds <- MCLinkeds
    NoRepo = NoRepo
    MaxFetches = 2
SPECIFICATION Spec
INVARIANTS NoStaleLocks
CHECK_DEADLOCK FALSE
