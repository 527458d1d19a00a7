\* Supply: three submissions that follow one another.  Payments: a request of any
\* operation and a burn, three accounts, four windows.  Trustlines: two requests, two
\* changes by others.  Failures: up to three operations.  Signatures: three keys.
\* Envelopes: up to two operations, seven windows.
CONSTANTS
    Submission = {q1, q2, q3}
    Request = {anything, burn}
    Kinds <- OneOfEach
    MaxOpen = 1
    MaxSupply = 3
    Account = {i, a, b}
    Issuer = i
    anything = anything
    burn = burn
    Bounds <- Boundaries
    Limit = 2
    MaxBatch = 2
    MaxSends = 2
    MaxTime = 3
    Timeout = 1
    MaxUnix = 6
    Change = {c1, c2}
    MaxLimit = 2
    MaxMoves = 2
    StatusCodes = {400, 404, 429, 500, 503, 504}
    Shared = {op_underfunded, op_no_trust}
    OnlyContracts = {op_no_trust_line}
    OnlyRoutes = {op_cant_delete}
    Unexplained = {op_unheard_of}
    MaxOperations = 3
    Key = {k1, k2, k3}
    MaxWeight = 3
    MaxThreshold = 7
    Windows <- EnvelopeWindows
    MaxContents = 2
SPECIFICATION LedgerSpec
SYMMETRY Symmetry
CHECK_DEADLOCK FALSE
INVARIANTS
    ReadersAgree
    RightlyBlamed
    FewestSuffice
PROPERTIES
    BlamesTheCause
    RefreshedMeansCurrent
    ChangedAreEvicted
    AppliedInWindow
    PreflightIsExact
