\* Wallet: two tabs, two accounts, two challenges that replace one another.  Client: two
\* requests, one signal.  List box: up to two options, two letters.  Notifications: three,
\* within two moments.  Colours: two loads.  Lists: up to three rows, pages of one or two.
\* Requests: up to two odd values.
CONSTANTS
    None = None
    testnet = testnet
    public = public
    a1 = a1
    a2 = a2
    t1 = t1
    t2 = t2
    Tab = {t1, t2}
    Account = {a1, a2}
    Network = {testnet, public}
    Expected = testnet
    MaxChallenges = 2
    q1 = q1
    q2 = q2
    Call = {q1, q2}
    MaxChanges = 1
    a = a
    b = b
    Letter = {a, b}
    MaxOptions = 2
    Durations = {0, 2}
    MaxToasts = 3
    MaxTime = 2
    MaxLoads = 2
    MaxRows = 3
    MaxKey = 2
    DefaultLimit = 1
    MaxLimit = 2
    MaxOdd = 2
\* Requests end, and readers who have turned the last page stop.
CHECK_DEADLOCK FALSE
SPECIFICATION FairInterfaceSpec
SYMMETRY AccountSymmetry
INVARIANTS
    TokenNamesShownAccount
    ToldTheCause
    DisabledAreSkipped
    WalkIsComplete
    LayersAgree
PROPERTIES
    MismatchIsShown
    EveryConnectEnds
    NoneGoesEarly
    NoFlash
