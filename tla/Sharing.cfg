\* Sequence: two requests for one account, each sent and built up to twice, and two
\* submissions from elsewhere.  Connection: three callers, three clients, one disconnect.
CONSTANTS
    Request = {u1, u2}
    MaxSends = 2
    MaxOutside = 2
    Caller = {p1, p2, p3}
    MaxClients = 3
    MaxDisconnects = 1
SPECIFICATION SharingSpec
CHECK_DEADLOCK FALSE
INVARIANTS
    AppliedAtMostOnce
    OneConnection
PROPERTIES
    BadSeqNeedsDisturbance
    EveryRequestAnswered
    EveryCallEnds
