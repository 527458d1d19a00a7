\* Prices: two processes, two requests, two providers; the clock runs for ever.  Replays:
\* three attempts under two keys on two routes.  Balances: two GETs and two transfers
\* overlap.
CONSTANTS
    Process = {s1, s2}
    Request = {q1, q2}
    Providers = 2
    Ttl = 2
    Timeout = 1
    Delay = 1
    Attempt = {t1, t2, t3}
    Key = {k1, k2}
    Endpoint = {e1, e2}
    None = None
    Reader = {r1, r2}
    Writer = {w1, w2}
    TTL = 2
    MaxVersion = 3
    MaxNow = 4
SPECIFICATION Spec
SYMMETRY Symmetries
CHECK_DEADLOCK FALSE
INVARIANTS
    AgeIsBounded
    AnsweredInTime
    ReplaysAgree
    StaleForTTLAtMost
