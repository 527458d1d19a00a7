\* Two loans of one borrower: transactions that own different loans meet on one
\* reputation row and on one transaction hash.  Fair handlers and fair lock queues.
CONSTANTS
    Address = {a}
    Community = {c}
    LoanId = {l1, l2}
    Amount <- OneStroop
    Rate <- NoInterest
    TxHash = {h}
    Precision = 8
    MaxRepayments = 3
    Request = {p1, p2}
SPECIFICATION FairSpec
INVARIANTS
    ReputationMatchesLoans
PROPERTIES
    BookSpec
    EndedIsFrozen
    EveryRequestEnds
