\* Two handlers contending for one loan: every payment size on both sides of
\* the tolerance, with and without interest.  At this precision every comparison
\* may be misjudged and the sums of the largest loan are written wrong.
CONSTANTS
    Address = {a, b}
    Community = {c}
    LoanId = {l1}
    Amount <- OneOrTwoStroops
    Rate <- BothRates
    TxHash = {h}
    Precision = 8
    MaxRepayments = 3
    Request = {p1, p2}
SPECIFICATION Spec
SYMMETRY Symmetries
INVARIANTS
    BooksBalance
    HistoryMatchesStatus
    SettledWithinTolerance
    AnswersAreBooked
