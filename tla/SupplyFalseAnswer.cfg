\* A single submission.
CONSTANTS
    Request = {q1}
    MaxOpen = 1
    MaxSupply = 2
SPECIFICATION Spec
CHECK_DEADLOCK FALSE
INVARIANTS
    InvalidMeansNotApplied
