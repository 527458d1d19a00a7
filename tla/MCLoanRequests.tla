--------------------------- MODULE MCLoanRequests ---------------------------
(* Instances of LoanRequests for TLC. *)
EXTENDS LoanRequests, TLC

\* One stroop at 50% owes 1.5 stroops: payments of one and two stroops fall on both
\* sides of every comparison.  Without interest they fall on its tie.
OneOrTwoStroops == {1, 2}
OneStroop == {1}
BothRates == {0, 5000}
NoInterest == {0}

\* The handlers treat all addresses, ids and handlers alike.
Symmetries ==
    Permutations(Address) \cup Permutations(LoanId) \cup Permutations(Request)

=============================================================================
