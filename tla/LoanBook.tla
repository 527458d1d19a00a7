------------------------------ MODULE LoanBook ------------------------------
(***************************************************************************)
(* What the lending tables promise: the loans, loan_events, transactions_log *)
(* and reputation_scores rows that backend/src/api/routes/loans.ts writes, *)
(* with each operation taking effect in one step.  LoanRequests refines it  *)
(* into concurrent request handlers, row locks and transactions.           *)
(*                                                                         *)
(* Money.  A loan's amount and its repayments are whole stroops (1e-7 of    *)
(* the asset); the rate is NUMERIC(6,2) percent, that is whole basis points. *)
(* Principal plus interest is then exact in grains, 1/Stroop of a stroop.   *)
(*                                                                         *)
(* Doubles.  The handler reads these NUMERICs with Number(), computes with *)
(* doubles and writes a sum back with toFixed(7); the database keeps and    *)
(* checks exact decimals.  A result of the handler's arithmetic lies within *)
(* one part in Precision of the exact one: what it decides by a comparison  *)
(* and what it writes are any of the outcomes that error leaves open.       *)
(***************************************************************************)
EXTENDS Integers, FiniteSets

CONSTANTS
    Address,    \* Stellar public keys
    Community,  \* communities a loan can belong to
    LoanId,     \* primary keys of the loans table
    Amount,     \* the amounts clients send, in stroops
    Rate,       \* the interest rates clients send, in basis points
    TxHash,     \* transaction hashes a lender may attach to a disbursement
    Precision   \* of the arithmetic: 2^49 for doubles, whose every operation rounds
                \* by at most 2^-53, none of the results taking more than 16

ASSUME PrecisionAssumption == Precision \in Nat \ {0}
ASSUME AmountAssumption == Amount \subseteq Nat \ {0}
MaxRate == 10 * 100 * 100     \* 1000 percent

ASSUME RateAssumption == Rate \subseteq 0..MaxRate
ASSUME LoanIdAssumption == IsFiniteSet(LoanId)

VARIABLES
    loans,   \* loans[l]: the committed row, or NoLoan
    events,  \* events[l][e]: rows of type e in loan_events, each with its
             \* transactions_log twin 'loan_<e>' inserted by the same transaction
    paid,    \* paid[l]: SUM(amount) over the 'repayment' events of l
    hashes,  \* the non-null values of the UNIQUE column stellar_tx_hash
    rep      \* rep[<<a, c>>]: the reputation_scores row of a in c

book == <<loans, events, paid, hashes, rep>>

-----------------------------------------------------------------------------
(* Rows *)

Status == {"pending", "active", "repaid", "defaulted", "cancelled"}
Terminal == {"repaid", "defaulted", "cancelled"}
EventType == {"created", "disbursed", "repayment", "closed", "defaulted"}

NoLoan == [status |-> "absent"]

Row == [status : Status, borrower : Address, lender : Address,
        community : Community, amount : Nat \ {0}, rate : 0..MaxRate,
        repaid : Nat, disbursed : BOOLEAN, closed : BOOLEAN]

\* The row an INSERT leaves behind, the column defaults of the table included.
NewLoan(b, n, c, amt, rt) ==
    [status |-> "pending", borrower |-> b, lender |-> n, community |-> c,
     amount |-> amt, rate |-> rt, repaid |-> 0,
     disbursed |-> FALSE, closed |-> FALSE]

RepKey == Address \X Community
KeyOf(row) == <<row.borrower, row.community>>
RepRow == [total : Nat, onTime : Nat, defaults : Nat, score : Nat]
\* No row yet.  The counters and the score are the column defaults an upsert
\* starts from.
NewRep == [total |-> 0, onTime |-> 0, defaults |-> 0, score |-> 50 * 100]

-----------------------------------------------------------------------------
(* Arithmetic *)

Stroop == 100 * 100

Due(row) == row.amount * (Stroop + row.rate)
Outstanding(row) == Due(row) - Stroop * row.repaid

\* The grains by which the two sides of a comparison may be misjudged.
Err(row) == (Due(row) + Stroop) \div Precision

\* The handler compares doubles with a tolerance of one stroop: whether the
\* payment is more than is outstanding, and whether what is left after it counts
\* as nothing.  On a tie, and within Err of it, both branches may be taken.
MayAccept(row, x) == Stroop * x <= Outstanding(row) + Stroop + Err(row)
MayReject(row, x) == Stroop * x >= Outstanding(row) + Stroop - Err(row)
Left(row, x) == Outstanding(row) - Stroop * x
MayClose(row, x) == Left(row, x) <= Stroop + Err(row)
\* Slip: a tolerance in one of the two comparisons only.
OpenUntilExact(row, x) == Left(row, x) > 0
MayStayOpen(row, x) == Left(row, x) >= Stroop - Err(row)

\* The stroops by which toFixed(7) of the double sum may miss the exact sum: half
\* a stroop and the error of the double, in whole stroops.
Off(row) ==
    (2 * (Due(row) + Stroop) + Precision * Stroop) \div (2 * Precision * Stroop)

\* What the UPDATE may write as the new amount_repaid.
Written(row, x) ==
    LET sum == row.repaid + x
    IN  {w \in sum - Off(row)..sum + Off(row) : w >= 0}

\* Slip: the column without its upper bound.
OnlyNonNegative(row) == row.repaid >= 0
\* loans_amount_repaid_check, evaluated by the database on exact NUMERICs.
RepaidCheck(row) == row.repaid >= 0 /\ Stroop * row.repaid <= Due(row)

\* 100 * (onTime + 1) / (onTime + defaults + 2), rounded half up to two
\* decimals and kept in hundredths.
MaxScore == 100 * 100
Score(onTime, defaults) ==
    LET n == onTime + defaults + 2
    IN  (2 * MaxScore * (onTime + 1) + n) \div (2 * n)

-----------------------------------------------------------------------------
(* The effect of each operation on a row *)

Disbursed(row) == [row EXCEPT !.status = "active", !.disbursed = TRUE]

\* w is the sum as it was written.
Repaid(row, w, full) ==
    [row EXCEPT !.repaid = w,
                !.status = IF full THEN "repaid" ELSE "active",
                !.closed = full]

Defaulted(row) == [row EXCEPT !.status = "defaulted", !.closed = TRUE]

Cancelled(row) == [row EXCEPT !.status = "cancelled"]

\* The counter increment of bumpReputation, before the score is recomputed.
Counted(r, field) == [r EXCEPT ![field] = @ + 1]
Rescored(r) == [r EXCEPT !.score = Score(r.onTime, r.defaults)]
Bump(key, field) == [rep EXCEPT ![key] = Rescored(Counted(@, field))]

Record(l, types) ==
    [events EXCEPT ![l] = [e \in EventType |-> IF e \in types THEN @[e] + 1 ELSE @[e]]]

-----------------------------------------------------------------------------
(* Operations *)

RepaymentEvents(full) == IF full THEN {"repayment", "closed"} ELSE {"repayment"}

BookInit ==
    /\ loans = [l \in LoanId |-> NoLoan]
    /\ events = [l \in LoanId |-> [e \in EventType |-> 0]]
    /\ paid = [l \in LoanId |-> 0]
    /\ hashes = {}
    /\ rep = [k \in RepKey |-> NewRep]

BookCreate(l) ==
    /\ loans[l] = NoLoan
    /\ \E b, n \in Address, c \in Community, amt \in Amount, rt \in Rate :
        /\ loans' = [loans EXCEPT ![l] = NewLoan(b, n, c, amt, rt)]
        /\ rep' = Bump(<<b, c>>, "total")
    /\ events' = Record(l, {"created"})
    /\ UNCHANGED <<paid, hashes>>

\* hs is the singleton of the hash the lender sent, or {} when none was sent.
BookDisburse(l, hs) ==
    /\ loans[l].status = "pending"
    /\ hs \cap hashes = {}
    /\ loans' = [loans EXCEPT ![l] = Disbursed(@)]
    /\ events' = Record(l, {"disbursed"})
    /\ hashes' = hashes \cup hs
    /\ UNCHANGED <<paid, rep>>

\* The row gets the sum as written, the event the amount as it was sent.
BookRepay(l, x, full) ==
    /\ loans[l].status = "active"
    /\ MayAccept(loans[l], x)
    /\ IF full THEN MayClose(loans[l], x) ELSE MayStayOpen(loans[l], x)
    /\ \E w \in Written(loans[l], x) :
        /\ RepaidCheck(Repaid(loans[l], w, full))
        /\ loans' = [loans EXCEPT ![l] = Repaid(@, w, full)]
    /\ events' = Record(l, RepaymentEvents(full))
    /\ paid' = [paid EXCEPT ![l] = @ + x]
    /\ rep' = IF full THEN Bump(KeyOf(loans[l]), "onTime") ELSE rep
    /\ UNCHANGED hashes

BookDefault(l) ==
    /\ loans[l].status = "active"
    /\ loans' = [loans EXCEPT ![l] = Defaulted(@)]
    /\ events' = Record(l, {"defaulted"})
    /\ rep' = Bump(KeyOf(loans[l]), "defaults")
    /\ UNCHANGED <<paid, hashes>>

\* Cancelling writes the status and nothing else: no event, no closing date, no
\* change to the borrower's tally.
BookCancel(l) ==
    /\ loans[l].status = "pending"
    /\ loans' = [loans EXCEPT ![l] = Cancelled(@)]
    /\ UNCHANGED <<events, paid, hashes, rep>>

HashChoice == {{}} \cup {{h} : h \in TxHash}

BookNext ==
    \E l \in LoanId :
        \/ BookCreate(l)
        \/ \E hs \in HashChoice : BookDisburse(l, hs)
        \/ \E x \in Amount, full \in BOOLEAN : BookRepay(l, x, full)
        \/ BookDefault(l)
        \/ BookCancel(l)

BookSpec == BookInit /\ [][BookNext]_book

-----------------------------------------------------------------------------
(* Invariants *)

BookTypeOK ==
    /\ loans \in [LoanId -> Row \cup {NoLoan}]
    /\ events \in [LoanId -> [EventType -> Nat]]
    /\ paid \in [LoanId -> Nat]
    /\ hashes \subseteq TxHash
    /\ rep \in [RepKey -> RepRow]

\* The books balance: what a loan says was repaid is the sum of its repayment
\* events, but for what the doubles of each repayment may lose or add (nothing
\* while they tell its stroops apart, where Off is 0); it is never more than
\* principal plus interest, and money only ever flowed on a loan that was disbursed.
Gap(a, b) == IF a >= b THEN a - b ELSE b - a

BooksBalance ==
    \A l \in LoanId :
        IF loans[l] = NoLoan
        THEN paid[l] = 0
        ELSE /\ Gap(paid[l], loans[l].repaid) <= events[l]["repayment"] * Off(loans[l])
             /\ Outstanding(loans[l]) >= 0
             /\ loans[l].disbursed \/ (paid[l] = 0 /\ loans[l].repaid = 0)

\* The event history tells the same story as the row: one creation, at most one
\* disbursement, exactly one ending for a repaid or defaulted loan and none for
\* any other, and the closing date set by exactly those endings.
Tally(b) == IF b THEN 1 ELSE 0
HistoryMatchesStatus ==
    \A l \in LoanId :
        LET s == loans[l].status
        IN  /\ events[l]["created"] = Tally(s # "absent")
            /\ events[l]["disbursed"] = Tally(s \in {"active", "repaid", "defaulted"})
            /\ events[l]["closed"] = Tally(s = "repaid")
            /\ events[l]["defaulted"] = Tally(s = "defaulted")
            /\ (events[l]["repayment"] > 0) <=> (paid[l] > 0)
            /\ s # "absent" =>
                  /\ loans[l].disbursed <=> (events[l]["disbursed"] = 1)
                  /\ loans[l].closed <=> (s \in {"repaid", "defaulted"})

\* A loan ends as repaid only with at most one stroop left to pay, give or take
\* what the doubles misjudge, and an active loan can be settled: some whole number
\* of stroops is accepted by the handler, satisfies the exact CHECK constraint and
\* closes the loan, however the doubles are rounded.  (With a fractional total
\* due a tolerance on only one side would leave a loan that no payment can close.)
\* That needs doubles that tell its stroops apart and a total due that is not so
\* close below a whole stroop that they take the rest for one: see Settleable.
Settles(row, x) ==
    /\ ~MayReject(row, x) /\ ~MayStayOpen(row, x)
    /\ \A w \in Written(row, x) : RepaidCheck(Repaid(row, w, TRUE))

Settleable(row) == Off(row) = 0 /\ (Due(row) % Stroop) + Err(row) < Stroop

SettledWithinTolerance ==
    \A l \in LoanId :
        /\ loans[l].status = "repaid" =>
              Outstanding(loans[l]) <= Stroop + Err(loans[l]) + Stroop * Off(loans[l])
        /\ loans[l].status = "active" /\ Settleable(loans[l]) =>
              \E x \in 1..(Outstanding(loans[l]) \div Stroop) : Settles(loans[l], x)

\* A borrower's reputation row counts exactly the loans in the loans table: all
\* those requested (the cancelled ones included), those that ended repaid, those
\* that ended in default.
LoansOf(key, S) ==
    {l \in LoanId : loans[l].status \in S /\ KeyOf(loans[l]) = key}

ReputationMatchesLoans ==
    \A k \in RepKey :
        /\ rep[k].total = Cardinality(LoansOf(k, Status))
        /\ rep[k].onTime = Cardinality(LoansOf(k, {"repaid"}))
        /\ rep[k].defaults = Cardinality(LoansOf(k, {"defaulted"}))

\* The stored score is the one the stored counters give, and within the range
\* 0 to 100 (in hundredths) that the table's CHECK constraint allows.
ScoreMatchesCounters ==
    \A k \in RepKey :
        /\ rep[k].score = Score(rep[k].onTime, rep[k].defaults)
        /\ rep[k].score \in 0..MaxScore

-----------------------------------------------------------------------------
(* Action properties *)

\* An ended loan is frozen: no late disbursement, repayment, default or
\* cancellation changes it or adds to its history.
EndedIsFrozen ==
    [][\A l \in LoanId :
        loans[l].status \in Terminal =>
            /\ loans'[l] = loans[l]
            /\ events'[l] = events[l]
            /\ paid'[l] = paid[l]]_book

=============================================================================
